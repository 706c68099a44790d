SPECIFICATION QuietSpec
CONSTANTS
    alice = alice
    shop = shop
    vault = vault
    router = router
    trigger = trigger
    zero = zero
    fxrp = fxrp
    p1 = p1
    r1 = r1
    r2 = r2
    m1 = m1
    m2 = m2
    m3 = m3
    t1 = t1
    t2 = t2
    t3 = t3
    Address <- MCAddress
    ZeroAddress <- zero
    Asset <- MCAsset
    Policy <- OnePolicy
    RequestId <- MCRequestIds
    Owner <- MCOwner
    VaultAddress <- vault
    Amount <- MCAmount
    WalletSupply = 2
    MaxDeposited = 2
    Admin <- router
    Machine <- MCMachine
    KeyHigh <- MCKeyHigh
    Binding <- MCBinding
    Receipt <- MCReceipt
    MaxTime = 2
    RouterAddress <- router
    MaxOccurrence = 2
    RequestInput <- MCRequestInput
    Reason <- NoReason
    KnownReason <- NoReason
    IssuedAt <- TwoTimes
    Credential <- MCCredential
    TriggerAddress <- trigger
    MaxProofAgeSeconds = 1
    Transaction <- MCTransaction
    Proof <- MCProof
    Attested <- MCAttested
    TriggerInput <- MCTriggerInput
INVARIANTS
    ReservationIffAllowed TwoMachinesAgreed ChainIsExecutions
    PaymentsStandForRequests ReadinessIsPermission
PROPERTIES
    ImplementsLedger
CHECK_DEADLOCK FALSE
