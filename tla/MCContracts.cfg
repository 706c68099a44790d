SPECIFICATION ContractsSpec
CONSTANTS
    alice = alice
    bob = bob
    shop = shop
    router = router
    vault = vault
    zero = zero
    fxrp = fxrp
    r1 = r1
    r2 = r2
    p1 = p1
    p2 = p2
    m1 = m1
    m2 = m2
    m3 = m3
    m4 = m4
    Address <- MCAddress
    Owner <- MCOwner
    Asset <- MCAsset
    RequestId <- MCRequestId
    VaultAddress <- vault
    ZeroAddress <- zero
    Policy <- MCPolicy
    Amount <- MCAmount
    WalletSupply = 2
    MaxDeposited = 3
    Admin <- bob
    Machine <- MCMachine
    KeyHigh <- MCKeyHigh
    Binding <- MCBinding
    Receipt <- MCReceipt
    MaxTime = 2
    RouterAddress <- router
    MaxOccurrence = 2
    RequestInput <- MCRequestInput
    Reason <- MCReason
    KnownReason <- MCReason
    IssuedAt <- MCIssuedAt
    Credential <- MCCredential
INVARIANTS
    Conservation Solvency
    PauseIsRecoverable 
PROPERTIES
    InactivePolicyGainsNothing EveryRequestEnds
    PublicFactsDecode
