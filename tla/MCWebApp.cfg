SPECIFICATION Spec
CONSTANTS
    Account = {alice, bob}
    NoAccount = none
    Conversation = {c1, c2}
    Amount = {1}
    Tokens = 1
    Operation = {o1, o2}
    Request = {r1, r2}
    RequestOwner = alice
    DeskOperation = {o1, o2}
    Rules = {strict, lax}
    Panel <- Panels
    alice = alice
    bob = bob
    r1 = r1
    r2 = r2
    c1 = c1
    c2 = c2
    o1 = o1
    o2 = o2
    strict = strict
    lax = lax
SYMMETRY Slots
INVARIANTS
    SnapshotIsOfAccount
    SuccessesAreFinal
    ResultsAreTheirOwn
CHECK_DEADLOCK FALSE
