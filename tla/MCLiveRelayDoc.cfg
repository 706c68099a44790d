SPECIFICATION Spec
CONSTANTS
    Request = {r1}
    Requester = {creator}
    Creator = creator
    Opinions <- Unanimous
    InitialDeposit = 1
    MaxDeposit = 1
    MaxCached = 1
    MaxOperations = 2
INVARIANTS DispatchedOncePerAuthorization
CHECK_DEADLOCK FALSE
