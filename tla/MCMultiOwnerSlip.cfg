SPECIFICATION MultiOwnerSpec
CONSTANTS
    MaxOwnerPolicies = 4  MaxOwnerRequests = 4  MaxMishaps = 2  MaxSlips = 2
INVARIANTS FundsKept
CHECK_DEADLOCK FALSE
