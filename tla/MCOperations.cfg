SPECIFICATION OperationsSpec
CONSTANTS
    Script = {"v1", "v2", "trigger", "foundation", "interactive", "version", "dispatcher"}
    MaxTroubles = 2
    MaxOwnerPolicies = 4  MaxOwnerRequests = 4  MaxMishaps = 4  MaxSlips = 0
INVARIANTS DeploymentsAreSound FundsKept
PROPERTIES  FundsComeBack
CHECK_DEADLOCK FALSE
