SPECIFICATION PackagesSpec
CONSTANTS
  MaxUint = 8
  MaxTime = 20
  MaxCount = 5
  MaxScale = 4
  MaxEntries = 2
  DaySeconds = 3
  NoSnapshot = NoSnapshot
  Unknown = Unknown
  Policies <- PricedPolicies
  Amounts <- MCAmounts
  Lives = {2}
  Parties <- MCParties
  RequestIds = {1, 2, 3}
  Feeds <- DriftingFeeds
  Payments <- NoPayments
  Lag = 1
  Horizon <- MCHorizon
  MaxResults = 2
  owner = owner
  stranger = stranger
  shop = shop
  banned = banned
  token = token
  p0 = p0
  feedId = feedId
  c1 = c1
  c2 = c2
  x1 = x1
  x2 = x2
  a1 = a1  a2 = a2  k1 = k1  k2 = k2  d1 = d1  d2 = d2
  x = x  y = y  o1 = o1  o2 = o2
  Caller = {a1, a2}  Key = {k1, k2}  Digest = {d1, d2}
  MaxConcurrentEvaluations = 1  MaxStarts = 3
  Operation = {o1, o2}  Payment = {x, y}  PaymentsFor <- MCPaymentsFor
  FundingProof <- MCFundingProof  AttestedProof <- MCAttestedProof
  Call = {a1, a2}  MaxClock = 1
  Intent <- MCIntent  Agent = {k1, k2}  Request = {a1, a2}  Accept = {d1, d2}  Supply = 2
INVARIANT ReplayedWasCanonical
CHECK_DEADLOCK FALSE
