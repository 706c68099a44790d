SPECIFICATION LiveSpec
CONSTANTS
    t1 = t1  t2 = t2  r1 = r1  r2 = r2
    Transaction = {t1, t2}  PaymentOf <- MCPaymentOf  Owner = {ow}  FdcRelay = {r1, r2}
    RoundLength = 1  MaxTime = 2  MaxRequests = 2  Preparation = {p1}
    Ours = t1  Trigger = ow  MaxProofAgeSeconds = 1
    Profile = {"simulated", "live", "hosted"}  MaxElsewhere = 1  MaxOwnerPolicies = 2  MaxOwnerRequests = 3
    Check = {c1, c2}  Offer <- MCOffer  AttestedInput <- MCAttested  AllowedSource <- MCAllowed  MaxTriggerTime = 2
    Requests = 2  MaxNotifications = 2  MaxHeard = 3  MaxFeedBlock = 3  BlocksPerSecond = 2
    Dependency = {relay, rpc, m1, m2, m3}  RelayTarget = relay  RpcTarget = rpc
    RetentionSamples = 2  MaxIncidents = 3  MaxInFlight = 2  MaxSamples = 4  MaxChanges = 3
    MaxReading = 2  Client = {k1, k2}  Requester = {q1, q2}  RateMax = 2  RequesterRateMax = 1
    am1 = am1  am2 = am2  Manager = {am1, am2}  Bips = 2  MaxAmount = 3  MaxCalls = 2
    NetAmount = {2}  Instruction <- MCInstruction  MaxSettings = 2  MaxPayments = 1  MaxMints = 2
    RateWindow = 2  MaxTracked = 2  MaxArrivals = 4  MaxFrontTime = 2
SYMMETRY MCSymmetry
INVARIANTS AttestationsHold PublishedIsTrue InputsAcceptedOnce FeedIsCanonical AlertsFollowSamples WindowsHold
CHECK_DEADLOCK FALSE
