SPECIFICATION HostedSpec
CONSTANTS
    a = a
    i1 = i1
    i2 = i2
    i3 = i3
    p1 = p1
    p2 = p2
    t1 = t1
    Process = {p1, p2}
    Thread = {t1, t2}
    Identity = {i1, i2, i3, i4}
    Policy = {a}
    MachinesOf <- MCMachinesOf
    Ciphertext <- MCCiphertext
    Window <- MCWindow
    FutureSkew = 1
    Lifetime = 2
    MaxTime = 3
    MaxRestarts = 2
    Request = {r1}
    Requester = {creator, other}
    Creator = creator
    Opinions <- MCOpinions
    InitialDeposit = 1
    MaxDeposit = 2
    MaxCached = 1
    MaxOperations = 2
INVARIANTS CustodyHolds AnswerIsDecision RetriesAgree
PROPERTIES HandlersEnd RunningStaysMemoized OperationsEnd
CHECK_DEADLOCK FALSE
