-------------------------- MODULE PolicyEvaluator --------------------------
(***************************************************************************)
(* EvaluatePolicy, written once in Go for the machines                     *)
(* (apps/fcc-extension/internal/protocol) and once in TypeScript for the   *)
(* apps (packages/protocol/src/evaluator.ts), condition for condition the  *)
(* same: what is computed from a sealed policy, a public request and the   *)
(* public state handed over.  Hashes are ideal: a spend checkpoint is the  *)
(* sequence of payments it chains.                                         *)
(*                                                                         *)
(* The second half is a policy at work: machines evaluate requests against  *)
(* histories a caller supplies, the approved results are in flight while    *)
(* the clock and the chain move, and the router settles those that still    *)
(* continue the chain.  The limits of a policy are about the chain that     *)
(* results.                                                                 *)
(***************************************************************************)
EXTENDS PolicyMath, FiniteSets

CONSTANT NoSnapshot     \* the nil FTSO or FDC snapshot

\* Records:
\*   policy   commitment startAt endAt interval grace cooldown maxOccurrences maxPerAction
\*            dailyCap rollingCap rollingWindow, asset owner allowRequesters
\*            allowTargets denyTargets allowActionTypes, requireFTSO ftsoFeedId
\*            maxPriceAge requireFDC fdcMin fdcMax maxFDCAge
\*   request  policyCommitment requestId asset actionType requester target amount
\*            createdAt graceDeadline expiry scheduleSlot occurrence
\*            spendCheckpoint balanceCheckpoint inputCommitment
\*   feed     feedId value scale timestamp checkpoint
\*   payment  (FDC snapshot) checkpoint requestId amount timestamp consumed pending
\*   entry    request accountedAt ftso fdc
\*   state    availableBalance history occurrenceCount lastAccountingAt
\*            spendCheckpoint balanceCheckpoint now ftso fdc

\* Both schedule fields are zero or neither, an occurrence fits the policy's
\* life, and a cap over a rolling window has one.
normalizedPolicy(policy) ==
    /\ policy.rollingCap # 0 => policy.rollingWindow # 0
    /\ (policy.interval = 0) <=> (policy.grace = 0)
    /\ policy.interval # 0 =>
         LET first == scheduleWindow(policy.startAt, policy.interval, policy.grace, 1) IN
         /\ first # Refused
         /\ policy.endAt # 0 => first.deadline <= policy.endAt
    /\ policy.endAt # 0 => policy.endAt > policy.startAt
    /\ policy.requireFDC =>
         policy.fdcMin > 0 /\ policy.fdcMax >= policy.fdcMin /\ policy.maxFDCAge # 0

-----------------------------------------------------------------------------
(* The public inputs.                                                       *)

\* (A mutant: the accounting time is not part of it.)
CheckpointOf_NoTime(history) == [i \in DOMAIN history |-> <<history[i].request>>]

\* The spend checkpoint after a history: the genesis, extended by each payment.
CheckpointOf(history) ==
    [i \in DOMAIN history |-> <<history[i].request, history[i].accountedAt>>]

genesisSpendCheckpoint == <<>>

\* The reference value of an amount under a request's price feed.
ftsoReferenceValue(policy, request, feed, at) ==
    IF \/ feed = NoSnapshot
       \/ feed.feedId # policy.ftsoFeedId
       \/ feed.timestamp > at
       \/ at - feed.timestamp > policy.maxPriceAge
       \/ feed.checkpoint = NoSnapshot
      THEN Refused
      ELSE referenceValue(request.amount, feed.value, feed.scale)

\* (A mutant: any recent payment will do.)
validFDCSnapshot_AnyRequest(policy, request, payment, at) ==
    /\ payment # NoSnapshot
    /\ payment.amount \in policy.fdcMin..policy.fdcMax
    /\ payment.timestamp <= at /\ at - payment.timestamp <= policy.maxFDCAge
    /\ payment.consumed /\ payment.pending

\* The payment the request answers: within the frozen bounds and age, consumed
\* on chain for this request while it was pending.
validFDCSnapshot(policy, request, payment, at) ==
    /\ payment # NoSnapshot
    /\ payment.amount \in policy.fdcMin..policy.fdcMax
    /\ payment.timestamp <= at /\ at - payment.timestamp <= policy.maxFDCAge
    /\ payment.consumed /\ payment.pending
    /\ payment.requestId = request.requestId

CommitmentOf(snapshot, required) ==
    IF required /\ snapshot # NoSnapshot THEN snapshot.checkpoint ELSE NoSnapshot

inputCommitmentMatches(policy, request, feed, payment) ==
    /\ ~ policy.requireFTSO => feed = NoSnapshot
    /\ ~ policy.requireFDC => payment = NoSnapshot
    /\ request.inputCommitment = <<CommitmentOf(feed, policy.requireFTSO),
                                   CommitmentOf(payment, policy.requireFDC)>>

\* The reason a mismatched input commitment is reported as.
InputReason(policy) ==
    IF policy.requireFDC THEN "FDC_INVALID"
    ELSE IF policy.requireFTSO THEN "FTSO_INVALID" ELSE "MALFORMED"

-----------------------------------------------------------------------------
(* replaySpendHistoryV1                                                     *)

\* The i-th entry continues the chain its predecessors form.
Canonical(policy, history, i, now) ==
    LET entry == history[i]
        request == entry.request
    IN
    /\ request.policyCommitment = policy.commitment /\ request.asset = policy.asset
    /\ request.actionType = "FTESTXRP_TRANSFER" /\ request.amount \in 1..MaxUint
    /\ request.occurrence = i
    /\ request.spendCheckpoint = CheckpointOf(SubSeq(history, 1, i - 1))
    /\ request.createdAt <= entry.accountedAt /\ entry.accountedAt <= request.expiry
    /\ request.createdAt <= request.graceDeadline /\ request.graceDeadline <= request.expiry
    /\ entry.accountedAt <= now

\* An entry's value in the currency of the caps.
EntryValue(policy, entry) ==
    IF policy.requireFTSO
      THEN ftsoReferenceValue(policy, entry.request, entry.ftso, entry.accountedAt)
      ELSE [value |-> entry.request.amount]

EntryReason(policy, history, i, now) ==
    LET entry == history[i] IN
    IF ~ Canonical(policy, history, i, now) THEN "MALFORMED"
    ELSE IF EntryValue(policy, entry) = Refused THEN "FTSO_INVALID"
    ELSE IF ~ policy.requireFTSO /\ entry.ftso # NoSnapshot THEN "MALFORMED"
    ELSE IF policy.requireFDC
            /\ ~ validFDCSnapshot(policy, entry.request, entry.fdc, entry.accountedAt)
      THEN "FDC_INVALID"
    ELSE IF ~ policy.requireFDC /\ entry.fdc # NoSnapshot THEN "MALFORMED"
    ELSE IF ~ inputCommitmentMatches(policy, entry.request, entry.ftso, entry.fdc)
      THEN InputReason(policy)
    ELSE "OK"

LastAccountingAt(history) ==
    IF history = <<>> THEN 0 ELSE history[Len(history)].accountedAt

\* What the policy has spent: the first entry that does not replay decides the
\* reason, then the history must end where the state says the chain ends.
replaySpendHistory(policy, state) ==
    LET history == state.history
        wrong == {i \in DOMAIN history : EntryReason(policy, history, i, state.now) # "OK"}
        window == IF policy.rollingWindow = 0 THEN 1 ELSE policy.rollingWindow
        Totals == spendWindowTotals(
                    [i \in DOMAIN history |->
                        [value |-> EntryValue(policy, history[i]).value,
                         executedAt |-> history[i].accountedAt]],
                    state.now, window)
        refusal(reason) == [reason |-> reason, dailySpend |-> 0, rollingSpend |-> 0]
    IN
    IF Len(history) > MaxEntries THEN refusal("MALFORMED")
    ELSE IF wrong # {}
      THEN refusal(EntryReason(policy, history,
                     CHOOSE i \in wrong : \A j \in wrong : i <= j, state.now))
    ELSE IF \/ state.occurrenceCount # Len(history)
            \/ state.lastAccountingAt # LastAccountingAt(history)
            \/ state.spendCheckpoint # CheckpointOf(history)
      THEN refusal("STALE_INPUT")
    ELSE IF Totals = Refused THEN refusal("MALFORMED")
    ELSE [reason |-> "OK", dailySpend |-> Totals.dailySpend,
          rollingSpend |-> Totals.rollingSpend]

-----------------------------------------------------------------------------
(* EvaluatePolicy                                                           *)

\* The request is for the one slot its occurrence has, and is created and
\* evaluated inside it.
OutsideSchedule(policy, request, now) ==
    IF policy.interval = 0 THEN request.scheduleSlot # 0
    ELSE LET w == scheduleWindow(policy.startAt, policy.interval, policy.grace,
                                 request.occurrence) IN
         \/ w = Refused
         \/ request.scheduleSlot # w.slot
         \/ request.createdAt \notin w.slot..w.deadline
         \/ request.graceDeadline # w.deadline \/ request.expiry # w.deadline
         \/ now \notin w.slot..w.deadline
         \/ policy.endAt # 0 /\ w.deadline > policy.endAt

\* A cooldown that would end after the last representable time never ends: Go
\* tests for it, and in TypeScript the sum is beyond every clock.
CoolingDown(policy, last, now) ==
    /\ policy.cooldown # 0 /\ last # 0
    /\ last > MaxTime - policy.cooldown \/ now < last + policy.cooldown

\* (A mutant: what was already spent is forgotten.)
OverCap_Alone(policy, value, spent) ==
    \/ policy.maxPerAction # 0 /\ value > policy.maxPerAction
    \/ policy.dailyCap # 0 /\ value > policy.dailyCap
    \/ policy.rollingCap # 0 /\ value > policy.rollingCap

OverCap(policy, value, spent) ==
    \/ policy.maxPerAction # 0 /\ value > policy.maxPerAction
    \/ policy.dailyCap # 0 /\ spent.dailySpend + value > policy.dailyCap
    \/ policy.rollingCap # 0 /\ spent.rollingSpend + value > policy.rollingCap

\* Every rule the request breaks.
Violations(policy, request, state, spent) ==
    LET now == state.now
        converted == ftsoReferenceValue(policy, request, state.ftso, now)
        matches == inputCommitmentMatches(policy, request, state.ftso, state.fdc)
        badFTSO == \/ policy.requireFTSO /\ converted = Refused
                   \/ ~ matches /\ InputReason(policy) = "FTSO_INVALID"
        badFDC == \/ policy.requireFDC /\ ~ validFDCSnapshot(policy, request, state.fdc, now)
                  \/ ~ matches /\ InputReason(policy) = "FDC_INVALID"
        value == IF policy.requireFTSO /\ converted # Refused
                   THEN converted.value ELSE request.amount
        broken(name, condition) == IF condition THEN {name} ELSE {}
    IN
    broken("POLICY_DENIED", now < policy.startAt \/ (policy.endAt # 0 /\ now > policy.endAt)
                            \/ OutsideSchedule(policy, request, now))
    \cup broken("TARGET_DENIED", request.target \in policy.denyTargets
                  \/ (policy.allowTargets # {} /\ request.target \notin policy.allowTargets))
    \cup broken("REQUESTER_DENIED",
                request.requester \notin {policy.owner} \cup policy.allowRequesters)
    \cup broken("ACTION_DENIED", policy.allowActionTypes # {}
                                 /\ request.actionType \notin policy.allowActionTypes)
    \cup broken("OCCURRENCE_EXCEEDED", policy.maxOccurrences # 0
                                       /\ state.occurrenceCount >= policy.maxOccurrences)
    \cup broken("COOLDOWN", CoolingDown(policy, state.lastAccountingAt, now))
    \cup broken("INSUFFICIENT_BALANCE", state.availableBalance < request.amount)
    \cup broken("FTSO_INVALID", badFTSO)
    \cup broken("FDC_INVALID", badFDC)
    \cup broken("CAP_EXCEEDED", ~ badFTSO /\ OverCap(policy, value, spent))

UpToDate(policy, request, state) ==
    /\ request.spendCheckpoint = state.spendCheckpoint
    /\ request.balanceCheckpoint = state.balanceCheckpoint
    /\ state.occurrenceCount < MaxCount
    /\ request.occurrence = state.occurrenceCount + 1
    /\ state.occurrenceCount = 0 => request.spendCheckpoint = genesisSpendCheckpoint

WellFormed(policy, request, now) ==
    /\ request.asset = policy.asset /\ request.actionType = "FTESTXRP_TRANSFER"
    /\ request.amount # 0
    /\ request.createdAt <= now /\ now <= request.expiry
    /\ request.createdAt <= request.graceDeadline /\ request.graceDeadline <= request.expiry

\* The public reason class of the decision: OK is ALLOW, all others are DENY.
EvaluatePolicy(policy, request, state) ==
    IF state.availableBalance > MaxUint \/ request.amount > MaxUint THEN "MALFORMED"
    ELSE IF request.policyCommitment # policy.commitment THEN "WRONG_DOMAIN"
    ELSE IF ~ UpToDate(policy, request, state) THEN "STALE_INPUT"
    ELSE
    LET spent == replaySpendHistory(policy, state) IN
    IF spent.reason # "OK" THEN spent.reason
    ELSE IF ~ WellFormed(policy, request, state.now)
      THEN IF request.expiry < state.now THEN "EXPIRED" ELSE "MALFORMED"
    ELSE IF ~ inputCommitmentMatches(policy, request, state.ftso, state.fdc)
            /\ InputReason(policy) = "MALFORMED"
      THEN "MALFORMED"
    ELSE composePolicyDecision(Violations(policy, request, state, spent))

-----------------------------------------------------------------------------
(* A policy at work.                                                        *)

CONSTANTS
    Policies,       \* the policies a run starts from, one each
    Amounts,        \* Amounts[policy]: amounts requested
    Lives,          \* how long after its creation an ad-hoc request expires
    Parties,        \* Parties[policy]: requesters and targets, in pairs
    RequestIds,
    Feeds,          \* price snapshots of the feed
    Payments,       \* XRPL payment snapshots
    Lag,            \* bound: how far a pinned block is behind the chain
    Horizon,        \* bound: Horizon[policy], the last time of a run
    MaxResults      \* bound: approved results in flight

\* Wire types: times are below 2^64, and a scale is a power of ten.
ASSUME EvaluatorAssumption ==
    /\ \A p \in Policies :
          /\ {p.startAt, p.endAt, p.interval, p.grace, p.cooldown} \subseteq 0..MaxTime
          /\ {p.dailyCap, p.rollingCap, p.rollingWindow, p.maxFDCAge} \subseteq Nat
          /\ {p.requireFTSO, p.requireFDC} \subseteq BOOLEAN
          /\ Amounts[p] \subseteq Nat /\ Horizon[p] \in Nat \ {0}
    /\ \A feed \in Feeds : feed.value \in Nat /\ feed.scale \in Nat \ {0}
    /\ \A payment \in Payments : payment.timestamp \in Nat
    /\ Lives \subseteq Nat /\ Lag \in Nat /\ MaxResults \in Nat

\* A checkpoint names one snapshot: whoever publishes prices and payments
\* computes it from them.
SnapshotsAreNamed ==
    /\ \A f, g \in Feeds : f.checkpoint = g.checkpoint => f = g
    /\ \A x, y \in Payments : x.checkpoint = y.checkpoint => x = y

\* What an amount can be worth.
Worths(p, amount) ==
    IF p.requireFTSO
      THEN {referenceValue(amount, feed.value, feed.scale).value : feed \in
              {f \in Feeds : referenceValue(amount, f.value, f.scale) # Refused}}
      ELSE {amount}

\* The longest history that is replayed, of payments a policy's caps let
\* through one by one, has a sum in uint256.
WorthsFit ==
    \A p \in Policies : \E most \in 0..MaxUint :
       /\ most * MaxEntries <= MaxUint
       /\ \A amount \in Amounts[p] : \A worth \in Worths(p, amount) :
            worth <= most \/ OverCap(p, worth, [dailySpend |-> 0, rollingSpend |-> 0])

VARIABLES
    policy,         \* the policy sealed in the machines
    now,            \* the chain's clock
    chain,          \* the payments the router executed, with their snapshots
    results         \* approved results not settled yet

vars == <<policy, now, chain, results>>

Init ==
    /\ policy \in Policies
    /\ normalizedPolicy(policy)
    /\ now = 1
    /\ chain = <<>>
    /\ results = {}

Tick == now < Horizon[policy] /\ now' = now + 1 /\ UNCHANGED <<policy, chain, results>>

-----------------------------------------------------------------------------
(* Evaluation of a request a caller composes.                               *)

RecentTimes == {t \in (now - Lag)..now : t > 0}

\* Histories a caller may hand to a machine: the true one, or one that omits
\* the first or last payment, changes an amount or a time, or swaps a price.
SuppliedHistories ==
    {chain} \cup {SubSeq(chain, 1, Len(chain) - 1), SubSeq(chain, 2, Len(chain))}
    \cup {[chain EXCEPT ![i].request.amount = a] : i \in DOMAIN chain, a \in Amounts[policy]}
    \cup {[chain EXCEPT ![i].accountedAt = t] : i \in DOMAIN chain, t \in RecentTimes}
    \cup (IF policy.requireFTSO
            THEN {[chain EXCEPT ![i].ftso = f] : i \in DOMAIN chain, f \in Feeds} ELSE {})

\* A scheduled request names the slot of its occurrence, or a neighbour's.
TimesOf(occurrence, createdAt) ==
    IF policy.interval = 0
      THEN {[slot |-> 0, deadline |-> createdAt + life] : life \in Lives}
      ELSE {[slot |-> policy.startAt + k * policy.interval,
             deadline |-> policy.startAt + k * policy.interval + policy.grace] :
              k \in {occurrence - 1, occurrence}}

Snapshots(required, all) == IF required THEN all \cup {NoSnapshot} ELSE {NoSnapshot}

\* A request the router would accept now: it names the end of the chain.
RequestOf(feed, payment, created, parties, amount, times, id) ==
    [policyCommitment |-> policy.commitment, requestId |-> id,
     asset |-> policy.asset, actionType |-> "FTESTXRP_TRANSFER",
     requester |-> parties[1], target |-> parties[2], amount |-> amount,
     createdAt |-> created, graceDeadline |-> times.deadline,
     expiry |-> times.deadline, scheduleSlot |-> times.slot,
     occurrence |-> Len(chain) + 1, spendCheckpoint |-> CheckpointOf(chain),
     balanceCheckpoint |-> NoSnapshot,
     inputCommitment |-> <<CommitmentOf(feed, TRUE), CommitmentOf(payment, TRUE)>>]

\* The identifier matters where a payment's memo repeats it; elsewhere the
\* caller takes another for each creation.
RequestsMade(feed, payment, created) ==
    {RequestOf(feed, payment, created, parties, amount, times, id) :
        parties \in Parties[policy], amount \in Amounts[policy],
        times \in TimesOf(Len(chain) + 1, created),
        id \in (IF policy.requireFDC THEN RequestIds ELSE {<<Len(chain) + 1, created>>})}

RequestsFor(feed, payment) ==
    UNION {RequestsMade(feed, payment, created) : created \in RecentTimes}

\* The state the caller declares: the chain's own count and end, as the machine
\* could not tell them otherwise, and a history to account for them.
StateFor(history, at, feed, payment) ==
    [availableBalance |-> MaxUint, history |-> history, occurrenceCount |-> Len(chain),
     lastAccountingAt |-> LastAccountingAt(chain), spendCheckpoint |-> CheckpointOf(chain),
     balanceCheckpoint |-> NoSnapshot, now |-> at, ftso |-> feed, fdc |-> payment]

\* A denial moves nothing, here or on the chain; an approval is a result that
\* binds the request and the time it was accounted at.
Evaluate(request, state) ==
    /\ EvaluatePolicy(policy, request, state) = "OK"
    /\ results' = results \cup
         {[request |-> request, accountedAt |-> state.now, ftso |-> state.ftso,
           fdc |-> state.fdc, replayed |-> state.history]}
    /\ UNCHANGED <<policy, now, chain>>

EvaluateNext ==
    /\ Cardinality(results) < MaxResults
    /\ \E history \in SuppliedHistories, at \in RecentTimes,
          feed \in Snapshots(policy.requireFTSO, Feeds),
          payment \in Snapshots(policy.requireFDC, Payments) :
       \E request \in RequestsFor(feed, payment) :
          Evaluate(request, StateFor(history, at, feed, payment))

-----------------------------------------------------------------------------
(* The router (PayGuardActionRouter), as far as the chain is concerned.     *)

\* (A mutant: results approved from one snapshot can both be executed.)
ContinuesChain_CountOnly(result) == result.accountedAt >= LastAccountingAt(chain)

ContinuesChain(result) ==
    /\ result.request.spendCheckpoint = CheckpointOf(chain)
    /\ result.request.occurrence = Len(chain) + 1
    /\ result.accountedAt >= LastAccountingAt(chain)

\* A request executes once.
Unexecuted(result) ==
    \A i \in DOMAIN chain : chain[i].request.requestId # result.request.requestId

Settle(result) ==
    /\ now <= result.request.expiry
    /\ ContinuesChain(result)
    /\ Unexecuted(result)
    /\ chain' = Append(chain, [request |-> result.request, ftso |-> result.ftso,
                               accountedAt |-> result.accountedAt, fdc |-> result.fdc])
    /\ results' = results \ {result}
    /\ UNCHANGED <<policy, now>>

\* Its owner or requester cancels the request, or anyone expires it in time.
Abandon(result) == results' = results \ {result} /\ UNCHANGED <<policy, now, chain>>

SettleNext == \E result \in results : Settle(result)

AbandonNext == \E result \in results : Abandon(result)

Next == Tick \/ EvaluateNext \/ SettleNext \/ AbandonNext

Spec == Init /\ [][Next]_vars

-----------------------------------------------------------------------------
(* Properties.                                                              *)

\* Types of what the machines and the router keep, and a payment is accounted
\* at a time that has come, inside its request's life.
TypeOK ==
    /\ policy \in Policies /\ now \in 1..Horizon[policy]
    /\ \A i \in DOMAIN chain :
          /\ chain[i].accountedAt \in chain[i].request.createdAt..chain[i].request.expiry
          /\ chain[i].accountedAt <= now
          /\ chain[i].request.occurrence = i
    /\ \A result \in results : result.accountedAt <= now

\* What a payment is worth under its own price, by the meaning of rounding up.
WorthOf(entry) ==
    IF policy.requireFTSO
      THEN CHOOSE v \in 0..MaxUint :
             /\ v * entry.ftso.scale >= entry.request.amount * entry.ftso.value
             /\ (v - 1) * entry.ftso.scale < entry.request.amount * entry.ftso.value
      ELSE entry.request.amount

\* What the payments accounted between two times are worth.
SpentIn(first, last) ==
    SumFunctionOnSet([i \in DOMAIN chain |-> WorthOf(chain[i])],
                     {i \in DOMAIN chain : chain[i].accountedAt \in first..last})

\* No UTC day and no sliding window, wherever it lies, sees more accounted
\* than the policy's caps, although every result was approved alone, against
\* a supplied history, and settled later.
CapsHold ==
    \A t \in 0..now :
       /\ policy.dailyCap # 0 =>
            SpentIn(dayStart(t), dayStart(t) + DaySeconds - 1) <= policy.dailyCap
       /\ policy.rollingCap # 0 =>
            SpentIn(t - policy.rollingWindow + 1, t) <= policy.rollingCap

\* Payments follow each other no sooner than the cooldown, and those of a
\* schedule each in their own slot, none shared and none out of order.
SpacingKept ==
    \A i, j \in DOMAIN chain : i < j =>
       /\ chain[j].accountedAt >= chain[i].accountedAt + policy.cooldown
       /\ policy.interval # 0 =>
            \E slot \in 0..Horizon[policy] :
               /\ chain[i].accountedAt < slot /\ slot <= chain[j].accountedAt
               /\ (slot - policy.startAt) % policy.interval = 0

\* The limits of a policy, whatever part of them depends on time.
LimitsHold == CapsHold /\ SpacingKept

\* Whatever the machines have approved and the router has executed, the
\* machines still accept as history: a policy never locks itself out by its
\* own payments, up to the longest history that is replayed.
ReplayAccepts ==
    Len(chain) <= MaxEntries =>
       replaySpendHistory(policy,
          StateFor(chain, now, NoSnapshot, NoSnapshot)).reason = "OK"

\* A result that can be settled was approved on the true history, whatever
\* else callers supplied: an omitted payment, a changed amount, time or price.
ReplayedWasCanonical ==
    \A result \in results : ContinuesChain(result) => result.replayed = chain

\* No XRPL payment stands behind two executed requests, and each was recent
\* when it was accounted for.
PaymentsBackOnce ==
    policy.requireFDC =>
    \A i, j \in DOMAIN chain :
       /\ chain[i].fdc = chain[j].fdc => i = j
       /\ chain[i].accountedAt - chain[i].fdc.timestamp \in 0..policy.maxFDCAge
=============================================================================
