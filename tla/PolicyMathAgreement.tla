------------------------ MODULE PolicyMathAgreement ------------------------
(***************************************************************************)
(* The evaluator's arithmetic against the other implementation of it, the  *)
(* Solidity reference libraries, and against what the results mean: every  *)
(* step draws one input from the whole range of a small width.             *)
(***************************************************************************)
EXTENDS PolicyMath, FiniteSets

CONSTANT Unknown        \* a violation bit the composition does not know

ASSUME UnknownAssumption == Unknown \notin Violation

VARIABLE input

MathInit == input = [of |-> "nothing"]

-----------------------------------------------------------------------------
(* The Solidity libraries: a revert is Refused.                             *)

\* Computed in uint256, bounded afterwards.
solidityScheduleWindow(startAt, interval, grace, occurrence) ==
    LET slot == startAt + (occurrence - 1) * interval IN
    IF ~ ValidTerms(interval, grace, occurrence) \/ slot > MaxTime \/ slot + grace > MaxTime
      THEN Refused
      ELSE [slot |-> slot, deadline |-> slot + grace]

\* The loop as it runs, with checked additions: a state of the loop is either
\* the two sums so far or Refused, and stays so.
solidityAdd(sums, entry, now, window, isFirst, prior) ==
    LET daily == sums.dailySpend + entry.value
        rolling == sums.rollingSpend + entry.value
        counted(inside, sum, old) == IF inside THEN sum ELSE old
    IN
    IF \/ sums = Refused
       \/ entry.value = 0 \/ entry.executedAt > now
       \/ ~ isFirst /\ entry.executedAt < prior
       \/ InDay(entry.executedAt, now) /\ daily > MaxUint
       \/ InRollingWindow(entry.executedAt, now, window) /\ rolling > MaxUint
      THEN Refused
      ELSE [dailySpend |-> counted(InDay(entry.executedAt, now), daily, sums.dailySpend),
            rollingSpend |-> counted(InRollingWindow(entry.executedAt, now, window),
                                     rolling, sums.rollingSpend)]

soliditySpendWindowTotals(entries, now, window) ==
    LET after[i \in 0..Len(entries)] ==
          IF i = 0 THEN [dailySpend |-> 0, rollingSpend |-> 0]
          ELSE solidityAdd(after[i - 1], entries[i], now, window, i = 1,
                           IF i = 1 THEN 0 ELSE entries[i - 1].executedAt)
    IN IF window = 0 \/ Len(entries) > MaxEntries THEN Refused ELSE after[Len(entries)]

\* One test after the other.
solidityCompose(violations) ==
    IF Unknown \in violations THEN "MALFORMED"
    ELSE IF "POLICY_DENIED" \in violations THEN "POLICY_DENIED"
    ELSE IF "TARGET_DENIED" \in violations THEN "TARGET_DENIED"
    ELSE IF "REQUESTER_DENIED" \in violations THEN "REQUESTER_DENIED"
    ELSE IF "ACTION_DENIED" \in violations THEN "ACTION_DENIED"
    ELSE IF "OCCURRENCE_EXCEEDED" \in violations THEN "OCCURRENCE_EXCEEDED"
    ELSE IF "COOLDOWN" \in violations THEN "COOLDOWN"
    ELSE IF "INSUFFICIENT_BALANCE" \in violations THEN "INSUFFICIENT_BALANCE"
    ELSE IF "FDC_INVALID" \in violations THEN "FDC_INVALID"
    ELSE IF "FTSO_INVALID" \in violations THEN "FTSO_INVALID"
    ELSE IF "CAP_EXCEEDED" \in violations THEN "CAP_EXCEEDED"
    ELSE "OK"

-----------------------------------------------------------------------------
(* The inputs.                                                              *)

PickReference ==
    \E amount, price \in 0..MaxUint, scale \in 1..(MaxScale + 1) :
        input' = [of |-> "reference", amount |-> amount, price |-> price, scale |-> scale]

PickSchedule ==
    \E startAt, interval, grace \in 0..MaxTime, occurrence \in 0..(MaxCount + 1) :
        input' = [of |-> "schedule", startAt |-> startAt, interval |-> interval,
                  grace |-> grace, occurrence |-> occurrence]

\* Values on both sides of every overflow, times over two days.
PickWindow ==
    \E n \in 0..(MaxEntries + 1), now \in 0..(2 * DaySeconds), window \in 0..(DaySeconds + 1) :
    \E values \in [1..n -> {0, 1, MaxUint - 1, MaxUint}],
       times \in [1..n -> 0..(DaySeconds + 1)] :
           input' = [of |-> "window", now |-> now, window |-> window,
                     entries |-> [i \in DOMAIN values |->
                       [value |-> values[i], executedAt |-> times[i]]]]

PickViolations ==
    \E violations \in SUBSET (Violation \cup {Unknown}) :
        input' = [of |-> "violations", violations |-> violations]

MathNext ==
    /\ input.of = "nothing"
    /\ PickReference \/ PickSchedule \/ PickWindow \/ PickViolations

MathSpec == MathInit /\ [][MathNext]_input

-----------------------------------------------------------------------------
(* Properties.                                                              *)

\* A reference value is the least number of whole units that covers the exact
\* quotient, and it is refused exactly when the exact product has no uint256.
ReferenceRoundsUp ==
    input.of = "reference" =>
    LET amount == input.amount
        price == input.price
        scale == input.scale
        result == referenceValue(amount, price, scale)
    IN
    IF price = 0 \/ scale > MaxScale \/ amount * price > MaxUint
      THEN result = Refused
      ELSE /\ result.value * scale >= amount * price
           /\ \A v \in 0..(result.value - 1) : v * scale < amount * price

\* The 64-bit schedule accepts and computes what the 256-bit one does, up to
\* the last second of the range, and a window ends before the next begins.
ScheduleAgrees ==
    input.of = "schedule" =>
    LET go(k) == scheduleWindow(input.startAt, input.interval, input.grace, k)
        k == input.occurrence
    IN
    /\ go(k) = solidityScheduleWindow(input.startAt, input.interval, input.grace, k)
    /\ go(k) # Refused /\ go(k + 1) # Refused => go(k).deadline < go(k + 1).slot

WindowTotalsAgree ==
    input.of = "window" =>
      spendWindowTotals(input.entries, input.now, input.window)
        = soliditySpendWindowTotals(input.entries, input.now, input.window)

CompositionAgrees ==
    input.of = "violations" =>
      /\ composePolicyDecision(input.violations) = solidityCompose(input.violations)
      /\ composePolicyDecision(input.violations) = "OK" <=> input.violations = {}

\* The schedules agree; the sums of a history are those of the loop that adds it up entry by entry
\* with checked additions, the same entries counted and the same refused; and of
\* a set of violations both implementations report the same reason, and allow
\* only when there is none.
LibrariesAgree == ScheduleAgrees /\ WindowTotalsAgree /\ CompositionAgrees
=============================================================================
