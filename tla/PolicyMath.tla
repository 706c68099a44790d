----------------------------- MODULE PolicyMath -----------------------------
(***************************************************************************)
(* The arithmetic a private policy is evaluated with, as the Go evaluator  *)
(* and its TypeScript mirror write it, line for line alike.  The widths of *)
(* the wire types are parameters, so that every boundary is within reach.  *)
(***************************************************************************)
EXTENDS Integers, Sequences, Functions

CONSTANTS
    MaxUint,        \* the largest uint256: amounts, prices, sums
    MaxTime,        \* the largest uint64: timestamps
    MaxCount,       \* the largest uint32: occurrences
    MaxScale,       \* 10^36, the largest accepted scale
    MaxEntries,     \* MaxSpendWindowEntriesV1
    DaySeconds      \* 86400

ASSUME WidthAssumption ==
    /\ MaxUint \in Nat \ {0} /\ MaxTime \in Nat /\ MaxCount \in Nat /\ MaxEntries \in Nat
    /\ MaxScale \in Nat /\ DaySeconds \in Nat \ {0}

\* The refusal of a computation (Go's false, TypeScript's null, a revert).
Refused == [refused |-> TRUE]

-----------------------------------------------------------------------------
(* REFERENCE_VALUE_V1                                                       *)

referenceValue(amount, price, scale) ==
    LET product == amount * price IN
    IF ~ (price > 0 /\ price <= MaxUint /\ scale <= MaxScale)
          \/ (amount # 0 /\ price > MaxUint \div amount)
      THEN Refused
      ELSE [value |-> (product \div scale) + (IF product % scale = 0 THEN 0 ELSE 1)]

-----------------------------------------------------------------------------
(* SCHEDULE_WINDOW_V1                                                       *)

ValidTerms(interval, grace, occurrence) ==
    /\ interval # 0 /\ grace # 0 /\ grace < interval
    /\ occurrence # 0 /\ occurrence <= MaxCount

\* Go and TypeScript: no intermediate value leaves uint64.
scheduleWindow(startAt, interval, grace, occurrence) ==
    LET index == occurrence - 1
        slot == startAt + index * interval
    IN
    IF ~ ValidTerms(interval, grace, occurrence)
       \/ (index # 0 /\ interval > (MaxTime - startAt) \div index)
       \/ grace > MaxTime - slot
      THEN Refused
      ELSE [slot |-> slot, deadline |-> slot + grace]

-----------------------------------------------------------------------------
(* SPEND_WINDOW_V1: entries are [value, executedAt].                        *)

\* The sum of the values of the entries counted.
SumWhere(entries, counted) ==
    SumFunctionOnSet([i \in DOMAIN entries |-> entries[i].value], counted)

\* (A mutant: two payments at one instant are taken for a replay.)
OrderedHistory_Distinct(entries, now) ==
    /\ Len(entries) <= MaxEntries
    /\ \A i \in DOMAIN entries :
          /\ entries[i].value \in 1..MaxUint
          /\ entries[i].executedAt <= now
          /\ i > 1 => entries[i].executedAt > entries[i - 1].executedAt

OrderedHistory(entries, now) ==
    /\ Len(entries) <= MaxEntries
    /\ \A i \in DOMAIN entries :
          /\ entries[i].value \in 1..MaxUint
          /\ entries[i].executedAt <= now
          /\ i > 1 => entries[i].executedAt >= entries[i - 1].executedAt

dayStart(now) == (now \div DaySeconds) * DaySeconds

\* The sliding window is open below: (now - window, now], and reaches back to
\* the beginning of time while the clock is younger than the window.
InRollingWindow(at, now, window) == now < window \/ at > now - window

InDay(at, now) == at >= dayStart(now)

\* Additions of positive values overflow at some entry exactly when the whole
\* sum does.
spendWindowTotals(entries, now, window) ==
    LET daily == SumWhere(entries, {i \in DOMAIN entries : InDay(entries[i].executedAt, now)})
        rolling == SumWhere(entries, {i \in DOMAIN entries :
                                        InRollingWindow(entries[i].executedAt, now, window)})
    IN
    IF window = 0 \/ ~ OrderedHistory(entries, now) \/ daily > MaxUint \/ rolling > MaxUint
      THEN Refused
      ELSE [dailySpend |-> daily, rollingSpend |-> rolling]

-----------------------------------------------------------------------------
(* POLICY_COMPOSITION_V1: violations are a set of names, the set of bits.   *)

Priority ==
    <<"POLICY_DENIED", "TARGET_DENIED", "REQUESTER_DENIED", "ACTION_DENIED",
      "OCCURRENCE_EXCEEDED", "COOLDOWN", "INSUFFICIENT_BALANCE", "FDC_INVALID",
      "FTSO_INVALID", "CAP_EXCEEDED">>

Violation == {Priority[i] : i \in DOMAIN Priority}

\* The reason a set of violations is reported as, OK for none.
composePolicyDecision(violations) ==
    IF ~ (violations \subseteq Violation) THEN "MALFORMED"
    ELSE IF violations = {} THEN "OK"
    ELSE LET first == CHOOSE i \in DOMAIN Priority :
                         /\ Priority[i] \in violations
                         /\ \A j \in 1..(i - 1) : Priority[j] \notin violations
         IN Priority[first]
=============================================================================
