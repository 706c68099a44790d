----------------------------- MODULE Packages_proofs -----------------------------
(***************************************************************************)
(* Proofs about the packages the machines and the relay are built from:    *)
(* the schedule, the reference value and the spend totals of the two       *)
(* libraries, for every width of the wire types; the policy evaluator and  *)
(* the accounting of what it approves, for any policies, histories and     *)
(* snapshots; the funding and the redemption job, for any calls and any    *)
(* legs; and the stateless relay, for any callers, digests and bounds.     *)
(***************************************************************************)
EXTENDS PolicyEvaluator, PolicyMathAgreement, RedemptionJob, Relay, Sums_proofs, SequenceTheorems

-----------------------------------------------------------------------------
(* The evaluator's arithmetic.                                              *)

\* A bound checked by a division is the bound on the product.
LEMMA DivisionBound ==
    ASSUME NEW a \in Nat, NEW b \in Nat \ {0}, NEW c \in Nat
    PROVE  (c > a \div b) <=> (c * b > a)
<1> DEFINE q == a \div b
           r == a % b
<1>1. /\ q \in Nat /\ r \in 0..(b - 1)
      /\ a = b * q + r
  OBVIOUS
<1> HIDE DEF q, r
<1>2. CASE c > q
  <2>1. c >= q + 1
    BY <1>1, <1>2
  <2>2. c * b >= (q + 1) * b
    BY <2>1, <1>1
  <2>3. (q + 1) * b = b * q + b
    BY <1>1
  <2> QED
    BY <1>1, <1>2, <2>2, <2>3 DEF q
<1>3. CASE ~ (c > q)
  <2>1. c <= q
    BY <1>1, <1>3
  <2>2. c * b <= b * q
    BY <2>1, <1>1
  <2> QED
    BY <1>1, <1>3, <2>2 DEF q
<1> QED
  BY <1>2, <1>3

\* The 64-bit schedule accepts exactly the occurrences the 256-bit schedule
\* accepts, and computes the same window for them.
LEMMA SchedulesAgree ==
    ASSUME NEW startAt \in 0..MaxTime, NEW interval \in Nat, NEW grace \in Nat,
           NEW occurrence \in Nat
    PROVE  scheduleWindow(startAt, interval, grace, occurrence)
             = solidityScheduleWindow(startAt, interval, grace, occurrence)
<1> DEFINE index == occurrence - 1
           slot == startAt + index * interval
           Terms == ValidTerms(interval, grace, occurrence)
<1> USE WidthAssumption
<1>1. CASE ~ Terms
  BY <1>1 DEF scheduleWindow, solidityScheduleWindow
<1>2. CASE Terms
  <2>1. index \in Nat /\ index * interval \in Nat /\ slot \in Nat
    BY <1>2 DEF ValidTerms
  <2>2. (index # 0 /\ interval > (MaxTime - startAt) \div index)
          <=> slot > MaxTime
    <3>1. CASE index = 0
      BY <3>1, <2>1
    <3>2. CASE index # 0
      <4>1. MaxTime - startAt \in Nat
        OBVIOUS
      <4>2. (interval > (MaxTime - startAt) \div index)
              <=> (interval * index > MaxTime - startAt)
        BY <4>1, <2>1, <3>2, DivisionBound
      <4>3. interval * index = index * interval
        BY <2>1
      <4> HIDE DEF index
      <4> QED
        BY <4>1, <4>2, <4>3, <3>2, <2>1
    <3> QED
      BY <3>1, <3>2
  <2>3. (grace > MaxTime - slot) <=> (slot + grace > MaxTime)
    <3> HIDE DEF slot
    <3> QED
      BY <2>1
  <2> QED
    BY <1>2, <2>2, <2>3 DEF scheduleWindow, solidityScheduleWindow
<1> QED
  BY <1>1, <1>2

\* A window is over before the next one of the same schedule begins.
LEMMA WindowsDisjoint ==
    ASSUME NEW startAt \in 0..MaxTime, NEW interval \in Nat, NEW grace \in Nat,
           NEW k \in Nat,
           scheduleWindow(startAt, interval, grace, k) # Refused,
           scheduleWindow(startAt, interval, grace, k + 1) # Refused
    PROVE  scheduleWindow(startAt, interval, grace, k).deadline
             < scheduleWindow(startAt, interval, grace, k + 1).slot
<1> DEFINE slot == startAt + (k - 1) * interval
           next == startAt + (k + 1 - 1) * interval
<1>1. ValidTerms(interval, grace, k)
  BY DEF scheduleWindow
<1>2. scheduleWindow(startAt, interval, grace, k) = [slot |-> slot, deadline |-> slot + grace]
  BY DEF scheduleWindow
<1>3. scheduleWindow(startAt, interval, grace, k + 1)
        = [slot |-> next, deadline |-> next + grace]
  BY DEF scheduleWindow
<1>4. next = slot + interval
  <2>1. (k + 1 - 1) * interval = (k - 1) * interval + interval
    OBVIOUS
  <2> QED
    BY <2>1, WidthAssumption
<1>5. slot + grace < slot + interval
  <2>1. slot \in Int /\ grace < interval
    BY <1>1, WidthAssumption DEF ValidTerms
  <2> HIDE DEF slot
  <2> QED
    BY <2>1
<1> QED
  BY <1>2, <1>3, <1>4, <1>5

\* Rounding up: the least number of whole units that covers the product.
LEMMA CeilingOfQuotient ==
    ASSUME NEW product \in Nat, NEW scale \in Nat \ {0},
           NEW result, result = (product \div scale) + (IF product % scale = 0 THEN 0 ELSE 1)
    PROVE  /\ result \in Nat
           /\ result * scale >= product
           /\ \A v \in 0..(result - 1) : v * scale < product
<1> DEFINE q == product \div scale
           r == product % scale
<1>1. q \in Nat /\ r \in 0..(scale - 1) /\ product = scale * q + r
  OBVIOUS
<1>2. result = q + (IF r = 0 THEN 0 ELSE 1)
  OBVIOUS
<1> HIDE DEF q, r
<1>3. result \in Nat
  BY <1>1, <1>2
<1>4. CASE r = 0
  <2>1. result = q
    BY <1>1, <1>2, <1>4
  <2>2. ASSUME NEW v \in 0..(q - 1)
        PROVE  v * scale < product
    <3>1. v + 1 <= q /\ v \in Nat
      BY <1>1
    <3>2. (v + 1) * scale <= q * scale
      BY <3>1, <1>1
    <3>3. (v + 1) * scale = v * scale + scale /\ q * scale = scale * q
      BY <3>1, <1>1
    <3>4. v * scale \in Nat /\ scale * q \in Nat
      BY <3>1, <1>1
    <3> QED
      BY <3>2, <3>3, <3>4, <1>1, <1>4
  <2>3. q * scale = scale * q
    BY <1>1
  <2> QED
    BY <1>1, <1>3, <1>4, <2>1, <2>2, <2>3
<1>5. CASE r # 0
  <2>1. result = q + 1
    BY <1>1, <1>2, <1>5
  <2>2. (q + 1) * scale = scale * q + scale /\ scale * q \in Nat
    BY <1>1
  <2>3. ASSUME NEW v \in 0..q
        PROVE  v * scale < product
    <3>1. v * scale <= q * scale /\ v * scale \in Nat
      BY <1>1
    <3>2. q * scale = scale * q
      BY <1>1
    <3> QED
      BY <3>1, <3>2, <2>2, <1>1, <1>5
  <2> QED
    BY <1>1, <1>3, <1>5, <2>1, <2>2, <2>3
<1> QED
  BY <1>4, <1>5

-----------------------------------------------------------------------------
(* The libraries.                                                           *)

\* A history a loop has added up: its entries, and what the sums are over.
EntriesTyped(entries, n) ==
    /\ n \in Nat /\ Len(entries) = n /\ DOMAIN entries = 1..n
    /\ \A i \in 1..n : entries[i].value \in 0..MaxUint /\ entries[i].executedAt \in Nat

ValuesOf(entries) == [i \in DOMAIN entries |-> entries[i].value]

\* What the first k entries spent on the day, and in the window.
Daily(entries, time, k) ==
    SumFunctionOnSet(ValuesOf(entries), {i \in 1..k : InDay(entries[i].executedAt, time)})

Rolling(entries, time, window, k) ==
    SumFunctionOnSet(ValuesOf(entries),
                     {i \in 1..k : InRollingWindow(entries[i].executedAt, time, window)})

\* What the loops ask of an entry, and of the first k of them.
Fits(entries, time, i) ==
    /\ entries[i].value # 0 /\ entries[i].executedAt <= time
    /\ i > 1 => entries[i].executedAt >= entries[i - 1].executedAt

Fine(entries, time, window, k) ==
    /\ \A i \in 1..k : Fits(entries, time, i)
    /\ Daily(entries, time, k) <= MaxUint /\ Rolling(entries, time, window, k) <= MaxUint

\* What a loop holds after k entries, said without the loop.
LoopState(entries, time, window, k) ==
    IF Fine(entries, time, window, k)
      THEN [dailySpend |-> Daily(entries, time, k),
            rollingSpend |-> Rolling(entries, time, window, k)]
      ELSE Refused

\* Of a set of entries, one more.
LEMMA OneMoreSummed ==
    ASSUME NEW entries, NEW n, EntriesTyped(entries, n), NEW k \in 1..n,
           NEW S \in SUBSET (1..k), NEW T, T = S \ {k}
    PROVE  /\ SumFunctionOnSet(ValuesOf(entries), S) \in Nat
           /\ SumFunctionOnSet(ValuesOf(entries), T) \in Nat
           /\ SumFunctionOnSet(ValuesOf(entries), S)
                = SumFunctionOnSet(ValuesOf(entries), T)
                    + (IF k \in S THEN entries[k].value ELSE 0)
<1> DEFINE f == ValuesOf(entries)
<1>1. n \in Nat /\ k \in 1..n
  BY DEF EntriesTyped
<1>2. \A i \in 1..k : f[i] \in Nat /\ f[i] = entries[i].value
  BY <1>1, WidthAssumption DEF EntriesTyped, ValuesOf
<1>3. IsFiniteSet(S) /\ IsFiniteSet(T) /\ T \subseteq S
  <2>1. IsFiniteSet(1..k)
    BY <1>1, FS_Interval
  <2> QED BY <2>1, FS_Subset
<1> HIDE DEF f
<1>4. IntegersOn(f, S) /\ IntegersOn(f, T) /\ \A i \in S : f[i] >= 0
  <2>1. \A i \in S : f[i] \in Nat
    BY <1>2
  <2> QED BY <1>3, <2>1 DEF IntegersOn
<1>5. /\ SumFunctionOnSet(f, S) \in Int /\ 0 <= SumFunctionOnSet(f, S)
      /\ SumFunctionOnSet(f, T) \in Int /\ 0 <= SumFunctionOnSet(f, T)
  <2>1. SumFunctionOnSet(f, S) \in Int /\ SumFunctionOnSet(f, T) \in Int
    BY <1>3, <1>4, SumType
  <2>2. 0 <= SumFunctionOnSet(f, S) /\ 0 <= SumFunctionOnSet(f, T)
    BY <1>3, <1>4, SumOfPart
  <2> QED BY <2>1, <2>2
<1>6. SumFunctionOnSet(f, S) = SumFunctionOnSet(f, T) + (IF k \in S THEN entries[k].value ELSE 0)
  <2>1. CASE k \notin S
    <3>1. T = S
      BY <2>1
    <3>2. PICK sum : sum = SumFunctionOnSet(f, S)
      OBVIOUS
    <3>3. sum \in Int /\ sum = sum + 0
      BY <1>5, <3>2
    <3> QED BY <2>1, <3>1, <3>2, <3>3
  <2>2. CASE k \in S
    <3>1. SumFunctionOnSet(f, S) = f[k] + SumFunctionOnSet(f, T)
      BY <1>3, <1>4, <2>2, SumWithout
    <3>2. f[k] = entries[k].value /\ f[k] \in Nat
      BY <1>1, <1>2
    <3> QED BY <1>5, <2>2, <3>1, <3>2
  <2> QED BY <2>1, <2>2
<1> QED BY <1>5, <1>6 DEF f

\* The sums over one more entry: with it if it is in the window, as they were if not.
LEMMA SumsGrow ==
    ASSUME NEW entries, NEW n, EntriesTyped(entries, n), NEW k \in 1..n, NEW time, NEW window
    PROVE  /\ Daily(entries, time, k - 1) \in Nat /\ Rolling(entries, time, window, k - 1) \in Nat
           /\ Daily(entries, time, k) = Daily(entries, time, k - 1)
                + (IF InDay(entries[k].executedAt, time) THEN entries[k].value ELSE 0)
           /\ Rolling(entries, time, window, k) = Rolling(entries, time, window, k - 1)
                + (IF InRollingWindow(entries[k].executedAt, time, window) THEN entries[k].value ELSE 0)
<1>1. PICK j : j = k - 1
  OBVIOUS
<1>2. j \in Nat /\ 1..k = (1..j) \cup {k} /\ k \notin 1..j /\ k \in 1..k
  BY <1>1 DEF EntriesTyped
<1> DEFINE D(m) == {i \in 1..m : InDay(entries[i].executedAt, time)}
           R(m) == {i \in 1..m : InRollingWindow(entries[i].executedAt, time, window)}
<1>3. /\ D(k) \in SUBSET (1..k) /\ D(j) = D(k) \ {k}
      /\ k \in D(k) <=> InDay(entries[k].executedAt, time)
      /\ R(k) \in SUBSET (1..k) /\ R(j) = R(k) \ {k}
      /\ k \in R(k) <=> InRollingWindow(entries[k].executedAt, time, window)
  BY <1>2
<1>4. /\ Daily(entries, time, k) = SumFunctionOnSet(ValuesOf(entries), D(k))
      /\ Daily(entries, time, j) = SumFunctionOnSet(ValuesOf(entries), D(j))
      /\ Rolling(entries, time, window, k) = SumFunctionOnSet(ValuesOf(entries), R(k))
      /\ Rolling(entries, time, window, j) = SumFunctionOnSet(ValuesOf(entries), R(j))
  BY DEF Daily, Rolling
<1> HIDE DEF D, R
<1>5. /\ SumFunctionOnSet(ValuesOf(entries), D(j)) \in Nat
      /\ SumFunctionOnSet(ValuesOf(entries), D(k)) = SumFunctionOnSet(ValuesOf(entries), D(j))
           + (IF k \in D(k) THEN entries[k].value ELSE 0)
  BY <1>3, OneMoreSummed
<1>6. /\ SumFunctionOnSet(ValuesOf(entries), R(j)) \in Nat
      /\ SumFunctionOnSet(ValuesOf(entries), R(k)) = SumFunctionOnSet(ValuesOf(entries), R(j))
           + (IF k \in R(k) THEN entries[k].value ELSE 0)
  BY <1>3, OneMoreSummed
<1> QED BY <1>1, <1>3, <1>4, <1>5, <1>6

\* One turn of the loop.
LEMMA LoopTurns ==
    ASSUME NEW entries, NEW n, EntriesTyped(entries, n), NEW k \in 1..n,
           NEW time \in Nat, NEW window \in Nat
    PROVE  LoopState(entries, time, window, k)
             = solidityAdd(LoopState(entries, time, window, k - 1), entries[k], time, window, k = 1,
                           IF k = 1 THEN 0 ELSE entries[k - 1].executedAt)
<1>1. PICK j : j = k - 1
  OBVIOUS
<1>2. j \in Nat /\ 1..k = (1..j) \cup {k} /\ n \in Nat /\ k \in Nat
  BY <1>1 DEF EntriesTyped
<1> DEFINE inDay == InDay(entries[k].executedAt, time)
           inRolling == InRollingWindow(entries[k].executedAt, time, window)
<1>3. PICK v, at, prior, d, r :
        /\ v = entries[k].value /\ at = entries[k].executedAt
        /\ prior = (IF k = 1 THEN 0 ELSE entries[k - 1].executedAt)
        /\ d = Daily(entries, time, j) /\ r = Rolling(entries, time, window, j)
  OBVIOUS
<1>4. /\ d \in Nat /\ r \in Nat /\ v \in Nat /\ at \in Nat /\ prior \in Nat
      /\ Daily(entries, time, k) = d + (IF inDay THEN v ELSE 0)
      /\ Rolling(entries, time, window, k) = r + (IF inRolling THEN v ELSE 0)
  <2>1. v \in Nat /\ at \in Nat
    BY <1>3, WidthAssumption DEF EntriesTyped
  <2>2. prior \in Nat
    <3>1. k # 1 => k - 1 \in 1..n
      BY <1>2
    <3> QED BY <1>3, <3>1 DEF EntriesTyped
  <2> QED BY <1>1, <1>3, <2>1, <2>2, SumsGrow
<1>5. Fits(entries, time, k) <=> v # 0 /\ ~ (at > time) /\ ~ (k # 1 /\ at < prior)
  BY <1>2, <1>3, <1>4 DEF Fits
<1>6. Fine(entries, time, window, k) <=>
        /\ \A i \in 1..j : Fits(entries, time, i)
        /\ v # 0 /\ ~ (at > time) /\ ~ (k # 1 /\ at < prior)
        /\ d + (IF inDay THEN v ELSE 0) <= MaxUint /\ r + (IF inRolling THEN v ELSE 0) <= MaxUint
  BY <1>2, <1>4, <1>5 DEF Fine
<1>7. Fine(entries, time, window, j) <=>
        (\A i \in 1..j : Fits(entries, time, i)) /\ d <= MaxUint /\ r <= MaxUint
  BY <1>3 DEF Fine
<1>8. PICK sums : sums = LoopState(entries, time, window, j)
  OBVIOUS
<1>9. CASE ~ Fine(entries, time, window, j)
  <2>1. sums = Refused
    BY <1>8, <1>9 DEF LoopState
  <2>2. ~ Fine(entries, time, window, k)
    BY <1>4, <1>6, <1>7, <1>9, WidthAssumption
  <2> QED BY <1>1, <1>8, <2>1, <2>2 DEF LoopState, solidityAdd
<1>10. CASE Fine(entries, time, window, j)
  <2>1. sums = [dailySpend |-> d, rollingSpend |-> r]
    BY <1>3, <1>8, <1>10 DEF LoopState
  <2>2. sums # Refused /\ sums.dailySpend = d /\ sums.rollingSpend = r
    BY <2>1 DEF Refused
  <2> DEFINE dayOver == inDay /\ d + v > MaxUint
             rollingOver == inRolling /\ r + v > MaxUint
             late == k # 1 /\ at < prior
             refused == v = 0 \/ at > time \/ late \/ dayOver \/ rollingOver
  <2>3. solidityAdd(sums, entries[k], time, window, k = 1, prior)
          = IF refused THEN Refused
              ELSE [dailySpend |-> IF inDay THEN d + v ELSE d,
                    rollingSpend |-> IF inRolling THEN r + v ELSE r]
    <3>1. PICK entry : entry = entries[k]
      OBVIOUS
    <3>2. /\ entry.value = v /\ entry.executedAt = at
          /\ inDay <=> InDay(at, time)
          /\ inRolling <=> InRollingWindow(at, time, window)
      BY <1>3, <3>1
    <3> HIDE DEF inDay, inRolling
    <3>3. CASE refused
      BY <2>2, <3>1, <3>2, <3>3 DEF solidityAdd
    <3>4. CASE ~ refused
      <4>1. ~ (\/ sums = Refused \/ entry.value = 0 \/ entry.executedAt > time
               \/ k # 1 /\ entry.executedAt < prior
               \/ InDay(entry.executedAt, time) /\ sums.dailySpend + entry.value > MaxUint
               \/ InRollingWindow(entry.executedAt, time, window)
                    /\ sums.rollingSpend + entry.value > MaxUint)
        <5>1. /\ sums # Refused /\ entry.value # 0 /\ ~ (entry.executedAt > time) /\ ~ late
              /\ ~ dayOver /\ ~ rollingOver
          <6> HIDE DEF late, dayOver, rollingOver
          <6> QED BY <2>2, <3>2, <3>4
        <5>2. ~ (k # 1 /\ entry.executedAt < prior)
          BY <3>2, <5>1
        <5>3. ~ (InDay(entry.executedAt, time) /\ sums.dailySpend + entry.value > MaxUint)
          BY <2>2, <3>2, <5>1
        <5>4. ~ (InRollingWindow(entry.executedAt, time, window)
                  /\ sums.rollingSpend + entry.value > MaxUint)
          BY <2>2, <3>2, <5>1
        <5> QED BY <5>1, <5>2, <5>3, <5>4
      <4>2. solidityAdd(sums, entry, time, window, k = 1, prior)
              = [dailySpend |-> IF InDay(entry.executedAt, time)
                                  THEN sums.dailySpend + entry.value ELSE sums.dailySpend,
                 rollingSpend |-> IF InRollingWindow(entry.executedAt, time, window)
                                    THEN sums.rollingSpend + entry.value ELSE sums.rollingSpend]
        BY <4>1 DEF solidityAdd
      <4> QED BY <2>2, <3>1, <3>2, <3>4, <4>2
    <3> QED BY <3>3, <3>4
  <2>4. Fine(entries, time, window, k) <=> ~ refused
    <3> DEFINE ordered == \A i \in 1..j : Fits(entries, time, i)
    <3>1. /\ ordered /\ d <= MaxUint /\ r <= MaxUint
          /\ Fine(entries, time, window, k) <=>
               /\ ordered /\ v # 0 /\ ~ (at > time) /\ ~ (k # 1 /\ at < prior)
               /\ d + (IF inDay THEN v ELSE 0) <= MaxUint /\ r + (IF inRolling THEN v ELSE 0) <= MaxUint
      BY <1>6, <1>7, <1>10
    <3> HIDE DEF inDay, inRolling, ordered
    <3>2. d + (IF inDay THEN v ELSE 0) <= MaxUint <=> ~ (inDay /\ d + v > MaxUint)
      <4>1. CASE inDay
        BY <1>4, <4>1, WidthAssumption
      <4>2. CASE ~ inDay
        BY <1>4, <3>1, <4>2, WidthAssumption
      <4> QED BY <4>1, <4>2
    <3>3. r + (IF inRolling THEN v ELSE 0) <= MaxUint <=> ~ (inRolling /\ r + v > MaxUint)
      <4>3. CASE inRolling
        BY <1>4, <4>3, WidthAssumption
      <4>4. CASE ~ inRolling
        BY <1>4, <3>1, <4>4, WidthAssumption
      <4> QED BY <4>3, <4>4
    <3>4. Fine(entries, time, window, k) <=>
            /\ ordered /\ v # 0 /\ ~ (at > time) /\ ~ late /\ ~ dayOver /\ ~ rollingOver
      BY <3>1, <3>2, <3>3
    <3> HIDE DEF late, dayOver, rollingOver
    <3> QED BY <3>1, <3>4
  <2>5. LoopState(entries, time, window, k)
          = IF Fine(entries, time, window, k)
              THEN [dailySpend |-> IF inDay THEN d + v ELSE d,
                    rollingSpend |-> IF inRolling THEN r + v ELSE r]
              ELSE Refused
    BY <1>4 DEF LoopState
  <2> HIDE DEF inDay, inRolling, refused
  <2> QED BY <1>1, <1>3, <1>8, <2>3, <2>4, <2>5
<1> QED BY <1>9, <1>10

\* The Solidity loop as the function it defines.
Loop(entries, time, window, after) ==
    after = [i \in 0..Len(entries) |->
              IF i = 0 THEN [dailySpend |-> 0, rollingSpend |-> 0]
              ELSE solidityAdd(after[i - 1], entries[i], time, window, i = 1,
                               IF i = 1 THEN 0 ELSE entries[i - 1].executedAt)]

\* The loop holds what LoopState says, at every entry.
LEMMA LoopIs ==
    ASSUME NEW entries, NEW n, EntriesTyped(entries, n), NEW time \in Nat, NEW window \in Nat
    PROVE  /\ \E after : Loop(entries, time, window, after)
           /\ \A after : Loop(entries, time, window, after) =>
                \A i \in 0..n : after[i] = LoopState(entries, time, window, i)
<1> DEFINE G == [i \in 0..n |-> LoopState(entries, time, window, i)]
<1>1. n \in Nat /\ Len(entries) = n
  BY DEF EntriesTyped
<1>2. LoopState(entries, time, window, 0) = [dailySpend |-> 0, rollingSpend |-> 0]
  <2>1. 1..0 = {}
    OBVIOUS
  <2>2. Daily(entries, time, 0) = 0 /\ Rolling(entries, time, window, 0) = 0
    <3>1. {i \in 1..0 : InDay(entries[i].executedAt, time)} = {}
          /\ {i \in 1..0 : InRollingWindow(entries[i].executedAt, time, window)} = {}
      BY <2>1
    <3> QED BY <3>1, SumEmpty DEF Daily, Rolling
  <2> QED BY <2>1, <2>2, WidthAssumption DEF LoopState, Fine
<1>3. \A i \in 0..n : i # 0 => i \in 1..n /\ i - 1 \in 0..n
  BY <1>1
<1>4. \A i \in 1..n : LoopState(entries, time, window, i)
         = solidityAdd(LoopState(entries, time, window, i - 1), entries[i], time, window, i = 1,
                       IF i = 1 THEN 0 ELSE entries[i - 1].executedAt)
  BY LoopTurns
<1>5. Loop(entries, time, window, G)
  <2>1. ASSUME NEW i \in 0..n
        PROVE  G[i] = IF i = 0 THEN [dailySpend |-> 0, rollingSpend |-> 0]
                      ELSE solidityAdd(G[i - 1], entries[i], time, window, i = 1,
                                       IF i = 1 THEN 0 ELSE entries[i - 1].executedAt)
    <3>1. CASE i = 0
      BY <1>2, <3>1
    <3>2. CASE i # 0
      <4>1. i \in 1..n /\ i - 1 \in 0..n
        BY <1>3, <3>2
      <4>2. G[i] = LoopState(entries, time, window, i) /\ G[i - 1] = LoopState(entries, time, window, i - 1)
        BY <4>1
      <4> HIDE DEF G
      <4> QED BY <1>4, <3>2, <4>1, <4>2
    <3> QED BY <3>1, <3>2
  <2>2. G = [i \in 0..n |-> G[i]]
    OBVIOUS
  <2> HIDE DEF G
  <2> QED BY <1>1, <2>1, <2>2 DEF Loop
<1>6. ASSUME NEW after, Loop(entries, time, window, after)
      PROVE  \A i \in 0..n : after[i] = LoopState(entries, time, window, i)
  <2> DEFINE Bad == {i \in 0..n : after[i] # LoopState(entries, time, window, i)}
  <2> SUFFICES ASSUME Bad # {} PROVE FALSE
    OBVIOUS
  <2>1. PICK i \in Bad : \A j \in Bad : i <= j
    <3>1. Bad \in SUBSET Nat
      BY <1>1
    <3> HIDE DEF Bad
    <3> QED BY <3>1, LeastNumber
  <2>2. i \in 0..n /\ after[i] # LoopState(entries, time, window, i)
    OBVIOUS
  <2>3. after[i] = IF i = 0 THEN [dailySpend |-> 0, rollingSpend |-> 0]
                   ELSE solidityAdd(after[i - 1], entries[i], time, window, i = 1,
                                    IF i = 1 THEN 0 ELSE entries[i - 1].executedAt)
    <3> HIDE DEF Bad
    <3> QED BY <1>1, <1>6, <2>2 DEF Loop
  <2>4. i # 0
    BY <1>2, <2>2, <2>3
  <2>5. i \in 1..n /\ i - 1 \in 0..n /\ ~ (i <= i - 1)
    BY <1>1, <1>3, <2>2, <2>4
  <2>6. after[i - 1] = LoopState(entries, time, window, i - 1)
    BY <2>1, <2>5
  <2> HIDE DEF Bad
  <2> QED BY <1>4, <2>2, <2>3, <2>4, <2>5, <2>6
<1> QED BY <1>5, <1>6

\* The two libraries compute the same totals, or both refuse.
LEMMA TotalsAgree ==
    ASSUME NEW entries, NEW n, EntriesTyped(entries, n), NEW time \in Nat, NEW window \in Nat
    PROVE  spendWindowTotals(entries, time, window) = soliditySpendWindowTotals(entries, time, window)
<1>1. n \in Nat /\ Len(entries) = n /\ DOMAIN entries = 1..n
  BY DEF EntriesTyped
<1>2. PICK after : /\ Loop(entries, time, window, after)
                   /\ soliditySpendWindowTotals(entries, time, window)
                        = IF window = 0 \/ Len(entries) > MaxEntries THEN Refused
                          ELSE after[Len(entries)]
  <2> DEFINE A == CHOOSE after : Loop(entries, time, window, after)
  <2>1. Loop(entries, time, window, A)
    BY LoopIs, Zenon
  <2>2. soliditySpendWindowTotals(entries, time, window)
          = IF window = 0 \/ Len(entries) > MaxEntries THEN Refused ELSE A[Len(entries)]
    BY DEF soliditySpendWindowTotals, Loop
  <2> QED BY <2>1, <2>2
<1>3. after[n] = LoopState(entries, time, window, n)
  BY <1>1, <1>2, LoopIs
<1>4. OrderedHistory(entries, time) <=> n <= MaxEntries /\ \A i \in 1..n : Fits(entries, time, i)
  <2>1. ASSUME NEW i \in 1..n
        PROVE  Fits(entries, time, i) <=>
                 /\ entries[i].value \in 1..MaxUint /\ entries[i].executedAt <= time
                 /\ i > 1 => entries[i].executedAt >= entries[i - 1].executedAt
    <3>1. entries[i].value # 0 <=> entries[i].value \in 1..MaxUint
      BY WidthAssumption DEF EntriesTyped
    <3> QED BY <3>1 DEF Fits
  <2> QED BY <1>1, <2>1 DEF OrderedHistory
<1>5. /\ SumWhere(entries, {i \in DOMAIN entries : InDay(entries[i].executedAt, time)})
           = Daily(entries, time, n)
      /\ SumWhere(entries, {i \in DOMAIN entries : InRollingWindow(entries[i].executedAt, time, window)})
           = Rolling(entries, time, window, n)
  BY <1>1 DEF SumWhere, Daily, Rolling, ValuesOf
<1>6. Daily(entries, time, n) \in Nat /\ Rolling(entries, time, window, n) \in Nat
  <2>1. CASE n = 0
    <3>1. 1..0 = {}
      OBVIOUS
    <3>2. {i \in 1..0 : InDay(entries[i].executedAt, time)} = {}
          /\ {i \in 1..0 : InRollingWindow(entries[i].executedAt, time, window)} = {}
      BY <3>1
    <3> QED BY <2>1, <3>2, SumEmpty DEF Daily, Rolling
  <2>2. CASE n # 0
    <3>1. n \in 1..n
      BY <1>1, <2>2
    <3>2. entries[n].value \in Nat
      BY <3>1, WidthAssumption DEF EntriesTyped
    <3> QED BY <3>1, <3>2, SumsGrow
  <2> QED BY <2>1, <2>2
<1>7. spendWindowTotals(entries, time, window)
        = IF window = 0 \/ ~ OrderedHistory(entries, time)
             \/ Daily(entries, time, n) > MaxUint \/ Rolling(entries, time, window, n) > MaxUint
            THEN Refused
            ELSE [dailySpend |-> Daily(entries, time, n),
                  rollingSpend |-> Rolling(entries, time, window, n)]
  BY <1>5 DEF spendWindowTotals
<1>8. (n > MaxEntries) <=> ~ (n <= MaxEntries)
  BY <1>1, WidthAssumption
<1>9. Fine(entries, time, window, n) <=>
        /\ \A i \in 1..n : Fits(entries, time, i)
        /\ ~ (Daily(entries, time, n) > MaxUint) /\ ~ (Rolling(entries, time, window, n) > MaxUint)
  BY <1>6, WidthAssumption DEF Fine
<1> QED BY <1>1, <1>2, <1>3, <1>4, <1>7, <1>8, <1>9 DEF LoopState

\* The first rule that is broken is the reason, in both.
LEMMA CompositionsAgree ==
    ASSUME NEW V \in SUBSET (Violation \cup {Unknown}), Unknown \notin Violation
    PROVE  /\ composePolicyDecision(V) = solidityCompose(V)
           /\ composePolicyDecision(V) = "OK" <=> V = {}
<1>1. CASE Unknown \in V
  <2>1. ~ (V \subseteq Violation) /\ V # {}
    BY <1>1
  <2> QED BY <1>1, <2>1 DEF composePolicyDecision, solidityCompose
<1>2. CASE V = {}
  BY <1>2 DEF composePolicyDecision, solidityCompose
<1>3. CASE Unknown \notin V /\ V # {}
  <2>1. V \subseteq Violation
    BY <1>3
  <2> DEFINE hits == {i \in 1..10 : Priority[i] \in V}
             First(i) == Priority[i] \in V /\ \A j \in 1..(i - 1) : Priority[j] \notin V
  <2>2. DOMAIN Priority = 1..10
    BY DEF Priority
  <2>3. PICK i \in 1..10 : First(i)
    <3>1. hits # {} /\ hits \in SUBSET Nat
      BY <1>3, <2>1, <2>2 DEF Violation
    <3>2. PICK i \in hits : \A j \in hits : i <= j
      <4> HIDE DEF hits
      <4> QED BY <3>1, LeastNumber
    <3>3. i \in 1..10 /\ Priority[i] \in V
      OBVIOUS
    <3>4. \A j \in 1..(i - 1) : j \in 1..10 /\ ~ (i <= j)
      BY <3>3
    <3> QED BY <3>2, <3>3, <3>4
  <2>4. PICK first \in 1..10 : First(first) /\ composePolicyDecision(V) = Priority[first]
    <3> DEFINE c == CHOOSE k \in DOMAIN Priority : First(k)
    <3>1. c \in DOMAIN Priority /\ First(c)
      BY <2>2, <2>3
    <3>2. composePolicyDecision(V) = Priority[c]
      BY <1>3, <2>1 DEF composePolicyDecision
    <3> QED BY <2>2, <3>1, <3>2
  <2>5. Priority[first] \in V /\ \A j \in 1..10 : j < first => Priority[j] \notin V
    BY <2>4
  <2>6. /\ Priority[1] = "POLICY_DENIED" /\ Priority[2] = "TARGET_DENIED"
        /\ Priority[3] = "REQUESTER_DENIED" /\ Priority[4] = "ACTION_DENIED"
        /\ Priority[5] = "OCCURRENCE_EXCEEDED" /\ Priority[6] = "COOLDOWN"
        /\ Priority[7] = "INSUFFICIENT_BALANCE" /\ Priority[8] = "FDC_INVALID"
        /\ Priority[9] = "FTSO_INVALID" /\ Priority[10] = "CAP_EXCEEDED"
    BY DEF Priority
  <2> HIDE DEF First
  <2>7. solidityCompose(V) = Priority[first]
    BY <1>3, <2>5, <2>6 DEF solidityCompose
  <2>8. Priority[first] # "OK"
    BY <2>6
  <2> QED BY <1>3, <2>4, <2>7, <2>8
<1> QED BY <1>1, <1>2, <1>3

-----------------------------------------------------------------------------
(* The properties TLC checks for one width, for every width.                *)

\* What an input is made of.
InputOK ==
    /\ input.of = "schedule" =>
         /\ input.startAt \in 0..MaxTime /\ input.interval \in Nat
         /\ input.grace \in Nat /\ input.occurrence \in Nat
    /\ input.of = "reference" =>
         input.amount \in Nat /\ input.price \in 0..MaxUint /\ input.scale \in Nat \ {0}
    /\ input.of = "window" =>
         /\ \E n : EntriesTyped(input.entries, n)
         /\ input.now \in Nat /\ input.window \in Nat
    /\ input.of = "violations" => input.violations \in SUBSET (Violation \cup {Unknown})

\* The inputs the runs enumerate stay inputs of the libraries.
LEMMA InputsTyped == MathSpec => []InputOK
<1>1. MathInit => InputOK
  BY DEF MathInit, InputOK
<1>2. InputOK /\ [MathNext]_input => InputOK'
  <2> SUFFICES ASSUME InputOK, [MathNext]_input
               PROVE  InputOK'
    OBVIOUS
  <2> USE WidthAssumption DEF InputOK
  <2>1. CASE PickReference
    BY <2>1 DEF PickReference
  <2>2. CASE PickSchedule
    BY <2>2 DEF PickSchedule
  <2>3. CASE PickWindow
    <3>1. PICK n \in 0..(MaxEntries + 1), time \in 0..(2 * DaySeconds), window \in 0..(DaySeconds + 1) :
          \E values \in [1..n -> {0, 1, MaxUint - 1, MaxUint}],
             times \in [1..n -> 0..(DaySeconds + 1)] :
               input' = [of |-> "window", now |-> time, window |-> window,
                         entries |-> [i \in DOMAIN values |->
                           [value |-> values[i], executedAt |-> times[i]]]]
      BY <2>3 DEF PickWindow
    <3>2. PICK values \in [1..n -> {0, 1, MaxUint - 1, MaxUint}],
               times \in [1..n -> 0..(DaySeconds + 1)] :
            input' = [of |-> "window", now |-> time, window |-> window,
                      entries |-> [i \in DOMAIN values |->
                        [value |-> values[i], executedAt |-> times[i]]]]
      BY <3>1
    <3>3. PICK entries : entries = [i \in 1..n |-> [value |-> values[i], executedAt |-> times[i]]]
      OBVIOUS
    <3>4. EntriesTyped(entries, n)
      <4>1. \A i \in 1..n : values[i] \in 0..MaxUint /\ times[i] \in Nat
        <5>1. {0, 1, MaxUint - 1, MaxUint} \subseteq 0..MaxUint
          OBVIOUS
        <5>2. 0..(DaySeconds + 1) \subseteq Nat
          OBVIOUS
        <5> QED BY <5>1, <5>2
      <4>2. n \in Nat /\ DOMAIN entries = 1..n /\ Len(entries) = n
        BY <3>3
      <4> QED BY <3>3, <4>1, <4>2 DEF EntriesTyped
    <3>5. input' = [of |-> "window", now |-> time, window |-> window, entries |-> entries]
      BY <3>2, <3>3
    <3> QED BY <3>4, <3>5
  <2>4. CASE PickViolations
    BY <2>4 DEF PickViolations
  <2>5. CASE UNCHANGED input
    BY <2>5
  <2> QED
    BY <2>1, <2>2, <2>3, <2>4, <2>5 DEF MathNext
<1> QED
  BY <1>1, <1>2, PTL DEF MathSpec

\* The Go schedule and the Solidity schedule agree on every input of every
\* width, and no two windows of a schedule share a second.
THEOREM ScheduleAgreement == MathSpec => []ScheduleAgrees
<1>1. InputOK => ScheduleAgrees
  <2> SUFFICES ASSUME InputOK, input.of = "schedule"
               PROVE  ScheduleAgrees
    BY DEF ScheduleAgrees
  <2>1. /\ input.startAt \in 0..MaxTime /\ input.interval \in Nat
        /\ input.grace \in Nat /\ input.occurrence \in Nat
    BY DEF InputOK
  <2>2. scheduleWindow(input.startAt, input.interval, input.grace, input.occurrence)
          = solidityScheduleWindow(input.startAt, input.interval, input.grace, input.occurrence)
    BY <2>1, SchedulesAgree
  <2>3. (/\ scheduleWindow(input.startAt, input.interval, input.grace, input.occurrence) # Refused
         /\ scheduleWindow(input.startAt, input.interval, input.grace, input.occurrence + 1)
               # Refused)
        => scheduleWindow(input.startAt, input.interval, input.grace, input.occurrence).deadline
             < scheduleWindow(input.startAt, input.interval, input.grace,
                              input.occurrence + 1).slot
    BY <2>1, WindowsDisjoint
  <2> QED
    BY <2>2, <2>3 DEF ScheduleAgrees
<1> QED
  BY <1>1, InputsTyped, PTL

\* The reference value is refused exactly when it does not exist, and is the
\* least number of units that covers the product, for every width.
THEOREM ReferenceValueRoundsUp == MathSpec => []ReferenceRoundsUp
<1>1. InputOK => ReferenceRoundsUp
  <2> SUFFICES ASSUME InputOK, input.of = "reference"
               PROVE  ReferenceRoundsUp
    BY DEF ReferenceRoundsUp
  <2> DEFINE amount == input.amount
             price == input.price
             scale == input.scale
             product == amount * price
             value == (product \div scale) + (IF product % scale = 0 THEN 0 ELSE 1)
             Invalid == price = 0 \/ scale > MaxScale
             Overflows == amount # 0 /\ price > MaxUint \div amount
  <2>1. amount \in Nat /\ price \in 0..MaxUint /\ scale \in Nat \ {0} /\ MaxUint \in Nat
    BY WidthAssumption DEF InputOK
  <2>2. Overflows <=> product > MaxUint
    <3>1. CASE amount = 0
      BY <3>1, <2>1
    <3>2. CASE amount # 0
      <4>1. (price > MaxUint \div amount) <=> (price * amount > MaxUint)
        BY <2>1, <3>2, DivisionBound
      <4>2. price * amount = amount * price
        BY <2>1
      <4> QED
        BY <4>1, <4>2, <3>2
    <3> QED
      BY <3>1, <3>2
  <2>3. product \in Nat
    BY <2>1
  <2>4. referenceValue(amount, price, scale)
          = IF Invalid \/ Overflows THEN Refused ELSE [value |-> value]
    <3>1. (~ (price > 0 /\ price <= MaxUint /\ scale <= MaxScale)) <=> Invalid
      BY <2>1, WidthAssumption
    <3> QED
      BY <3>1 DEF referenceValue
  <2>5. /\ value \in Nat /\ value * scale >= product
        /\ \A v \in 0..(value - 1) : v * scale < product
    BY <2>1, <2>3, CeilingOfQuotient
  <2> HIDE DEF value, product
  <2>6. CASE Invalid \/ Overflows
    BY <2>2, <2>4, <2>6 DEF ReferenceRoundsUp, product
  <2>7. CASE ~ (Invalid \/ Overflows)
    <3>1. referenceValue(amount, price, scale).value = value
      BY <2>4, <2>7
    <3> QED
      BY <2>2, <2>5, <2>7, <3>1 DEF ReferenceRoundsUp, product
  <2> QED
    BY <2>6, <2>7
<1> QED
  BY <1>1, InputsTyped, PTL

\* The Solidity libraries, computed in 256 bits and by a loop with checked
\* additions, and those of the machines and the apps give the same schedule, the
\* same totals of a history and the same reason, for every width, every length
\* of a history and every set of violations.
THEOREM LibrariesAlwaysAgree == MathSpec => []LibrariesAgree
<1>1. InputOK => WindowTotalsAgree
  BY TotalsAgree DEF InputOK, WindowTotalsAgree
<1>2. InputOK => CompositionAgrees
  BY CompositionsAgree, UnknownAssumption DEF InputOK, CompositionAgrees
<1> QED
  BY <1>1, <1>2, ScheduleAgreement, InputsTyped, PTL DEF LibrariesAgree

-----------------------------------------------------------------------------
(* The evaluator.                                                           *)

\* Scaling up never makes a number smaller.
LEMMA TimesAtLeastOne ==
    ASSUME NEW a \in Nat, NEW scale \in Nat \ {0}
    PROVE  a * scale >= a /\ a * scale \in Nat
<1>1. PICK k \in Nat : scale = k + 1
  OBVIOUS
<1>2. a * (k + 1) = a * k + a /\ a * k \in Nat
  OBVIOUS
<1> QED BY <1>1, <1>2

\* What a reference value is worth: the whole units that just cover the product.
LEMMA ReferenceValueIs ==
    ASSUME NEW amount \in Nat, NEW price \in Nat, NEW scale \in Nat \ {0},
           referenceValue(amount, price, scale) # Refused
    PROVE  /\ referenceValue(amount, price, scale).value \in 0..MaxUint
           /\ amount * price \in Nat
           /\ referenceValue(amount, price, scale).value * scale >= amount * price
           /\ \A v \in 0..(referenceValue(amount, price, scale).value - 1) :
                v * scale < amount * price
           /\ amount # 0 => referenceValue(amount, price, scale).value # 0
<1>1. PICK product, value : /\ product = amount * price
                     /\ value = (product \div scale) + (IF product % scale = 0 THEN 0 ELSE 1)
  OBVIOUS
<1>2. /\ price > 0 /\ price <= MaxUint /\ scale <= MaxScale
      /\ amount = 0 \/ ~ (price > MaxUint \div amount)
      /\ referenceValue(amount, price, scale) = [value |-> value]
  BY <1>1 DEF referenceValue
<1>3. product \in Nat /\ product <= MaxUint
  <2>1. CASE amount = 0
    BY <2>1, <1>1, WidthAssumption
  <2>2. CASE amount # 0
    <3>1. ~ (price * amount > MaxUint)
      BY <2>2, <1>2, DivisionBound, WidthAssumption
    <3>2. price * amount = amount * price /\ amount * price \in Nat
      OBVIOUS
    <3> QED BY <3>1, <3>2, <1>1, WidthAssumption
  <2> QED BY <2>1, <2>2
<1>4. /\ value \in Nat /\ value * scale >= product
      /\ \A v \in 0..(value - 1) : v * scale < product
  BY <1>1, <1>3, CeilingOfQuotient
<1>5. value <= MaxUint
  <2>1. SUFFICES ASSUME value > MaxUint PROVE FALSE
    BY <1>4, WidthAssumption
  <2>2. MaxUint * scale < product
    BY <2>1, <1>4, WidthAssumption
  <2> QED BY <2>2, <1>3, TimesAtLeastOne, WidthAssumption
<1>6. amount # 0 => value # 0
  <2> SUFFICES ASSUME amount # 0, value = 0 PROVE FALSE
    OBVIOUS
  <2>1. value * scale = 0
    OBVIOUS
  <2>2. PICK k \in Nat : price = k + 1
    BY <1>2
  <2>3. amount * (k + 1) = amount * k + amount /\ amount * k \in Nat
    OBVIOUS
  <2> QED BY <2>1, <2>2, <2>3, <1>1, <1>4
<1> QED BY <1>1, <1>2, <1>3, <1>4, <1>5, <1>6, WidthAssumption

\* There is only one such number.
LEMMA CoverIsUnique ==
    ASSUME NEW product \in Nat, NEW scale \in Nat \ {0}, NEW v \in Nat, NEW w \in Nat,
           v * scale >= product, (w - 1) * scale < product,
           w * scale >= product, (v - 1) * scale < product
    PROVE  v = w
<1>1. ASSUME NEW a \in Nat, NEW b \in Nat, a < b, a * scale >= product, (b - 1) * scale < product
      PROVE  FALSE
  <2>1. PICK d \in Nat : b - 1 = a + d
    <3>1. b - 1 - a \in Nat
      BY <1>1
    <3> QED BY <3>1
  <2>2. (a + d) * scale = a * scale + d * scale /\ d * scale \in Nat /\ a * scale \in Nat
    OBVIOUS
  <2> QED BY <2>1, <2>2, <1>1
<1> QED BY <1>1

\* What the properties count a payment for is what the evaluator counted it for.
LEMMA WorthIsValue ==
    ASSUME NEW e, policy.requireFTSO => /\ e.ftso.value \in Nat /\ e.ftso.scale \in Nat \ {0},
           e.request.amount \in 1..MaxUint, EntryValue(policy, e) # Refused
    PROVE  WorthOf(e) = EntryValue(policy, e).value /\ WorthOf(e) \in 1..MaxUint
<1>1. CASE ~ policy.requireFTSO
  BY <1>1 DEF WorthOf, EntryValue
<1>2. CASE policy.requireFTSO
  <2>1. PICK amount, price, scale : amount = e.request.amount /\ price = e.ftso.value /\ scale = e.ftso.scale
    OBVIOUS
  <2>2. amount \in Nat /\ amount # 0 /\ price \in Nat /\ scale \in Nat \ {0}
    BY <2>1, <1>2, WidthAssumption
  <2>3. EntryValue(policy, e) = referenceValue(amount, price, scale)
    BY <1>2, <2>1 DEF EntryValue, ftsoReferenceValue
  <2>4. PICK v : v = EntryValue(policy, e).value
    OBVIOUS
  <2>5. /\ v \in 0..MaxUint /\ amount * price \in Nat /\ v * scale >= amount * price /\ v # 0
        /\ \A u \in 0..(v - 1) : u * scale < amount * price
    BY <2>2, <2>3, <2>4, ReferenceValueIs
  <2>6. (v - 1) * scale < amount * price
    BY <2>5, WidthAssumption
  <2>7. WorthOf(e) = CHOOSE w \in 0..MaxUint : /\ w * scale >= amount * price
                                               /\ (w - 1) * scale < amount * price
    BY <1>2, <2>1 DEF WorthOf
  <2>8. PICK w : w = WorthOf(e)
    OBVIOUS
  <2>9. /\ w \in 0..MaxUint /\ w * scale >= amount * price
        /\ (w - 1) * scale < amount * price
    BY <2>5, <2>6, <2>7, <2>8
  <2>10. v = w
    BY <2>2, <2>5, <2>6, <2>9, CoverIsUnique, WidthAssumption
  <2> QED BY <2>4, <2>5, <2>8, <2>10, WidthAssumption
<1> QED BY <1>1, <1>2

\* The snapshots an entry was approved with are those its request is bound to.
Backed(p, e) ==
    /\ EntryValue(p, e) # Refused
    /\ ~ p.requireFTSO => e.ftso = NoSnapshot
    /\ p.requireFDC => validFDCSnapshot(p, e.request, e.fdc, e.accountedAt)
    /\ ~ p.requireFDC => e.fdc = NoSnapshot
    /\ inputCommitmentMatches(p, e.request, e.ftso, e.fdc)

\* An entry gives no reason to refuse just when it is canonical and backed.
LEMMA EntryMeans ==
    ASSUME NEW p, NEW h, NEW i, NEW t
    PROVE  EntryReason(p, h, i, t) = "OK" <=> Canonical(p, h, i, t) /\ Backed(p, h[i])
<1>1. InputReason(p) # "OK"
  BY DEF InputReason
<1> QED BY <1>1 DEF EntryReason, Backed

\* A history of which every entry does.
Replays(p, h, t) == \A i \in DOMAIN h : Canonical(p, h, i, t) /\ Backed(p, h[i])

\* What a history spent, of the entries S, by the evaluator's count.
ValueOf(p, h) == [i \in DOMAIN h |-> EntryValue(p, h[i]).value]

\* The entries of the day and of the rolling window at t.
DayOf(h, t) == {i \in DOMAIN h : InDay(h[i].accountedAt, t)}

WindowOf(p, h, t) ==
    {i \in DOMAIN h : InRollingWindow(h[i].accountedAt, t,
                        IF p.rollingWindow = 0 THEN 1 ELSE p.rollingWindow)}

\* Totals that are not refused are the sums over the day and the window.
LEMMA TotalsAre ==
    ASSUME NEW entries, NEW t, NEW window, spendWindowTotals(entries, t, window) # Refused
    PROVE  /\ spendWindowTotals(entries, t, window).dailySpend
                = SumWhere(entries, {i \in DOMAIN entries : InDay(entries[i].executedAt, t)})
           /\ spendWindowTotals(entries, t, window).rollingSpend
                = SumWhere(entries, {i \in DOMAIN entries : InRollingWindow(entries[i].executedAt, t, window)})
BY DEF spendWindowTotals

\* What a replay that succeeds has established, and the totals it returns.
LEMMA ReplayMeans ==
    ASSUME NEW p, NEW s, DOMAIN s.history \in SUBSET Nat, replaySpendHistory(p, s).reason = "OK"
    PROVE  /\ Replays(p, s.history, s.now)
           /\ s.occurrenceCount = Len(s.history)
           /\ s.lastAccountingAt = LastAccountingAt(s.history)
           /\ s.spendCheckpoint = CheckpointOf(s.history)
           /\ replaySpendHistory(p, s).dailySpend
                = SumFunctionOnSet(ValueOf(p, s.history), DayOf(s.history, s.now))
           /\ replaySpendHistory(p, s).rollingSpend
                = SumFunctionOnSet(ValueOf(p, s.history), WindowOf(p, s.history, s.now))
<1> DEFINE h == s.history
           wrong == {i \in DOMAIN h : EntryReason(p, h, i, s.now) # "OK"}
           window == IF p.rollingWindow = 0 THEN 1 ELSE p.rollingWindow
           entries == [i \in DOMAIN h |-> [value |-> EntryValue(p, h[i]).value,
                                           executedAt |-> h[i].accountedAt]]
           Totals == spendWindowTotals(entries, s.now, window)
           refusal(reason) == [reason |-> reason, dailySpend |-> 0, rollingSpend |-> 0]
           Result == IF Len(h) > MaxEntries THEN refusal("MALFORMED")
              ELSE IF wrong # {}
                THEN refusal(EntryReason(p, h, CHOOSE i \in wrong : \A j \in wrong : i <= j, s.now))
              ELSE IF \/ s.occurrenceCount # Len(h)
                      \/ s.lastAccountingAt # LastAccountingAt(h)
                      \/ s.spendCheckpoint # CheckpointOf(h)
                THEN refusal("STALE_INPUT")
              ELSE IF Totals = Refused THEN refusal("MALFORMED")
              ELSE [reason |-> "OK", dailySpend |-> Totals.dailySpend,
                    rollingSpend |-> Totals.rollingSpend]
<1>1. replaySpendHistory(p, s) = Result
  BY DEF replaySpendHistory
<1>2. wrong = {}
  <2> SUFFICES ASSUME wrong # {} PROVE FALSE
    OBVIOUS
  <2>1. PICK i \in wrong : \A j \in wrong : i <= j
    <3>1. wrong \in SUBSET Nat
      OBVIOUS
    <3> HIDE DEF wrong
    <3> QED BY <3>1, LeastNumber
  <2> DEFINE first == CHOOSE k \in wrong : \A j \in wrong : k <= j
  <2>2. first \in wrong
    BY <2>1
  <2>3. EntryReason(p, h, first, s.now) # "OK"
    BY <2>2
  <2> HIDE DEF first, wrong, Totals
  <2>4. Result.reason # "OK"
    BY <2>3 DEF first
  <2> QED BY <1>1, <2>4
<1>3. Replays(p, h, s.now)
  BY <1>2, EntryMeans DEF Replays
<1> HIDE DEF wrong, Totals
<1>4. /\ s.occurrenceCount = Len(h) /\ s.lastAccountingAt = LastAccountingAt(h)
      /\ s.spendCheckpoint = CheckpointOf(h) /\ Totals # Refused
      /\ Result.dailySpend = Totals.dailySpend /\ Result.rollingSpend = Totals.rollingSpend
  BY <1>1, <1>2
<1>5. /\ SumWhere(entries, {i \in DOMAIN entries : InDay(entries[i].executedAt, s.now)})
           = SumFunctionOnSet(ValueOf(p, h), DayOf(h, s.now))
      /\ SumWhere(entries, {i \in DOMAIN entries : InRollingWindow(entries[i].executedAt, s.now, window)})
           = SumFunctionOnSet(ValueOf(p, h), WindowOf(p, h, s.now))
  <2>1. [i \in DOMAIN entries |-> entries[i].value] = ValueOf(p, h)
    BY DEF ValueOf
  <2>2. /\ {i \in DOMAIN entries : InDay(entries[i].executedAt, s.now)} = DayOf(h, s.now)
        /\ {i \in DOMAIN entries : InRollingWindow(entries[i].executedAt, s.now, window)}
             = WindowOf(p, h, s.now)
    BY DEF DayOf, WindowOf
  <2> HIDE DEF entries, window
  <2> QED BY <2>1, <2>2 DEF SumWhere
<1>6. /\ Totals.dailySpend = SumFunctionOnSet(ValueOf(p, h), DayOf(h, s.now))
      /\ Totals.rollingSpend = SumFunctionOnSet(ValueOf(p, h), WindowOf(p, h, s.now))
  <2> HIDE DEF entries, window
  <2> QED BY <1>4, <1>5, TotalsAre DEF Totals
<1> HIDE DEF Result
<1> QED BY <1>1, <1>3, <1>4, <1>6

\* OK is the reason of no violation.
LEMMA NoneViolated ==
    ASSUME NEW V, composePolicyDecision(V) = "OK"
    PROVE  V = {}
<1> SUFFICES ASSUME V # {} PROVE FALSE
  OBVIOUS
<1>1. V \subseteq Violation
  BY DEF composePolicyDecision
<1> DEFINE hits == {i \in DOMAIN Priority : Priority[i] \in V}
<1>2. DOMAIN Priority = 1..10
  BY DEF Priority
<1>3. PICK i \in hits : \A j \in hits : i <= j
  <2>1. hits # {} /\ hits \in SUBSET Nat
    BY <1>1, <1>2 DEF Violation
  <2> HIDE DEF hits
  <2> QED BY <2>1, LeastNumber
<1> DEFINE first == CHOOSE k \in DOMAIN Priority : /\ Priority[k] \in V
                                                   /\ \A j \in 1..(k - 1) : Priority[j] \notin V
<1>4. /\ i \in DOMAIN Priority /\ Priority[i] \in V
      /\ \A j \in 1..(i - 1) : Priority[j] \notin V
  BY <1>2, <1>3
<1>5. first \in DOMAIN Priority
  BY <1>4
<1>6. composePolicyDecision(V) = Priority[first]
  BY <1>1 DEF composePolicyDecision
<1>7. \A k \in 1..10 : Priority[k] # "OK"
  BY DEF Priority
<1> HIDE DEF first
<1> QED BY <1>2, <1>5, <1>6, <1>7

\* What an approval at time t, of a request and two snapshots, says of them.
WellApproved(p, request, t) ==
    /\ request.policyCommitment = p.commitment /\ request.asset = p.asset
    /\ request.actionType = "FTESTXRP_TRANSFER"
    /\ request.amount # 0 /\ ~ (request.amount > MaxUint)
    /\ request.createdAt <= t /\ t <= request.expiry
    /\ request.createdAt <= request.graceDeadline /\ request.graceDeadline <= request.expiry

\* The entry that settling a result appends.
ResultEntry(result) ==
    [request |-> result.request, ftso |-> result.ftso,
     accountedAt |-> result.accountedAt, fdc |-> result.fdc]

\* What it takes to violate nothing.
LEMMA NoViolationMeans ==
    ASSUME NEW p, NEW request, NEW s, NEW spent, Violations(p, request, s, spent) = {},
           p.requireFTSO \in BOOLEAN, p.requireFDC \in BOOLEAN,
           ~ (~ inputCommitmentMatches(p, request, s.ftso, s.fdc) /\ InputReason(p) = "MALFORMED"),
           NEW e, e.request = request, e.ftso = s.ftso, e.fdc = s.fdc, e.accountedAt = s.now
    PROVE  /\ Backed(p, e)
           /\ ~ OutsideSchedule(p, request, s.now)
           /\ ~ CoolingDown(p, s.lastAccountingAt, s.now)
           /\ ~ OverCap(p, EntryValue(p, e).value, spent)
<1> DEFINE converted == ftsoReferenceValue(p, request, s.ftso, s.now)
           matches == inputCommitmentMatches(p, request, s.ftso, s.fdc)
           badFTSO == \/ p.requireFTSO /\ converted = Refused
                      \/ ~ matches /\ InputReason(p) = "FTSO_INVALID"
           badFDC == \/ p.requireFDC /\ ~ validFDCSnapshot(p, request, s.fdc, s.now)
                     \/ ~ matches /\ InputReason(p) = "FDC_INVALID"
           value == IF p.requireFTSO /\ converted # Refused
                      THEN converted.value ELSE request.amount
<1>1. /\ ~ OutsideSchedule(p, request, s.now)
      /\ ~ CoolingDown(p, s.lastAccountingAt, s.now)
      /\ ~ badFTSO /\ ~ badFDC
      /\ ~ (~ badFTSO /\ OverCap(p, value, spent))
  BY DEF Violations
<1>2. matches
  BY <1>1 DEF InputReason
<1>3. EntryValue(p, e) = IF p.requireFTSO THEN converted ELSE [value |-> request.amount]
  BY DEF EntryValue
<1>4. EntryValue(p, e) # Refused /\ EntryValue(p, e).value = value
  <2>1. CASE p.requireFTSO
    BY <1>1, <1>3, <2>1
  <2>2. CASE ~ p.requireFTSO
    BY <1>3, <2>2 DEF Refused
  <2> QED BY <2>1, <2>2
<1>5. Backed(p, e)
  BY <1>1, <1>2, <1>4 DEF Backed, inputCommitmentMatches
<1> QED BY <1>1, <1>4, <1>5

\* What an approval has established about the request and the history replayed.
LEMMA ApprovalMeans ==
    ASSUME NEW p, NEW request, NEW s, EvaluatePolicy(p, request, s) = "OK",
           DOMAIN s.history \in SUBSET Nat,
           p.requireFTSO \in BOOLEAN, p.requireFDC \in BOOLEAN,
           NEW e, e.request = request, e.ftso = s.ftso, e.fdc = s.fdc, e.accountedAt = s.now
    PROVE  /\ WellApproved(p, request, s.now)
           /\ Backed(p, e)
           /\ Replays(p, s.history, s.now)
           /\ request.spendCheckpoint = CheckpointOf(s.history)
           /\ request.occurrence = Len(s.history) + 1
           /\ ~ OutsideSchedule(p, request, s.now)
           /\ ~ CoolingDown(p, LastAccountingAt(s.history), s.now)
           /\ ~ OverCap(p, EntryValue(p, e).value,
                  [dailySpend |-> SumFunctionOnSet(ValueOf(p, s.history), DayOf(s.history, s.now)),
                   rollingSpend |-> SumFunctionOnSet(ValueOf(p, s.history),
                                                     WindowOf(p, s.history, s.now))])
<1> DEFINE spent == replaySpendHistory(p, s)
<1>1. /\ ~ (s.availableBalance > MaxUint \/ request.amount > MaxUint)
      /\ request.policyCommitment = p.commitment
      /\ UpToDate(p, request, s) /\ spent.reason = "OK"
      /\ WellFormed(p, request, s.now)
      /\ ~ (~ inputCommitmentMatches(p, request, s.ftso, s.fdc) /\ InputReason(p) = "MALFORMED")
      /\ composePolicyDecision(Violations(p, request, s, spent)) = "OK"
  BY DEF EvaluatePolicy
<1>2. Violations(p, request, s, spent) = {}
  BY <1>1, NoneViolated
<1>3. /\ Replays(p, s.history, s.now)
      /\ s.occurrenceCount = Len(s.history)
      /\ s.lastAccountingAt = LastAccountingAt(s.history)
      /\ s.spendCheckpoint = CheckpointOf(s.history)
      /\ spent.dailySpend = SumFunctionOnSet(ValueOf(p, s.history), DayOf(s.history, s.now))
      /\ spent.rollingSpend = SumFunctionOnSet(ValueOf(p, s.history), WindowOf(p, s.history, s.now))
  BY <1>1, ReplayMeans
<1> HIDE DEF spent
<1>4. /\ Backed(p, e)
      /\ ~ OutsideSchedule(p, request, s.now)
      /\ ~ CoolingDown(p, s.lastAccountingAt, s.now)
      /\ ~ OverCap(p, EntryValue(p, e).value, spent)
  BY <1>1, <1>2, NoViolationMeans
<1>5. WellApproved(p, request, s.now)
  BY <1>1 DEF WellFormed, WellApproved
<1>6. request.spendCheckpoint = CheckpointOf(s.history) /\ request.occurrence = Len(s.history) + 1
  BY <1>1, <1>3 DEF UpToDate
<1>7. ~ OverCap(p, EntryValue(p, e).value, [dailySpend |-> spent.dailySpend, rollingSpend |-> spent.rollingSpend])
  BY <1>4 DEF OverCap
<1> QED BY <1>3, <1>4, <1>5, <1>6, <1>7

-----------------------------------------------------------------------------
(* Histories.                                                               *)

\* An entry of a history, and a history.
IsEntry(e) ==
    /\ e = [request |-> e.request, ftso |-> e.ftso,
            accountedAt |-> e.accountedAt, fdc |-> e.fdc]
    /\ e.accountedAt \in Nat \ {0}
    /\ e.ftso \in Feeds \cup {NoSnapshot} /\ e.fdc \in Payments \cup {NoSnapshot}

IsSequence(h) == \E S : h \in Seq(S)

IsHistory(h) == IsSequence(h) /\ \A i \in DOMAIN h : IsEntry(h[i])

\* A history is a function on an initial interval of the numbers.
LEMMA HistoryIs ==
    ASSUME NEW h, IsHistory(h)
    PROVE  /\ Len(h) \in Nat /\ DOMAIN h = 1..Len(h) /\ IsFiniteSet(DOMAIN h)
           /\ h = [i \in DOMAIN h |-> h[i]] /\ DOMAIN h \in SUBSET Nat
<1>1. PICK S : h \in Seq(S)
  BY DEF IsHistory, IsSequence
<1>2. Len(h) \in Nat /\ DOMAIN h = 1..Len(h) /\ h = [i \in DOMAIN h |-> h[i]]
  BY <1>1
<1>3. IsFiniteSet(1..Len(h))
  BY <1>2, FS_Interval
<1> QED BY <1>2, <1>3

\* Two histories that replay to one checkpoint are one history.
LEMMA CheckpointNamesHistory ==
    ASSUME SnapshotsAreNamed, NEW p, p.requireFTSO \in BOOLEAN, p.requireFDC \in BOOLEAN,
           NEW h, IsHistory(h), NEW t, Replays(p, h, t),
           NEW c, IsHistory(c), NEW u, Replays(p, c, u), CheckpointOf(h) = CheckpointOf(c)
    PROVE  h = c
<1>1. DOMAIN h = DOMAIN c
  BY DEF CheckpointOf
<1>2. ASSUME NEW i \in DOMAIN h PROVE h[i] = c[i]
  <2>1. h[i].request = c[i].request /\ h[i].accountedAt = c[i].accountedAt
    <3>1. CheckpointOf(h)[i] = <<h[i].request, h[i].accountedAt>>
      BY DEF CheckpointOf
    <3>2. CheckpointOf(c)[i] = <<c[i].request, c[i].accountedAt>>
      BY <1>1 DEF CheckpointOf
    <3> QED BY <3>1, <3>2
  <2>2. Backed(p, h[i]) /\ Backed(p, c[i]) /\ IsEntry(h[i]) /\ IsEntry(c[i])
    BY <1>1 DEF Replays, IsHistory
  <2>3. PICK d, e : d = h[i] /\ e = c[i]
    OBVIOUS
  <2>4. Backed(p, d) /\ Backed(p, e) /\ IsEntry(d) /\ IsEntry(e) /\ d.request = e.request
        /\ d.accountedAt = e.accountedAt
    BY <2>1, <2>2, <2>3
  <2>5. <<CommitmentOf(d.ftso, p.requireFTSO), CommitmentOf(d.fdc, p.requireFDC)>>
          = <<CommitmentOf(e.ftso, p.requireFTSO), CommitmentOf(e.fdc, p.requireFDC)>>
    BY <2>4 DEF Backed, inputCommitmentMatches
  <2>6. /\ CommitmentOf(d.ftso, p.requireFTSO) = CommitmentOf(e.ftso, p.requireFTSO)
        /\ CommitmentOf(d.fdc, p.requireFDC) = CommitmentOf(e.fdc, p.requireFDC)
    BY <2>5
  <2>7. d.ftso = e.ftso
    <3>1. CASE p.requireFTSO
      <4>1. d.ftso # NoSnapshot /\ e.ftso # NoSnapshot
        BY <2>4, <3>1 DEF Backed, EntryValue, ftsoReferenceValue
      <4> QED BY <2>4, <2>6, <3>1, <4>1 DEF IsEntry, SnapshotsAreNamed, CommitmentOf
    <3>2. CASE ~ p.requireFTSO
      BY <2>4, <3>2 DEF Backed
    <3> QED BY <3>1, <3>2
  <2>8. d.fdc = e.fdc
    <3>1. CASE p.requireFDC
      <4>1. d.fdc # NoSnapshot /\ e.fdc # NoSnapshot
        BY <2>4, <3>1 DEF Backed, validFDCSnapshot
      <4> QED BY <2>4, <2>6, <3>1, <4>1 DEF IsEntry, SnapshotsAreNamed, CommitmentOf
    <3>2. CASE ~ p.requireFDC
      BY <2>4, <3>2 DEF Backed
    <3> QED BY <3>1, <3>2
  <2> QED BY <2>3, <2>4, <2>7, <2>8 DEF IsEntry
<1> QED BY <1>1, <1>2, HistoryIs

\* One entry more.
LEMMA Longer ==
    ASSUME NEW c, IsHistory(c), NEW e, IsEntry(e)
    PROVE  /\ IsHistory(Append(c, e)) /\ DOMAIN Append(c, e) = DOMAIN c \cup {Len(c) + 1}
           /\ Len(c) + 1 \notin DOMAIN c /\ Len(Append(c, e)) = Len(c) + 1
           /\ Append(c, e)[Len(c) + 1] = e
           /\ \A i \in DOMAIN c : Append(c, e)[i] = c[i]
           /\ \A i \in DOMAIN Append(c, e) :
                SubSeq(Append(c, e), 1, i - 1) = SubSeq(c, 1, i - 1)
           /\ SubSeq(c, 1, Len(c)) = c
<1>1. PICK S : c \in Seq(S)
  BY DEF IsHistory, IsSequence
<1>2. PICK T : T = S \cup {e}
  OBVIOUS
<1>3. c \in Seq(T) /\ e \in T
  BY <1>1, <1>2
<1>4. /\ Append(c, e) \in Seq(T) /\ Len(Append(c, e)) = Len(c) + 1
      /\ Append(c, e)[Len(c) + 1] = e
      /\ \A i \in 1..Len(c) : Append(c, e)[i] = c[i]
  BY <1>3, AppendProperties
<1>5. Len(c) \in Nat /\ DOMAIN c = 1..Len(c) /\ DOMAIN Append(c, e) = 1..(Len(c) + 1)
  BY <1>3, <1>4
<1>6. IsHistory(Append(c, e))
  BY <1>4, <1>5 DEF IsHistory, IsSequence
<1>7. ASSUME NEW i \in DOMAIN Append(c, e)
      PROVE  SubSeq(Append(c, e), 1, i - 1) = SubSeq(c, 1, i - 1)
  BY <1>3, <1>4, <1>5
<1>8. SubSeq(c, 1, Len(c)) = c
  BY <1>3, <1>5
<1> QED BY <1>4, <1>5, <1>6, <1>7, <1>8

-----------------------------------------------------------------------------
(* What a history keeps of the policy's limits.                             *)

\* What a history spent from first to last.
Between(h, first, last) == {i \in DOMAIN h : h[i].accountedAt \in first..last}

Spent(p, h, first, last) == SumFunctionOnSet(ValueOf(p, h), Between(h, first, last))

\* Every day and every window within its cap, and every two entries a cooldown apart.
CapsKept(p, h) ==
    \A t \in Nat :
       /\ p.dailyCap # 0 => Spent(p, h, dayStart(t), dayStart(t) + DaySeconds - 1) <= p.dailyCap
       /\ p.rollingCap # 0 => Spent(p, h, t - p.rollingWindow + 1, t) <= p.rollingCap

Cooled(p, h) ==
    \A i, j \in DOMAIN h : i < j => h[j].accountedAt >= h[i].accountedAt + p.cooldown

\* Every occurrence within its own slot and grace.
InSlot(p, k, t) ==
    LET w == scheduleWindow(p.startAt, p.interval, p.grace, k) IN
    w # Refused /\ t \in w.slot..w.deadline

Slotted(p, h) == p.interval # 0 => \A i \in DOMAIN h : InSlot(p, i, h[i].accountedAt)

\* What was asked for, and how much the caps let through at once.
Asked(p, h) ==
    \A i \in DOMAIN h :
       /\ h[i].request.amount \in Amounts[p]
       /\ ~ OverCap(p, EntryValue(p, h[i]).value, [dailySpend |-> 0, rollingSpend |-> 0])

\* What EvaluatorAssumption and normalizedPolicy say of a policy and of the feeds.
PolicyTyped(p) ==
    /\ {p.startAt, p.endAt, p.interval, p.grace, p.cooldown} \subseteq 0..MaxTime
    /\ {p.dailyCap, p.rollingCap, p.rollingWindow, p.maxFDCAge} \subseteq Nat
    /\ {p.requireFTSO, p.requireFDC} \subseteq BOOLEAN
    /\ p.rollingCap # 0 => p.rollingWindow # 0

FeedsTyped ==
    \A feed \in Feeds : feed.value \in Nat /\ feed.scale \in Nat \ {0}

\* The value of an entry that replays.
LEMMA ValueIsNumber ==
    ASSUME FeedsTyped, NEW p, PolicyTyped(p), NEW e, IsEntry(e), Backed(p, e),
           e.request.amount \in Nat
    PROVE  EntryValue(p, e).value \in Nat
<1>1. CASE ~ p.requireFTSO
  BY <1>1 DEF EntryValue
<1>2. CASE p.requireFTSO
  <2>1. e.ftso # NoSnapshot /\ EntryValue(p, e) = referenceValue(e.request.amount, e.ftso.value, e.ftso.scale)
        /\ EntryValue(p, e) # Refused
    BY <1>2 DEF EntryValue, ftsoReferenceValue, Backed
  <2>2. PICK amount, price, scale : amount = e.request.amount /\ price = e.ftso.value /\ scale = e.ftso.scale
    OBVIOUS
  <2>3. amount \in Nat /\ price \in Nat /\ scale \in Nat \ {0}
    BY <2>1, <2>2 DEF IsEntry, FeedsTyped
  <2>4. referenceValue(amount, price, scale).value \in 0..MaxUint
    BY <2>1, <2>2, <2>3, ReferenceValueIs
  <2> QED BY <2>1, <2>2, <2>4, WidthAssumption
<1> QED BY <1>1, <1>2 DEF PolicyTyped

\* What a replayed history spent are numbers, which can be added.
LEMMA ValuesAreNumbers ==
    ASSUME FeedsTyped, NEW p, PolicyTyped(p), NEW h, IsHistory(h), NEW t, Replays(p, h, t)
    PROVE  /\ \A i \in DOMAIN h : ValueOf(p, h)[i] \in Nat
           /\ IntegersOn(ValueOf(p, h), DOMAIN h)
<1>1. ASSUME NEW i \in DOMAIN h PROVE ValueOf(p, h)[i] \in Nat
  <2>1. IsEntry(h[i]) /\ Backed(p, h[i]) /\ h[i].request.amount \in Nat
    BY WidthAssumption DEF IsHistory, Replays, Canonical
  <2> QED BY <2>1, ValueIsNumber DEF ValueOf
<1> QED BY <1>1 DEF IntegersOn

\* Division: the day a time is in.
LEMMA SameDay ==
    ASSUME NEW t \in Nat, NEW a \in Nat, a \in dayStart(t)..(dayStart(t) + DaySeconds - 1)
    PROVE  dayStart(a) = dayStart(t)
<1>1. PICK d, q, r : d = DaySeconds /\ q = t \div d /\ r = a \div d
  OBVIOUS
<1>2. d \in Nat \ {0} /\ q \in Nat /\ r \in Nat /\ a % d \in 0..(d - 1) /\ a = d * r + (a % d)
  BY <1>1, WidthAssumption
<1>3. dayStart(t) = q * d /\ dayStart(a) = r * d
  BY <1>1 DEF dayStart
<1>4. q * d = d * q /\ r * d = d * r /\ d * q \in Nat /\ d * r \in Nat
  BY <1>2
<1>5. a >= d * q /\ a <= d * q + d - 1
  BY <1>1, <1>3, <1>4
<1>6. CASE q < r
  <2>1. PICK k \in Nat : r = q + 1 + k
    <3>1. r - q - 1 \in Nat
      BY <1>2, <1>6
    <3> QED BY <3>1, <1>2
  <2>2. d * (q + 1 + k) = d * q + d + d * k /\ d * k \in Nat
    BY <1>2
  <2> QED BY <2>1, <2>2, <1>2, <1>4, <1>5
<1>7. CASE r < q
  <2>1. PICK k \in Nat : q = r + 1 + k
    <3>1. q - r - 1 \in Nat
      BY <1>2, <1>7
    <3> QED BY <3>1, <1>2
  <2>2. d * (r + 1 + k) = d * r + d + d * k /\ d * k \in Nat
    BY <1>2
  <2> QED BY <2>1, <2>2, <1>2, <1>4, <1>5
<1> QED BY <1>2, <1>3, <1>6, <1>7

\* The start of a day is a time.
LEMMA DayStartIsNumber == ASSUME NEW t \in Nat PROVE dayStart(t) \in Nat
<1>1. t \div DaySeconds \in Nat /\ DaySeconds \in Nat
  BY WidthAssumption
<1>2. \A x, y \in Nat : x * y \in Nat
  OBVIOUS
<1> QED BY <1>1, <1>2 DEF dayStart

\* Of a payment more, the sums over any window: what was in it, and the payment
\* if it falls into it, provided it fits with those the evaluator counted.
LEMMA SpentWithOneMore ==
    ASSUME FeedsTyped, NEW p, PolicyTyped(p),
           NEW c, IsHistory(c), NEW t, Replays(p, c, t),
           NEW e, IsEntry(e), Backed(p, e), e.request.amount \in Nat,
           NEW first \in Int, NEW last \in Int, NEW cap \in Nat, NEW counted \in SUBSET DOMAIN c,
           Spent(p, c, first, last) <= cap,
           e.accountedAt \in first..last =>
              /\ Between(c, first, last) \subseteq counted
              /\ SumFunctionOnSet(ValueOf(p, c), counted) + EntryValue(p, e).value <= cap
    PROVE  Spent(p, Append(c, e), first, last) <= cap
<1> DEFINE k == Len(c) + 1
           f == ValueOf(p, c)
           g == ValueOf(p, Append(c, e))
           S == Between(c, first, last)
           U == Between(Append(c, e), first, last)
           v == EntryValue(p, e).value
<1>1. /\ DOMAIN Append(c, e) = DOMAIN c \cup {k} /\ k \notin DOMAIN c
      /\ Append(c, e)[k] = e /\ \A i \in DOMAIN c : Append(c, e)[i] = c[i]
  BY Longer
<1>2. IsFiniteSet(S) /\ IsFiniteSet(counted) /\ S \subseteq DOMAIN c
  BY HistoryIs, FS_Subset DEF Between
<1>3. v \in Nat /\ \A i \in DOMAIN c : f[i] \in Nat
  BY ValueIsNumber, ValuesAreNumbers
<1>4. g[k] = v /\ \A i \in DOMAIN c : g[i] = f[i]
  BY <1>1 DEF ValueOf
<1>5. U = IF e.accountedAt \in first..last THEN S \cup {k} ELSE S
  BY <1>1 DEF Between
<1> HIDE DEF f, g, S, U, v, k
<1>6. IntegersOn(f, S) /\ AgreeOn(g, f, S) /\ IntegersOn(g, S) /\ k \notin S /\ IntegersOn(f, counted)
  BY <1>1, <1>2, <1>3, <1>4 DEF IntegersOn, AgreeOn
<1>7. SumFunctionOnSet(g, S) = SumFunctionOnSet(f, S)
  BY <1>2, <1>6, SumSame
<1>8. SumFunctionOnSet(f, S) <= cap
  BY DEF Spent, S, f
<1>9. CASE e.accountedAt \notin first..last
  BY <1>5, <1>7, <1>8, <1>9 DEF Spent, g, U
<1>10. CASE e.accountedAt \in first..last
  <2>1. S \subseteq counted /\ SumFunctionOnSet(f, counted) + v <= cap
    BY <1>10 DEF S, f, v
  <2>2. SumFunctionOnSet(f, S) <= SumFunctionOnSet(f, counted)
    <3>1. \A i \in counted : f[i] >= 0
      BY <1>3
    <3> QED BY <1>2, <1>6, <2>1, <3>1, SumOfPart
  <2>3. SumFunctionOnSet(g, S \cup {k}) = v + SumFunctionOnSet(g, S)
    BY <1>2, <1>3, <1>4, <1>6, SumAdd
  <2>4. SumFunctionOnSet(f, S) \in Int /\ SumFunctionOnSet(f, counted) \in Int
    BY <1>2, <1>6, SumType
  <2>5. SumFunctionOnSet(g, U) <= cap
    BY <1>3, <1>5, <1>7, <1>10, <2>1, <2>2, <2>3, <2>4
  <2> QED BY <2>5 DEF Spent, g, U
<1> QED BY <1>9, <1>10

\* A payment that continues the history, approved within the caps by it.
Continues(p, c, e) ==
    /\ IsEntry(e) /\ Backed(p, e) /\ e.request.amount \in Nat
    /\ WellApproved(p, e.request, e.accountedAt)
    /\ e.request.occurrence = Len(c) + 1 /\ e.request.spendCheckpoint = CheckpointOf(c)
    /\ e.accountedAt >= LastAccountingAt(c)
    /\ ~ OutsideSchedule(p, e.request, e.accountedAt)
    /\ ~ CoolingDown(p, LastAccountingAt(c), e.accountedAt)
    /\ ~ OverCap(p, EntryValue(p, e).value,
           [dailySpend |-> SumFunctionOnSet(ValueOf(p, c), DayOf(c, e.accountedAt)),
            rollingSpend |-> SumFunctionOnSet(ValueOf(p, c), WindowOf(p, c, e.accountedAt))])

\* An approved entry keeps every cap: those of windows it is in by the evaluator's count, the others as they were.
LEMMA CapsKeptAfter ==
    ASSUME FeedsTyped, NEW p, PolicyTyped(p), NEW c, IsHistory(c), NEW t, Replays(p, c, t),
           NEW e, Continues(p, c, e), CapsKept(p, c)
    PROVE  CapsKept(p, Append(c, e))
<1> DEFINE v == EntryValue(p, e).value
           at == e.accountedAt
<1>1. IsEntry(e) /\ Backed(p, e) /\ at \in Nat /\ e.request.amount \in Nat
  BY DEF Continues, IsEntry
<1>2. /\ p.dailyCap \in Nat /\ p.rollingCap \in Nat /\ p.rollingWindow \in Nat
      /\ p.rollingCap # 0 => p.rollingWindow # 0
      /\ v \in Nat
  BY <1>1, ValueIsNumber DEF PolicyTyped
<1>3. DOMAIN c = 1..Len(c) /\ \A i \in DOMAIN c : c[i].accountedAt \in Nat
  BY HistoryIs DEF IsHistory, IsEntry
<1>4. /\ DayOf(c, at) \in SUBSET DOMAIN c /\ WindowOf(p, c, at) \in SUBSET DOMAIN c
  BY DEF DayOf, WindowOf
<1>5. /\ SumFunctionOnSet(ValueOf(p, c), DayOf(c, at)) \in Int
      /\ SumFunctionOnSet(ValueOf(p, c), WindowOf(p, c, at)) \in Int
  <2>1. \A S \in SUBSET DOMAIN c : IsFiniteSet(S) /\ IntegersOn(ValueOf(p, c), S)
    BY HistoryIs, FS_Subset, ValuesAreNumbers DEF IntegersOn
  <2> QED BY <1>4, <2>1, SumType
<1>6. /\ p.dailyCap # 0 => SumFunctionOnSet(ValueOf(p, c), DayOf(c, at)) + v <= p.dailyCap
      /\ p.rollingCap # 0 => SumFunctionOnSet(ValueOf(p, c), WindowOf(p, c, at)) + v <= p.rollingCap
  BY <1>2, <1>5 DEF Continues, OverCap
<1>7. ASSUME NEW d \in Nat, p.dailyCap # 0
      PROVE  Spent(p, Append(c, e), dayStart(d), dayStart(d) + DaySeconds - 1) <= p.dailyCap
  <2>1. PICK first, last : first = dayStart(d) /\ last = dayStart(d) + DaySeconds - 1
    OBVIOUS
  <2>2. first \in Int /\ last \in Int
    BY <2>1, DayStartIsNumber, WidthAssumption
  <2>3. ASSUME at \in first..last PROVE Between(c, first, last) \subseteq DayOf(c, at)
    <3>1. dayStart(at) = first
      BY <1>1, <2>1, <2>3, SameDay
    <3> QED BY <1>3, <2>2, <3>1 DEF Between, DayOf, InDay
  <2>4. Spent(p, c, first, last) <= p.dailyCap
    BY <1>7, <2>1 DEF CapsKept
  <2>5. Spent(p, Append(c, e), first, last) <= p.dailyCap
    BY <1>1, <1>2, <1>4, <1>6, <1>7, <2>2, <2>3, <2>4, SpentWithOneMore
  <2> QED BY <2>1, <2>5
<1>8. ASSUME NEW d \in Nat, p.rollingCap # 0
      PROVE  Spent(p, Append(c, e), d - p.rollingWindow + 1, d) <= p.rollingCap
  <2>1. PICK first : first = d - p.rollingWindow + 1
    OBVIOUS
  <2>2. first \in Int /\ d \in Int
    BY <1>2, <2>1
  <2>3. ASSUME at \in first..d PROVE Between(c, first, d) \subseteq WindowOf(p, c, at)
    <3>1. at - p.rollingWindow < first
      BY <1>1, <1>2, <2>1, <2>3
    <3>2. \A a \in Nat : a >= first => a > at - p.rollingWindow
      BY <1>1, <1>2, <2>2, <3>1
    <3> QED BY <1>2, <1>3, <1>8, <2>2, <3>2 DEF Between, WindowOf, InRollingWindow
  <2>4. Spent(p, c, first, d) <= p.rollingCap
    BY <1>8, <2>1 DEF CapsKept
  <2>5. Spent(p, Append(c, e), first, d) <= p.rollingCap
    BY <1>1, <1>2, <1>4, <1>6, <1>8, <2>2, <2>3, <2>4, SpentWithOneMore
  <2> QED BY <2>1, <2>5
<1> HIDE DEF v
<1> QED BY <1>7, <1>8 DEF CapsKept

\* It replays, with those before it,
LEMMA ReplaysAfter ==
    ASSUME NEW p, NEW c, IsHistory(c), NEW t \in Nat, Replays(p, c, t),
           NEW e, Continues(p, c, e), e.accountedAt <= t
    PROVE  Replays(p, Append(c, e), t)
<1>1. ASSUME NEW i \in DOMAIN Append(c, e)
      PROVE  Canonical(p, Append(c, e), i, t) /\ Backed(p, Append(c, e)[i])
  <2>1. CASE i \in DOMAIN c
    <3>0. IsEntry(e)
      BY DEF Continues
    <3>1. /\ Append(c, e)[i] = c[i] /\ SubSeq(Append(c, e), 1, i - 1) = SubSeq(c, 1, i - 1)
      <4>1. \A k \in DOMAIN c : Append(c, e)[k] = c[k]
        BY <3>0, Longer
      <4>2. \A k \in DOMAIN Append(c, e) : SubSeq(Append(c, e), 1, k - 1) = SubSeq(c, 1, k - 1)
        BY <3>0, Longer
      <4> QED BY <2>1, <4>1, <4>2
    <3>2. Canonical(p, c, i, t) /\ Backed(p, c[i])
      BY <2>1 DEF Replays
    <3> QED BY <3>1, <3>2 DEF Canonical
  <2>2. CASE i = Len(c) + 1
    <3>1. Append(c, e)[i] = e /\ SubSeq(Append(c, e), 1, i - 1) = c
      <4>1. Len(c) \in Nat
        BY HistoryIs
      <4>2. i - 1 = Len(c)
        BY <4>1, <2>2
      <4> QED BY <2>2, <4>2, Longer DEF Continues
    <3>2. e.request.amount \in 1..MaxUint
      BY WidthAssumption DEF Continues, WellApproved, IsEntry
    <3> QED BY <2>2, <3>1, <3>2 DEF Canonical, Continues, WellApproved
  <2> QED BY <2>1, <2>2, Longer, SMTT(30) DEF Continues
<1> QED BY <1>1 DEF Replays

\* it is a cooldown after the last one, and so after all,
LEMMA CooledAfter ==
    ASSUME NEW p, PolicyTyped(p), NEW c, IsHistory(c), NEW e, Continues(p, c, e), Cooled(p, c)
    PROVE  Cooled(p, Append(c, e))
<1> DEFINE d == Append(c, e)
<1>1. /\ DOMAIN d = DOMAIN c \cup {Len(c) + 1} /\ d[Len(c) + 1] = e
      /\ \A i \in DOMAIN c : d[i] = c[i]
  BY Longer DEF Continues
<1>2. Len(c) \in Nat /\ DOMAIN c = 1..Len(c) /\ \A i \in DOMAIN c : c[i].accountedAt \in Nat \ {0}
  BY HistoryIs DEF IsHistory, IsEntry
<1>3. e.accountedAt \in Nat /\ p.cooldown \in Nat
  BY WidthAssumption DEF Continues, IsEntry, PolicyTyped
<1>4. ASSUME NEW i \in DOMAIN c PROVE e.accountedAt >= c[i].accountedAt + p.cooldown
  <2>1. LastAccountingAt(c) = c[Len(c)].accountedAt /\ Len(c) \in DOMAIN c
    BY <1>2 DEF LastAccountingAt
  <2>2. c[Len(c)].accountedAt \in Nat \ {0} /\ c[i].accountedAt \in Nat
    BY <1>2, <2>1
  <2>3. e.accountedAt >= c[Len(c)].accountedAt + p.cooldown
    BY <1>3, <2>1, <2>2 DEF Continues, CoolingDown
  <2>4. c[Len(c)].accountedAt >= c[i].accountedAt
    <3>1. CASE i = Len(c)
      BY <2>2, <3>1
    <3>2. CASE i # Len(c)
      <4>1. i < Len(c)
        BY <1>2, <3>2
      <4>2. c[Len(c)].accountedAt >= c[i].accountedAt + p.cooldown
        BY <2>1, <4>1 DEF Cooled
      <4> QED BY <1>3, <2>2, <4>2
    <3> QED BY <3>1, <3>2
  <2> QED BY <1>3, <2>2, <2>3, <2>4
<1> HIDE DEF d
<1>5. ASSUME NEW i \in DOMAIN d, NEW j \in DOMAIN d, i < j
      PROVE  d[j].accountedAt >= d[i].accountedAt + p.cooldown
  <2>1. i \in DOMAIN c
    BY <1>1, <1>2, <1>5
  <2>2. CASE j \in DOMAIN c
    BY <1>1, <1>5, <2>1, <2>2 DEF Cooled
  <2>3. CASE j = Len(c) + 1
    BY <1>1, <1>4, <2>1, <2>3
  <2> QED BY <1>1, <2>2, <2>3
<1> QED BY <1>5 DEF Cooled, d

\* it is in its slot,
LEMMA SlottedAfter ==
    ASSUME NEW p, NEW c, IsHistory(c), NEW e, Continues(p, c, e), Slotted(p, c)
    PROVE  Slotted(p, Append(c, e))
<1>1. /\ DOMAIN Append(c, e) = DOMAIN c \cup {Len(c) + 1} /\ Append(c, e)[Len(c) + 1] = e
      /\ \A i \in DOMAIN c : Append(c, e)[i] = c[i]
  BY Longer DEF Continues
<1>2. p.interval # 0 => InSlot(p, Len(c) + 1, e.accountedAt)
  BY DEF Continues, OutsideSchedule, InSlot
<1> QED BY <1>1, <1>2 DEF Slotted

\* and it is an amount the policy is asked for, which each cap alone lets through.
LEMMA AskedAfter ==
    ASSUME FeedsTyped, NEW p, PolicyTyped(p), NEW c, IsHistory(c), NEW t, Replays(p, c, t),
           NEW e, Continues(p, c, e), e.request.amount \in Amounts[p], Asked(p, c)
    PROVE  Asked(p, Append(c, e))
<1> DEFINE v == EntryValue(p, e).value
           daily == SumFunctionOnSet(ValueOf(p, c), DayOf(c, e.accountedAt))
           rolling == SumFunctionOnSet(ValueOf(p, c), WindowOf(p, c, e.accountedAt))
<1>1. /\ DOMAIN Append(c, e) = DOMAIN c \cup {Len(c) + 1} /\ Append(c, e)[Len(c) + 1] = e
      /\ \A i \in DOMAIN c : Append(c, e)[i] = c[i]
  BY Longer DEF Continues
<1>2. v \in Nat
  BY ValueIsNumber DEF Continues
<1>3. daily \in Int /\ 0 <= daily /\ rolling \in Int /\ 0 <= rolling
  <2>1. ASSUME NEW S \in SUBSET DOMAIN c
        PROVE  /\ SumFunctionOnSet(ValueOf(p, c), S) \in Int
               /\ 0 <= SumFunctionOnSet(ValueOf(p, c), S)
    <3>1. IsFiniteSet(S) /\ \A i \in S : ValueOf(p, c)[i] \in Nat
      BY HistoryIs, FS_Subset, ValuesAreNumbers
    <3>2. IntegersOn(ValueOf(p, c), S) /\ \A i \in S : ValueOf(p, c)[i] >= 0
      BY <3>1 DEF IntegersOn
    <3> QED BY <3>1, <3>2, SumType, SumOfPart
  <2>2. DayOf(c, e.accountedAt) \in SUBSET DOMAIN c /\ WindowOf(p, c, e.accountedAt) \in SUBSET DOMAIN c
    BY DEF DayOf, WindowOf
  <2> QED BY <2>1, <2>2
<1>4. ~ OverCap(p, v, [dailySpend |-> daily, rollingSpend |-> rolling])
  BY DEF Continues
<1>5. p.dailyCap \in Nat /\ p.rollingCap \in Nat
  BY DEF PolicyTyped
<1>6. ~ OverCap(p, v, [dailySpend |-> 0, rollingSpend |-> 0])
  <2> HIDE DEF v, daily, rolling
  <2> QED BY <1>2, <1>3, <1>4, <1>5 DEF OverCap
<1> QED BY <1>1, <1>6 DEF Asked

\* No two entries are of one request.
DistinctRequests(h) ==
    \A i, j \in DOMAIN h : h[i].request.requestId = h[j].request.requestId => i = j

\* A result in flight was approved: with its own snapshots, at its own time, on
\* the history it says it was replayed on.
Granted(result) ==
    /\ IsEntry(ResultEntry(result)) /\ result.accountedAt <= now
    /\ result.request.amount \in Amounts[policy]
    /\ IsHistory(result.replayed)
    /\ \E s : /\ EvaluatePolicy(policy, result.request, s) = "OK"
              /\ s.now = result.accountedAt /\ s.history = result.replayed
              /\ s.ftso = result.ftso /\ s.fdc = result.fdc

\* The inductive invariant of the evaluator and its accounting: the chain is a history that
\* replays and keeps every limit, and a result in flight was approved on what it says.
EvaluatorInv ==
    /\ policy \in Policies /\ PolicyTyped(policy) /\ now \in 1..Horizon[policy]
    /\ IsHistory(chain) /\ Replays(policy, chain, now)
    /\ Cooled(policy, chain) /\ Slotted(policy, chain) /\ CapsKept(policy, chain)
    /\ DistinctRequests(chain) /\ Asked(policy, chain)
    /\ \A result \in results : Granted(result)

LEMMA FeedsAreTyped == FeedsTyped
BY EvaluatorAssumption DEF FeedsTyped

LEMMA PolicyIsTyped ==
    ASSUME NEW p \in Policies, normalizedPolicy(p)
    PROVE  PolicyTyped(p)
<1>1. p.rollingCap # 0 => p.rollingWindow # 0
  BY DEF normalizedPolicy
<1> QED BY <1>1, EvaluatorAssumption DEF PolicyTyped

LEMMA EvaluatorInit == Init => EvaluatorInv
<1> SUFFICES ASSUME Init PROVE EvaluatorInv
  OBVIOUS
<1>1. policy \in Policies /\ PolicyTyped(policy) /\ chain = <<>> /\ results = {}
  BY PolicyIsTyped DEF Init
<1>2. now \in 1..Horizon[policy]
  BY <1>1, EvaluatorAssumption DEF Init
<1>3. DOMAIN chain = {} /\ IsHistory(chain)
  <2>1. <<>> \in Seq({}) /\ DOMAIN <<>> = {}
    OBVIOUS
  <2> QED BY <1>1, <2>1 DEF IsHistory, IsSequence
<1>4. CapsKept(policy, chain)
  <2>1. \A first, last : Spent(policy, chain, first, last) = 0
    <3>1. \A first, last : Between(chain, first, last) = {}
      BY <1>3 DEF Between
    <3> QED BY <3>1, SumEmpty DEF Spent
  <2> QED BY <1>1, <2>1 DEF CapsKept, PolicyTyped
<1> QED BY <1>1, <1>2, <1>3, <1>4
     DEF EvaluatorInv, Replays, Cooled, Slotted, DistinctRequests, Asked

\* What replays now replays later.
LEMMA ReplaysLater ==
    ASSUME NEW p, NEW h, IsHistory(h), NEW t \in Int, NEW u \in Int, t <= u, Replays(p, h, t)
    PROVE  Replays(p, h, u)
<1>1. ASSUME NEW i \in DOMAIN h PROVE h[i].accountedAt <= u
  <2>1. h[i].accountedAt \in Nat
    BY DEF IsHistory, IsEntry
  <2>2. h[i].accountedAt <= t
    BY DEF Replays, Canonical
  <2> QED BY <2>1, <2>2
<1> QED BY <1>1 DEF Replays, Canonical

LEMMA TickStep ==
    ASSUME EvaluatorInv, Tick
    PROVE  EvaluatorInv'
<1>1. UNCHANGED <<policy, chain, results>> /\ now' = now + 1 /\ now' \in 1..Horizon[policy]
  BY EvaluatorAssumption DEF Tick, EvaluatorInv
<1>2. now \in Int /\ now' \in Int /\ now <= now'
  BY <1>1 DEF EvaluatorInv
<1>3. Replays(policy, chain, now')
  BY <1>2, ReplaysLater DEF EvaluatorInv
<1>4. ASSUME NEW result \in results PROVE Granted(result)'
  <2>1. Granted(result)
    BY DEF EvaluatorInv
  <2>2. result.accountedAt <= now'
    BY <1>2, <2>1 DEF Granted, IsEntry, ResultEntry
  <2> QED BY <1>1, <2>1, <2>2 DEF Granted
<1> QED BY <1>1, <1>3, <1>4 DEF EvaluatorInv

-----------------------------------------------------------------------------
(* Evaluate.                                                                *)

\* The histories callers supply are histories: the chain with an entry changed, or a part of it.
LEMMA ChangedEntry ==
    ASSUME NEW c, IsHistory(c), NEW i \in DOMAIN c, NEW e, IsEntry(e)
    PROVE  IsHistory([c EXCEPT ![i] = e])
<1>1. PICK S : c \in Seq(S)
  BY DEF IsHistory, IsSequence
<1>2. PICK T : T = S \cup {e}
  OBVIOUS
<1>3. c \in Seq(T) /\ e \in T
  BY <1>1, <1>2
<1>4. [c EXCEPT ![i] = e] \in Seq(T)
  BY <1>3
<1>5. \A k \in DOMAIN [c EXCEPT ![i] = e] : IsEntry([c EXCEPT ![i] = e][k])
  BY DEF IsHistory
<1> QED BY <1>4, <1>5 DEF IsHistory, IsSequence

LEMMA PartOfHistory ==
    ASSUME NEW c, IsHistory(c), NEW m \in {1, 2}, NEW n \in {Len(c) - 1, Len(c)}
    PROVE  IsHistory(SubSeq(c, m, n))
<1>1. PICK S : c \in Seq(S)
  BY DEF IsHistory, IsSequence
<1>2. Len(c) \in Nat
  BY <1>1
<1>3. /\ SubSeq(c, m, n) \in Seq(S)
      /\ \A k \in DOMAIN SubSeq(c, m, n) : \E i \in DOMAIN c : SubSeq(c, m, n)[k] = c[i]
  BY <1>1, <1>2
<1>4. \A k \in DOMAIN SubSeq(c, m, n) : IsEntry(SubSeq(c, m, n)[k])
  BY <1>3 DEF IsHistory
<1> QED BY <1>3, <1>4 DEF IsHistory, IsSequence

LEMMA SuppliedAreHistories ==
    ASSUME EvaluatorInv, NEW h \in SuppliedHistories
    PROVE  IsHistory(h)
<1>1. IsHistory(chain) /\ \A i \in DOMAIN chain : IsEntry(chain[i])
  BY DEF EvaluatorInv, IsHistory
<1>2. CASE h \in {chain} \cup {SubSeq(chain, 1, Len(chain) - 1), SubSeq(chain, 2, Len(chain))}
  BY <1>1, <1>2, PartOfHistory
<1>3. ASSUME NEW i \in DOMAIN chain, NEW a \in Amounts[policy],
             h = [chain EXCEPT ![i].request.amount = a]
      PROVE  IsHistory(h)
  <2>1. PICK was, e : was = chain[i] /\ e = [chain[i] EXCEPT !.request.amount = a]
    OBVIOUS
  <2>2. h = [chain EXCEPT ![i] = e]
    BY <1>3, <2>1
  <2>3. e.ftso = was.ftso /\ e.fdc = was.fdc /\ e.accountedAt = was.accountedAt
        /\ e = [request |-> e.request, ftso |-> e.ftso,
                accountedAt |-> e.accountedAt, fdc |-> e.fdc]
    <3>1. PICK request : request = [was.request EXCEPT !.amount = a]
      OBVIOUS
    <3>2. e = [was EXCEPT !.request = request]
      BY <2>1, <3>1
    <3>3. was = [request |-> was.request, ftso |-> was.ftso,
                 accountedAt |-> was.accountedAt, fdc |-> was.fdc]
      BY <1>1, <2>1 DEF IsEntry
    <3> QED BY <3>2, <3>3
  <2>4. IsEntry(e)
    BY <1>1, <2>1, <2>3 DEF IsEntry
  <2> QED BY <1>1, <2>2, <2>4, ChangedEntry
<1>4. ASSUME NEW i \in DOMAIN chain, NEW t \in RecentTimes,
             h = [chain EXCEPT ![i].accountedAt = t]
      PROVE  IsHistory(h)
  <2>1. PICK e : e = [chain[i] EXCEPT !.accountedAt = t]
    OBVIOUS
  <2>2. h = [chain EXCEPT ![i] = e]
    BY <1>4, <2>1
  <2>3. t \in Nat \ {0}
    BY EvaluatorAssumption DEF EvaluatorInv, RecentTimes
  <2>4. IsEntry(e)
    BY <1>1, <2>1, <2>3 DEF IsEntry
  <2> QED BY <1>1, <2>2, <2>4, ChangedEntry
<1>5. ASSUME NEW i \in DOMAIN chain, NEW f \in Feeds, h = [chain EXCEPT ![i].ftso = f]
      PROVE  IsHistory(h)
  <2>1. PICK e : e = [chain[i] EXCEPT !.ftso = f]
    OBVIOUS
  <2>2. h = [chain EXCEPT ![i] = e]
    BY <1>5, <2>1
  <2>3. IsEntry(e)
    BY <1>1, <2>1 DEF IsEntry
  <2> QED BY <1>1, <2>2, <2>3, ChangedEntry
<1> QED BY <1>2, <1>3, <1>4, <1>5 DEF SuppliedHistories

\* A result that is returned was granted.
LEMMA EvaluateKeeps ==
    ASSUME EvaluatorInv, EvaluateNext
    PROVE  EvaluatorInv'
<1>1. PICK history \in SuppliedHistories, at \in RecentTimes,
           feed \in Snapshots(policy.requireFTSO, Feeds),
           payment \in Snapshots(policy.requireFDC, Payments) :
        \E request \in RequestsFor(feed, payment) :
          Evaluate(request, StateFor(history, at, feed, payment))
  BY DEF EvaluateNext
<1>2. PICK request \in RequestsFor(feed, payment) :
        Evaluate(request, StateFor(history, at, feed, payment))
  BY <1>1
<1>3. request.amount \in Amounts[policy]
  <2>1. PICK created : request \in RequestsMade(feed, payment, created)
    BY DEF RequestsFor
  <2>2. PICK parties \in Parties[policy], amount \in Amounts[policy],
             times \in TimesOf(Len(chain) + 1, created),
             id \in (IF policy.requireFDC THEN RequestIds ELSE {<<Len(chain) + 1, created>>}) :
          request = RequestOf(feed, payment, created, parties, amount, times, id)
    BY <2>1 DEF RequestsMade
  <2>3. request.amount \in Amounts[policy]
    BY <2>2 DEF RequestOf
  <2> QED BY <2>3
<1>4. at \in Nat \ {0} /\ at <= now
  BY EvaluatorAssumption DEF EvaluatorInv, RecentTimes
<1>5. feed \in Feeds \cup {NoSnapshot} /\ payment \in Payments \cup {NoSnapshot}
  BY DEF Snapshots
<1>6. PICK s : s = StateFor(history, at, feed, payment)
  OBVIOUS
<1>7. s.now = at /\ s.history = history /\ s.ftso = feed /\ s.fdc = payment
  BY <1>6 DEF StateFor
<1>8. PICK result : result = [request |-> request, accountedAt |-> at, ftso |-> feed,
                              fdc |-> payment, replayed |-> history]
  OBVIOUS
<1>9. /\ EvaluatePolicy(policy, request, s) = "OK"
      /\ results' = results \cup {result}
      /\ UNCHANGED <<policy, now, chain>>
  BY <1>2, <1>6, <1>7, <1>8 DEF Evaluate
<1>10. Granted(result)
  <2>1. IsHistory(history)
    BY SuppliedAreHistories
  <2>2. IsEntry(ResultEntry(result))
    BY <1>3, <1>4, <1>5, <1>8 DEF IsEntry, ResultEntry
  <2>3. /\ result.request = request /\ result.accountedAt = at /\ result.ftso = feed
        /\ result.fdc = payment /\ result.replayed = history
    BY <1>8
  <2>4. \E state : /\ EvaluatePolicy(policy, result.request, state) = "OK"
                  /\ state.now = result.accountedAt /\ state.history = result.replayed
                  /\ state.ftso = result.ftso /\ state.fdc = result.fdc
    BY <1>7, <1>9, <2>3
  <2> QED BY <1>3, <1>4, <2>1, <2>2, <2>3, <2>4 DEF Granted
<1>11. \A r \in results' : Granted(r)'
  BY <1>9, <1>10 DEF EvaluatorInv, Granted
<1> QED BY <1>9, <1>11 DEF EvaluatorInv

-----------------------------------------------------------------------------
(* Settle.                                                                  *)

\* A result that continues the chain was approved on the chain.
LEMMA SettledContinues ==
    ASSUME SnapshotsAreNamed, EvaluatorInv, NEW result \in results, ContinuesChain(result)
    PROVE  /\ result.replayed = chain
           /\ Continues(policy, chain, ResultEntry(result))
           /\ result.accountedAt <= now
<1>1. PICK s : /\ EvaluatePolicy(policy, result.request, s) = "OK"
               /\ s.now = result.accountedAt /\ s.history = result.replayed
               /\ s.ftso = result.ftso /\ s.fdc = result.fdc
  BY DEF EvaluatorInv, Granted
<1>2. PICK e : e = ResultEntry(result)
  OBVIOUS
<1>3. /\ e.request = result.request /\ e.ftso = s.ftso /\ e.fdc = s.fdc
      /\ e.accountedAt = s.now /\ IsEntry(e)
      /\ IsHistory(s.history) /\ result.accountedAt <= now /\ result.request.amount \in Nat
  <2>1. result.request.amount \in Nat
    BY EvaluatorAssumption DEF EvaluatorInv, Granted
  <2> QED BY <1>1, <1>2, <2>1 DEF ResultEntry, EvaluatorInv, Granted
<1>4. policy.requireFTSO \in BOOLEAN /\ policy.requireFDC \in BOOLEAN
  BY DEF EvaluatorInv, PolicyTyped
<1>5. DOMAIN s.history \in SUBSET Nat
  BY <1>3, HistoryIs
<1>6. /\ WellApproved(policy, result.request, s.now)
      /\ Backed(policy, e)
      /\ Replays(policy, s.history, s.now)
      /\ result.request.spendCheckpoint = CheckpointOf(s.history)
      /\ result.request.occurrence = Len(s.history) + 1
      /\ ~ OutsideSchedule(policy, result.request, s.now)
      /\ ~ CoolingDown(policy, LastAccountingAt(s.history), s.now)
      /\ ~ OverCap(policy, EntryValue(policy, e).value,
             [dailySpend |-> SumFunctionOnSet(ValueOf(policy, s.history), DayOf(s.history, s.now)),
              rollingSpend |-> SumFunctionOnSet(ValueOf(policy, s.history),
                                                WindowOf(policy, s.history, s.now))])
  BY <1>1, <1>3, <1>4, <1>5, ApprovalMeans
<1>7. CheckpointOf(s.history) = CheckpointOf(chain) /\ result.accountedAt >= LastAccountingAt(chain)
  BY <1>6 DEF ContinuesChain
<1>8. s.history = chain
  BY <1>3, <1>4, <1>6, <1>7, CheckpointNamesHistory DEF EvaluatorInv
<1>9. Continues(policy, chain, e)
  BY <1>1, <1>3, <1>6, <1>7, <1>8 DEF Continues
<1> QED BY <1>1, <1>2, <1>3, <1>8, <1>9

LEMMA SettleStep ==
    ASSUME SnapshotsAreNamed, EvaluatorInv, SettleNext
    PROVE  EvaluatorInv'
<1>1. PICK result \in results : Settle(result)
  BY DEF SettleNext
<1>2. PICK e : e = ResultEntry(result)
  OBVIOUS
<1>3. /\ ContinuesChain(result) /\ Unexecuted(result)
      /\ chain' = Append(chain, e) /\ results' = results \ {result}
      /\ UNCHANGED <<policy, now>>
  BY <1>1, <1>2 DEF Settle, ResultEntry
<1>4. Continues(policy, chain, e) /\ e.accountedAt <= now /\ e.request = result.request
  BY <1>2, <1>3, SettledContinues DEF ResultEntry
<1>5. now \in Nat /\ IsEntry(e)
  BY <1>4 DEF EvaluatorInv, Continues
<1>6. IsHistory(Append(chain, e))
  BY <1>5, Longer DEF EvaluatorInv
<1>7. Replays(policy, Append(chain, e), now)
  BY <1>4, <1>5, ReplaysAfter DEF EvaluatorInv
<1>8. Cooled(policy, Append(chain, e)) /\ Slotted(policy, Append(chain, e))
  BY <1>4, CooledAfter, SlottedAfter DEF EvaluatorInv
<1>9. CapsKept(policy, Append(chain, e))
  BY <1>4, FeedsAreTyped, CapsKeptAfter DEF EvaluatorInv
<1>12. Asked(policy, Append(chain, e))
  <2>1. e.request.amount \in Amounts[policy]
    BY <1>1, <1>4 DEF EvaluatorInv, Granted
  <2> QED BY <1>4, <2>1, FeedsAreTyped, AskedAfter DEF EvaluatorInv
<1>10. DistinctRequests(Append(chain, e))
  <2>1. /\ DOMAIN Append(chain, e) = DOMAIN chain \cup {Len(chain) + 1}
        /\ Append(chain, e)[Len(chain) + 1] = e
        /\ \A i \in DOMAIN chain : Append(chain, e)[i] = chain[i]
    BY <1>5, Longer DEF EvaluatorInv
  <2>2. \A i \in DOMAIN chain : chain[i].request.requestId # e.request.requestId
    BY <1>3, <1>4 DEF Unexecuted
  <2> QED BY <2>1, <2>2 DEF EvaluatorInv, DistinctRequests
<1>11. \A r \in results' : Granted(r)'
  BY <1>3 DEF EvaluatorInv, Granted
<1> QED BY <1>3, <1>6, <1>7, <1>8, <1>9, <1>10, <1>11, <1>12 DEF EvaluatorInv

LEMMA EvaluatorNext ==
    ASSUME SnapshotsAreNamed, EvaluatorInv, [Next]_vars
    PROVE  EvaluatorInv'
<1>1. CASE AbandonNext \/ UNCHANGED vars
  <2>1. UNCHANGED <<policy, now, chain>> /\ results' \subseteq results
    BY <1>1 DEF AbandonNext, Abandon, vars
  <2>2. \A r \in results' : Granted(r)'
    BY <2>1 DEF EvaluatorInv, Granted
  <2> QED BY <2>1, <2>2 DEF EvaluatorInv
<1> QED BY <1>1, TickStep, EvaluateKeeps, SettleStep DEF Next

\* The chain's payments are counted by the properties as by the evaluator.
LEMMA SpentIsSpent ==
    ASSUME EvaluatorInv, NEW first, NEW last
    PROVE  SpentIn(first, last) = Spent(policy, chain, first, last)
<1> DEFINE worth == [i \in DOMAIN chain |-> WorthOf(chain[i])]
           S == Between(chain, first, last)
<1>1. FeedsTyped /\ PolicyTyped(policy) /\ IsHistory(chain) /\ Replays(policy, chain, now)
  BY FeedsAreTyped DEF EvaluatorInv
<1>2. ASSUME NEW i \in DOMAIN chain PROVE worth[i] = ValueOf(policy, chain)[i]
  <2>1. PICK e : e = chain[i]
    OBVIOUS
  <2>2. IsEntry(e) /\ Backed(policy, e) /\ e.request.amount \in 1..MaxUint
    BY <1>1, <2>1 DEF IsHistory, Replays, Canonical
  <2>3. policy.requireFTSO => e.ftso.value \in Nat /\ e.ftso.scale \in Nat \ {0}
    <3>1. policy.requireFTSO => e.ftso # NoSnapshot
      BY <2>2 DEF Backed, EntryValue, ftsoReferenceValue
    <3> QED BY <1>1, <2>2, <3>1 DEF IsEntry, FeedsTyped
  <2>4. WorthOf(e) = EntryValue(policy, e).value
    BY <2>2, <2>3, WorthIsValue DEF Backed
  <2> QED BY <2>1, <2>4 DEF ValueOf
<1>3. IsFiniteSet(S) /\ S \subseteq DOMAIN chain
  BY <1>1, HistoryIs, FS_Subset DEF Between
<1>4. IntegersOn(ValueOf(policy, chain), S)
  <2>1. IntegersOn(ValueOf(policy, chain), DOMAIN chain)
    BY <1>1, ValuesAreNumbers
  <2> QED BY <1>3, <2>1 DEF IntegersOn
<1> HIDE DEF worth
<1>5. AgreeOn(worth, ValueOf(policy, chain), S)
  BY <1>2, <1>3 DEF AgreeOn
<1>6. SumFunctionOnSet(worth, S) = SumFunctionOnSet(ValueOf(policy, chain), S)
  <2> HIDE DEF S
  <2> QED BY <1>3, <1>4, <1>5, SumSame
<1> QED BY <1>6 DEF SpentIn, Spent, Between, worth, S

\* The properties follow from the invariant.
LEMMA CapsFollow == EvaluatorInv => CapsHold
<1> SUFFICES ASSUME EvaluatorInv, NEW t \in 0..now
             PROVE  /\ policy.dailyCap # 0 =>
                         SpentIn(dayStart(t), dayStart(t) + DaySeconds - 1) <= policy.dailyCap
                    /\ policy.rollingCap # 0 =>
                         SpentIn(t - policy.rollingWindow + 1, t) <= policy.rollingCap
  BY DEF CapsHold
<1>1. t \in Nat /\ CapsKept(policy, chain)
  BY DEF EvaluatorInv
<1>2. \A first, last : SpentIn(first, last) = Spent(policy, chain, first, last)
  BY SpentIsSpent
<1> QED BY <1>1, <1>2 DEF CapsKept

\* A time within the window of an occurrence.
InWindow(startAt, interval, grace, k, t) ==
    LET w == scheduleWindow(startAt, interval, grace, k) IN
    w # Refused /\ t \in w.slot..w.deadline

\* A later slot of a schedule is past every earlier window.
LEMMA SlotsApart ==
    ASSUME NEW startAt \in 0..MaxTime, NEW interval \in Nat, NEW grace \in Nat,
           NEW i \in Nat \ {0}, NEW j \in Nat, i < j, NEW a \in Nat, NEW b \in Nat,
           InWindow(startAt, interval, grace, i, a), InWindow(startAt, interval, grace, j, b)
    PROVE  \E slot \in 0..b : a < slot /\ (slot - startAt) % interval = 0
<1> DEFINE early == startAt + (i - 1) * interval
           slot == startAt + (j - 1) * interval
<1>1. /\ scheduleWindow(startAt, interval, grace, i) = [slot |-> early, deadline |-> early + grace]
      /\ scheduleWindow(startAt, interval, grace, j) = [slot |-> slot, deadline |-> slot + grace]
      /\ interval # 0 /\ grace < interval
  BY DEF scheduleWindow, ValidTerms, InWindow
<1>2. a <= early + grace /\ b >= slot
  BY <1>1 DEF InWindow
<1>3. /\ (i - 1) * interval \in Nat /\ (j - 1) * interval \in Nat
      /\ (j - 1) * interval >= (i - 1) * interval + interval
  <2>1. PICK d \in Nat : j - 1 = i - 1 + 1 + d
    <3>1. j - i - 1 \in Nat
      OBVIOUS
    <3> QED BY <3>1
  <2>2. PICK m \in Nat : m = i - 1
    OBVIOUS
  <2>3. (m + 1 + d) * interval = m * interval + interval + d * interval
        /\ m * interval \in Nat /\ d * interval \in Nat
    OBVIOUS
  <2> QED BY <2>1, <2>2, <2>3
<1>4. ((j - 1) * interval) % interval = 0
  <2>1. PICK m, q, r : m = j - 1 /\ q = (m * interval) \div interval /\ r = (m * interval) % interval
    OBVIOUS
  <2>2. m \in Nat /\ m * interval \in Nat /\ interval \in Nat \ {0}
    BY <1>1, <2>1
  <2>3. q \in Nat /\ r \in 0..(interval - 1) /\ m * interval = interval * q + r
    BY <2>1, <2>2
  <2>4. CASE q < m
    <3>1. PICK d \in Nat : m = q + 1 + d
      <4>1. m - q - 1 \in Nat
        BY <2>2, <2>3, <2>4
      <4> QED BY <4>1, <2>2, <2>3
    <3>2. (q + 1 + d) * interval = interval * q + interval + d * interval /\ d * interval \in Nat
          /\ interval * q \in Nat
      BY <2>3
    <3> QED BY <2>2, <2>3, <3>1, <3>2
  <2>5. CASE q > m
    <3>1. PICK d \in Nat : q = m + 1 + d
      <4>1. q - m - 1 \in Nat
        BY <2>2, <2>3, <2>5
      <4> QED BY <4>1, <2>2, <2>3
    <3>2. interval * (m + 1 + d) = m * interval + interval + interval * d /\ interval * d \in Nat
      BY <2>2
    <3> QED BY <2>2, <2>3, <3>1, <3>2
  <2>6. CASE q = m
    <3>1. interval * q = m * interval
      BY <2>2, <2>6
    <3> QED BY <2>1, <2>2, <2>3, <3>1
  <2> QED BY <2>2, <2>3, <2>4, <2>5, <2>6
<1>5. startAt \in Nat
  BY WidthAssumption
<1>6. a < slot /\ slot \in 0..b /\ slot - startAt = (j - 1) * interval
  BY <1>1, <1>2, <1>3, <1>5
<1> HIDE DEF slot
<1> QED BY <1>4, <1>6

LEMMA SpacingFollows == EvaluatorInv => SpacingKept
<1> SUFFICES ASSUME EvaluatorInv, NEW i \in DOMAIN chain, NEW j \in DOMAIN chain, i < j
             PROVE  /\ chain[j].accountedAt >= chain[i].accountedAt + policy.cooldown
                    /\ policy.interval # 0 =>
                         \E slot \in 0..Horizon[policy] :
                            /\ chain[i].accountedAt < slot /\ slot <= chain[j].accountedAt
                            /\ (slot - policy.startAt) % policy.interval = 0
  BY DEF SpacingKept
<1>1. chain[j].accountedAt >= chain[i].accountedAt + policy.cooldown
  BY DEF EvaluatorInv, Cooled
<1>2. ASSUME policy.interval # 0
      PROVE  \E slot \in 0..Horizon[policy] :
                /\ chain[i].accountedAt < slot /\ slot <= chain[j].accountedAt
                /\ (slot - policy.startAt) % policy.interval = 0
  <2>1. PICK a, b, startAt, interval, grace :
          /\ a = chain[i].accountedAt /\ b = chain[j].accountedAt
          /\ startAt = policy.startAt /\ interval = policy.interval /\ grace = policy.grace
    OBVIOUS
  <2>2. InWindow(startAt, interval, grace, i, a) /\ InWindow(startAt, interval, grace, j, b)
    BY <1>2, <2>1 DEF EvaluatorInv, Slotted, InSlot, InWindow
  <2>3. /\ startAt \in 0..MaxTime /\ interval \in Nat /\ grace \in Nat
        /\ i \in Nat \ {0} /\ j \in Nat /\ a \in Nat /\ b \in Nat
    <3>1. startAt \in 0..MaxTime /\ interval \in 0..MaxTime /\ grace \in 0..MaxTime
      BY <2>1 DEF EvaluatorInv, PolicyTyped
    <3>2. DOMAIN chain = 1..Len(chain) /\ Len(chain) \in Nat
      BY HistoryIs DEF EvaluatorInv
    <3>3. a \in Nat /\ b \in Nat
      BY <2>1 DEF EvaluatorInv, IsHistory, IsEntry
    <3> QED BY <3>1, <3>2, <3>3, WidthAssumption
  <2>4. b <= Horizon[policy] /\ Horizon[policy] \in Nat
    <3>1. b <= now
      BY <2>1 DEF EvaluatorInv, Replays, Canonical
    <3>2. now \in 1..Horizon[policy] /\ policy \in Policies
      BY DEF EvaluatorInv
    <3>3. Horizon[policy] \in Nat
      BY <3>2, EvaluatorAssumption
    <3>4. PICK top : top = Horizon[policy]
      OBVIOUS
    <3>5. top \in Nat /\ now \in 1..top /\ b \in Nat
      BY <2>3, <3>2, <3>3, <3>4
    <3>6. b <= top
      BY <3>1, <3>5
    <3> QED BY <3>4, <3>5, <3>6
  <2>5. PICK slot \in 0..b : a < slot /\ (slot - startAt) % interval = 0
    BY <2>2, <2>3, SlotsApart
  <2>6. slot \in 0..Horizon[policy] /\ slot <= b
    BY <2>3, <2>4, <2>5
  <2> QED BY <2>1, <2>5, <2>6
<1> QED BY <1>1, <1>2

LEMMA PaymentsFollow == EvaluatorInv => PaymentsBackOnce
<1> SUFFICES ASSUME EvaluatorInv, policy.requireFDC,
                    NEW i \in DOMAIN chain, NEW j \in DOMAIN chain
             PROVE  /\ chain[i].fdc = chain[j].fdc => i = j
                    /\ chain[i].accountedAt - chain[i].fdc.timestamp \in 0..policy.maxFDCAge
  BY DEF PaymentsBackOnce
<1>1. \A k \in DOMAIN chain : validFDCSnapshot(policy, chain[k].request, chain[k].fdc, chain[k].accountedAt)
  BY DEF EvaluatorInv, Replays, Backed
<1>2. chain[i].fdc = chain[j].fdc => chain[i].request.requestId = chain[j].request.requestId
  BY <1>1 DEF validFDCSnapshot
<1>3. PICK at, payment : at = chain[i].accountedAt /\ payment = chain[i].fdc
  OBVIOUS
<1>4. at \in Nat /\ payment \in Payments /\ policy.maxFDCAge \in Nat
  <2>1. IsEntry(chain[i]) /\ chain[i].fdc # NoSnapshot
    <3>1. IsEntry(chain[i])
      BY DEF EvaluatorInv, IsHistory
    <3>2. chain[i].fdc # NoSnapshot
      BY <1>1 DEF validFDCSnapshot
    <3> QED BY <3>1, <3>2
  <2>2. payment \in Payments /\ at \in Nat
    BY <1>3, <2>1 DEF IsEntry
  <2>3. policy.maxFDCAge \in Nat
    BY DEF EvaluatorInv, PolicyTyped
  <2> QED BY <2>2, <2>3
<1>5. at - payment.timestamp \in 0..policy.maxFDCAge
  BY <1>1, <1>3, <1>4, EvaluatorAssumption DEF validFDCSnapshot
<1> QED BY <1>2, <1>3, <1>5 DEF EvaluatorInv, DistinctRequests

LEMMA CanonicalFollows == SnapshotsAreNamed /\ EvaluatorInv => ReplayedWasCanonical
BY SettledContinues DEF ReplayedWasCanonical

LEMMA EvaluatorHolds == ASSUME SnapshotsAreNamed PROVE Spec => []EvaluatorInv
<1>1. Init => EvaluatorInv
  BY EvaluatorInit
<1>2. EvaluatorInv /\ [Next]_vars => EvaluatorInv'
  BY EvaluatorNext
<1> QED BY <1>1, <1>2, PTL DEF Spec

\* A sum of at most n terms, none above most, is at most most times n.
LEMMA SumBounded ==
    ASSUME NEW n \in Nat, NEW most \in Nat, NEW S \in SUBSET (1..n), NEW f,
           \A i \in S : f[i] \in Nat /\ f[i] <= most
    PROVE  SumFunctionOnSet(f, S) \in Nat /\ SumFunctionOnSet(f, S) <= most * n
<1> DEFINE Part(k) == S \cap (1..k)
           Holds(k) == /\ SumFunctionOnSet(f, Part(k)) \in Nat
                       /\ SumFunctionOnSet(f, Part(k)) <= most * k
           Bad == {k \in 0..n : ~ Holds(k)}
<1>1. Bad = {}
  <2> SUFFICES ASSUME Bad # {} PROVE FALSE
    OBVIOUS
  <2>1. PICK k \in Bad : \A j \in Bad : k <= j
    <3>1. Bad \in SUBSET Nat
      OBVIOUS
    <3> HIDE DEF Bad
    <3> QED BY <3>1, LeastNumber
  <2>2. k \in 0..n /\ ~ Holds(k)
    OBVIOUS
  <2>3. CASE k = 0
    <3>1. Part(k) = {} /\ most * k = 0
      BY <2>3
    <3> QED BY <2>2, <3>1, SumEmpty
  <2>4. CASE k # 0
    <3>1. k - 1 \in 0..n /\ k - 1 < k
      BY <2>2, <2>4
    <3>2. Holds(k - 1)
      BY <2>1, <3>1
    <3>3. most * (k - 1) + most = most * k /\ most * (k - 1) \in Nat
      <4>1. PICK j \in Nat : j = k - 1
        BY <3>1
      <4>2. most * (j + 1) = most * j + most /\ most * j \in Nat /\ k = j + 1
        BY <2>2, <4>1
      <4> QED BY <4>1, <4>2
    <3>4. CASE k \notin S
      <4>1. Part(k) = Part(k - 1)
        BY <2>2, <2>4, <3>4
      <4> HIDE DEF Part
      <4> QED BY <2>2, <3>2, <3>3, <4>1
    <3>5. CASE k \in S
      <4>1. Part(k) = Part(k - 1) \cup {k} /\ k \notin Part(k - 1)
        BY <2>2, <2>4, <3>5
      <4>2. IsFiniteSet(Part(k - 1)) /\ IntegersOn(f, Part(k - 1))
        <5>1. IsFiniteSet(1..(k - 1))
          BY <3>1, FS_Interval
        <5>2. Part(k - 1) \subseteq 1..(k - 1)
          OBVIOUS
        <5> QED BY <5>1, <5>2, FS_Subset DEF IntegersOn
      <4>3. f[k] \in Nat /\ f[k] <= most
        BY <3>5
      <4> HIDE DEF Part
      <4>4. SumFunctionOnSet(f, Part(k)) = f[k] + SumFunctionOnSet(f, Part(k - 1))
        BY <4>1, <4>2, <4>3, SumAdd
      <4> QED BY <2>2, <3>2, <3>3, <4>3, <4>4
    <3> QED BY <3>4, <3>5
  <2> QED BY <2>3, <2>4
<1>2. Holds(n)
  <2>1. n \in 0..n
    OBVIOUS
  <2> HIDE DEF Holds
  <2> QED BY <1>1, <2>1
<1>3. Part(n) = S
  OBVIOUS
<1> QED BY <1>2, <1>3

\* The chain itself replays, while it is not too long to be replayed.
LEMMA ReplayFollows ==
    ASSUME WorthsFit, EvaluatorInv, Len(chain) <= MaxEntries
    PROVE  replaySpendHistory(policy, StateFor(chain, now, NoSnapshot, NoSnapshot)).reason = "OK"
<1> DEFINE window == IF policy.rollingWindow = 0 THEN 1 ELSE policy.rollingWindow
           entries == [i \in DOMAIN chain |-> [value |-> EntryValue(policy, chain[i]).value,
                                               executedAt |-> chain[i].accountedAt]]
           daily == {i \in DOMAIN entries : InDay(entries[i].executedAt, now)}
           rolling == {i \in DOMAIN entries : InRollingWindow(entries[i].executedAt, now, window)}
<1>1. FeedsTyped /\ PolicyTyped(policy) /\ IsHistory(chain) /\ Replays(policy, chain, now)
  BY FeedsAreTyped DEF EvaluatorInv
<1>2. PICK n : n = Len(chain)
  OBVIOUS
<1>3. n \in Nat /\ DOMAIN chain = 1..n /\ n <= MaxEntries
  BY <1>1, <1>2, HistoryIs
<1>4. PICK most \in 0..MaxUint :
        /\ most * MaxEntries <= MaxUint
        /\ \A amount \in Amounts[policy] : \A worth \in Worths(policy, amount) :
             worth <= most \/ OverCap(policy, worth, [dailySpend |-> 0, rollingSpend |-> 0])
  BY DEF WorthsFit, EvaluatorInv
<1>5. ASSUME NEW i \in DOMAIN chain
      PROVE  /\ ValueOf(policy, chain)[i] \in 1..MaxUint /\ ValueOf(policy, chain)[i] <= most
             /\ chain[i].accountedAt \in Nat /\ chain[i].accountedAt <= now
  <2>1. PICK e : e = chain[i]
    OBVIOUS
  <2>2. /\ IsEntry(e) /\ Backed(policy, e) /\ e.request.amount \in 1..MaxUint
        /\ e.request.amount \in Amounts[policy]
        /\ e.accountedAt <= now
        /\ ~ OverCap(policy, EntryValue(policy, e).value, [dailySpend |-> 0, rollingSpend |-> 0])
    BY <1>1, <2>1 DEF IsHistory, Replays, Canonical, EvaluatorInv, Asked
  <2>3. policy.requireFTSO => e.ftso # NoSnapshot /\ e.ftso \in Feeds
    BY <2>2 DEF Backed, EntryValue, ftsoReferenceValue, IsEntry
  <2>4. EntryValue(policy, e).value \in 1..MaxUint
    <3>1. policy.requireFTSO => e.ftso.value \in Nat /\ e.ftso.scale \in Nat \ {0}
      BY <1>1, <2>3 DEF FeedsTyped
    <3>2. EntryValue(policy, e) # Refused
      BY <2>2 DEF Backed
    <3>3. WorthOf(e) = EntryValue(policy, e).value /\ WorthOf(e) \in 1..MaxUint
      BY <2>2, <3>1, <3>2, WorthIsValue
    <3> QED BY <3>3
  <2>5. EntryValue(policy, e).value \in Worths(policy, e.request.amount)
    <3>1. CASE policy.requireFTSO
      <4>1. EntryValue(policy, e) = referenceValue(e.request.amount, e.ftso.value, e.ftso.scale)
            /\ EntryValue(policy, e) # Refused
        BY <2>2, <3>1 DEF Backed, EntryValue, ftsoReferenceValue
      <4> QED BY <2>3, <3>1, <4>1 DEF Worths
    <3>2. CASE ~ policy.requireFTSO
      BY <3>2 DEF Worths, EntryValue
    <3> QED BY <3>1, <3>2
  <2>6. EntryValue(policy, e).value <= most
    BY <1>4, <2>2, <2>5
  <2> QED BY <2>1, <2>2, <2>4, <2>6 DEF ValueOf, IsEntry
<1>6. /\ DOMAIN entries = DOMAIN chain /\ Len(entries) = n
      /\ [i \in DOMAIN entries |-> entries[i].value] = ValueOf(policy, chain)
      /\ \A i \in DOMAIN chain : entries[i].value = ValueOf(policy, chain)[i]
                                 /\ entries[i].executedAt = chain[i].accountedAt
  BY <1>3 DEF ValueOf
<1>7. OrderedHistory(entries, now)
  <2>1. ASSUME NEW i \in DOMAIN chain, i > 1
        PROVE  chain[i].accountedAt >= chain[i - 1].accountedAt
    <3>1. i - 1 \in DOMAIN chain /\ i - 1 < i
      BY <1>3, <2>1
    <3>2. chain[i].accountedAt >= chain[i - 1].accountedAt + policy.cooldown
      BY <3>1 DEF EvaluatorInv, Cooled
    <3>3. policy.cooldown \in Nat /\ chain[i].accountedAt \in Nat /\ chain[i - 1].accountedAt \in Nat
      BY <1>1, <1>5, <3>1, WidthAssumption DEF PolicyTyped
    <3> QED BY <3>2, <3>3
  <2>2. \A i \in DOMAIN chain : i > 1 => i - 1 \in DOMAIN chain
    BY <1>3
  <2> HIDE DEF entries
  <2> QED BY <1>3, <1>5, <1>6, <2>1, <2>2 DEF OrderedHistory
<1>8. ASSUME NEW S \in SUBSET DOMAIN chain PROVE ~ (SumWhere(entries, S) > MaxUint)
  <2>1. SumFunctionOnSet(ValueOf(policy, chain), S) \in Nat
        /\ SumFunctionOnSet(ValueOf(policy, chain), S) <= most * n
    <3>1. \A i \in S : ValueOf(policy, chain)[i] \in Nat /\ ValueOf(policy, chain)[i] <= most
      BY <1>5, WidthAssumption
    <3>2. most \in Nat
      BY WidthAssumption
    <3> QED BY <1>3, <3>1, <3>2, SumBounded
  <2>2. most * n <= most * MaxEntries
    <3>1. PICK d \in Nat : MaxEntries = n + d
      <4>1. MaxEntries - n \in Nat
        BY <1>3, WidthAssumption
      <4> QED BY <1>3, <4>1, WidthAssumption
    <3>2. most * (n + d) = most * n + most * d /\ most * d \in Nat /\ most * n \in Nat
      BY <1>3, WidthAssumption
    <3> QED BY <3>1, <3>2
  <2>3. most * n \in Nat /\ most * MaxEntries \in Nat
    BY <1>3, WidthAssumption
  <2> HIDE DEF entries
  <2>4. SumWhere(entries, S) = SumFunctionOnSet(ValueOf(policy, chain), S)
    BY <1>6 DEF SumWhere
  <2>5. PICK sum, product, all : /\ sum = SumFunctionOnSet(ValueOf(policy, chain), S)
                                 /\ product = most * n /\ all = most * MaxEntries
    OBVIOUS
  <2>6. sum \in Nat /\ product \in Nat /\ all \in Nat /\ sum <= product /\ product <= all /\ all <= MaxUint
    BY <1>4, <2>1, <2>2, <2>3, <2>5
  <2>7. ~ (sum > MaxUint)
    BY <2>6, WidthAssumption
  <2> QED BY <2>4, <2>5, <2>7
<1>9. daily \in SUBSET DOMAIN chain /\ rolling \in SUBSET DOMAIN chain
  BY <1>6
<1>10. window # 0
  OBVIOUS
<1>11. spendWindowTotals(entries, now, window) # Refused
  <2> HIDE DEF entries, window
  <2>1. spendWindowTotals(entries, now, window)
          = [dailySpend |-> SumWhere(entries, daily), rollingSpend |-> SumWhere(entries, rolling)]
    BY <1>7, <1>8, <1>9, <1>10 DEF spendWindowTotals
  <2> QED BY <2>1 DEF Refused
<1>12. {i \in DOMAIN chain : EntryReason(policy, chain, i, now) # "OK"} = {}
  BY <1>1, EntryMeans DEF Replays
<1>13. PICK s : s = StateFor(chain, now, NoSnapshot, NoSnapshot)
  OBVIOUS
<1>14. /\ s.history = chain /\ s.now = now /\ s.occurrenceCount = Len(chain)
       /\ s.lastAccountingAt = LastAccountingAt(chain) /\ s.spendCheckpoint = CheckpointOf(chain)
  BY <1>13 DEF StateFor
<1> DEFINE Totals == spendWindowTotals(entries, now, window)
<1>15. replaySpendHistory(policy, s) = [reason |-> "OK", dailySpend |-> Totals.dailySpend,
                                        rollingSpend |-> Totals.rollingSpend]
  <2>1. ~ (Len(chain) > MaxEntries)
    BY <1>2, <1>3, WidthAssumption
  <2> QED BY <1>11, <1>12, <1>14, <2>1 DEF replaySpendHistory
<1> QED BY <1>13, <1>15

LEMMA TypeFollows == EvaluatorInv => TypeOK
<1> SUFFICES ASSUME EvaluatorInv PROVE TypeOK
  OBVIOUS
<1>1. ASSUME NEW i \in DOMAIN chain
      PROVE  /\ chain[i].accountedAt \in chain[i].request.createdAt..chain[i].request.expiry
             /\ chain[i].accountedAt <= now
             /\ chain[i].request.occurrence = i
  <2>1. chain[i].accountedAt \in Nat
    BY DEF EvaluatorInv, IsHistory, IsEntry
  <2> QED BY <2>1 DEF EvaluatorInv, Replays, Canonical
<1> QED BY <1>1 DEF TypeOK, EvaluatorInv, Granted

-----------------------------------------------------------------------------
(* The evaluator's properties, where an identifier names one snapshot.      *)

\* Whatever histories, snapshots and results callers mix, and however calls and
\* settlements overlap, what the chain has settled keeps every daily and rolling
\* cap at every moment, the cooldown, and one payment a slot (evaluator.ts
\* evaluatePolicy, replaySpendHistory).
THEOREM LimitsAlwaysHold == ASSUME SnapshotsAreNamed PROVE Spec => []LimitsHold
<1>1. EvaluatorInv => LimitsHold
  BY CapsFollow, SpacingFollows DEF LimitsHold
<1> QED BY <1>1, EvaluatorHolds, PTL

\* A result that settles was computed on the history of the chain, whatever
\* history its caller presented: the spend checkpoint names one history.  It
\* does not where two snapshots share an identifier (MCSpendDrift).
THEOREM OnlyTheTrueHistorySettles ==
    ASSUME SnapshotsAreNamed PROVE Spec => [](TypeOK /\ ReplayedWasCanonical)
<1>1. EvaluatorInv => TypeOK /\ ReplayedWasCanonical
  BY TypeFollows, CanonicalFollows
<1> QED BY <1>1, EvaluatorHolds, PTL

\* No external payment backs two settled requests (evaluator.ts
\* validFDCSnapshot), although each evaluation sees only its own snapshot.
THEOREM PaymentsBackOneRequest == ASSUME SnapshotsAreNamed PROVE Spec => []PaymentsBackOnce
<1>1. EvaluatorInv => PaymentsBackOnce
  BY PaymentsFollow
<1> QED BY <1>1, EvaluatorHolds, PTL

\* The history the chain has settled is one the evaluator accepts when it is
\* given back: nothing it approved makes the policy unusable, while what the
\* longest history can spend fits the width.
THEOREM OwnHistoryReplays == ASSUME SnapshotsAreNamed, WorthsFit PROVE Spec => []ReplayAccepts
<1>1. EvaluatorInv => ReplayAccepts
  BY ReplayFollows DEF ReplayAccepts
<1> QED BY <1>1, EvaluatorHolds, PTL

-----------------------------------------------------------------------------
(* The funding job.                                                         *)

JobFields == {"operation", "operationHash", "expectedPayment", "expectedPaymentHash", "state",
              "requested", "proofCommitment", "executionAllowedAt", "mint", "checkpointHash"}

\* What a job that says it was minted names was minted for its operation.
MintIsTrue(job) ==
    job.state = "DIRECT_MINTED" =>
      /\ job.mint \in Payment
      /\ minted[job.mint] = job.operationHash /\ minted[job.mint] # Nothing

\* The inductive invariant of the funding job.
FundingInv ==
    /\ DOMAIN minted = Payment /\ DOMAIN calls = Call
    /\ \A job \in jobs : DOMAIN job = JobFields /\ MintIsTrue(job)
    /\ \A c \in Call : calls[c].at \in {"verifying", "minting"} =>
         /\ DOMAIN calls[c] = {"at", "job", "proof", "answer"}
         /\ DOMAIN calls[c].job = JobFields

\* A job that does not say it was minted is returned.
LEMMA OtherReturned ==
    ASSUME FundingInv, NEW job, DOMAIN job = JobFields, job.state # "DIRECT_MINTED",
           Returned(job), UNCHANGED minted
    PROVE  \A j \in jobs' : DOMAIN j = JobFields /\ MintIsTrue(j)'
<1>1. PICK r : r = checkpointFundingJob(job)
  OBVIOUS
<1>2. DOMAIN r = JobFields /\ r.state = job.state
  BY <1>1 DEF checkpointFundingJob, JobFields
<1>3. jobs' = jobs \cup {r}
  BY <1>1 DEF Returned
<1> QED BY <1>2, <1>3 DEF FundingInv, MintIsTrue

\* A checkpoint returned at once.
LEMMA SynchronousStep ==
    ASSUME FundingInv, NEW job, DOMAIN job = JobFields, job.state # "DIRECT_MINTED",
           Returned(job), Synchronous
    PROVE  FundingInv'
<1>1. UNCHANGED <<calls, minted>>
  BY DEF Synchronous
<1>2. \A j \in jobs' : DOMAIN j = JobFields /\ MintIsTrue(j)'
  BY <1>1, OtherReturned
<1> QED BY <1>1, <1>2 DEF FundingInv

LEMMA KeeperStep ==
    ASSUME FundingInv, KeeperNext
    PROVE  FundingInv'
<1>1. ASSUME NEW o \in Operation, NEW p \in Payment, createFundingJob(o, p)
      PROVE  FundingInv'
  <2>1. PICK job : job = [operation |-> o, operationHash |-> o,
               expectedPayment |-> p, expectedPaymentHash |-> p,
               state |-> "CREATED", requested |-> FALSE, proofCommitment |-> Nothing,
               executionAllowedAt |-> NoTime, mint |-> Nothing, checkpointHash |-> Nothing]
    OBVIOUS
  <2>2. DOMAIN job = JobFields /\ job.state # "DIRECT_MINTED"
    BY <2>1 DEF JobFields
  <2> QED BY <1>1, <2>1, <2>2, SynchronousStep DEF createFundingJob
<1>2. ASSUME NEW job \in jobs, NEW p \in Payment, observeXrplPayment(job, p)
      PROVE  FundingInv'
  <2>1. PICK next : next = [job EXCEPT !.state = "PAYMENT_OBSERVED"]
    OBVIOUS
  <2>2. DOMAIN next = JobFields /\ next.state # "DIRECT_MINTED"
    BY <2>1 DEF JobFields, FundingInv
  <2> QED BY <1>2, <2>1, <2>2, SynchronousStep DEF observeXrplPayment
<1>3. ASSUME NEW job \in jobs, markFdcRequested(job)
      PROVE  FundingInv'
  <2>1. PICK next : next = [job EXCEPT !.state = "FDC_REQUESTED", !.requested = TRUE]
    OBVIOUS
  <2>2. DOMAIN next = JobFields /\ next.state # "DIRECT_MINTED"
    BY <2>1 DEF JobFields, FundingInv
  <2> QED BY <1>3, <2>1, <2>2, SynchronousStep DEF markFdcRequested
<1>4. ASSUME NEW job \in jobs, resumeDelayed(job, clock)
      PROVE  FundingInv'
  <2>1. PICK next : next = [job EXCEPT !.state = "PROOF_READY", !.executionAllowedAt = NoTime]
    OBVIOUS
  <2>2. DOMAIN next = JobFields /\ next.state # "DIRECT_MINTED"
    BY <2>1 DEF JobFields, FundingInv
  <2> QED BY <1>4, <2>1, <2>2, SynchronousStep DEF resumeDelayed
<1>5. ASSUME NEW job \in jobs, NEW c \in Call, NEW proof \in FundingProof,
             AcceptFdcProof(c, job, proof) \/ ExecuteDirectMint(c, job, proof)
      PROVE  FundingInv'
  <2>1. PICK place \in {"verifying", "minting"} : Await(c, place, job, proof) /\ UNCHANGED <<jobs, minted>>
    BY <1>5 DEF AcceptFdcProof, ExecuteDirectMint
  <2>2. PICK call : call = [at |-> place, job |-> job, proof |-> proof, answer |-> Nothing]
    OBVIOUS
  <2>3. calls' = [calls EXCEPT ![c] = call]
    BY <2>1, <2>2 DEF Await
  <2>4. DOMAIN call = {"at", "job", "proof", "answer"} /\ DOMAIN call.job = JobFields
    BY <2>2 DEF FundingInv
  <2>5. \A d \in Call : calls'[d] = IF d = c THEN call ELSE calls[d]
    BY <2>3 DEF FundingInv
  <2>6. DOMAIN calls' = Call
    BY <2>3 DEF FundingInv
  <2> QED BY <2>1, <2>4, <2>5, <2>6 DEF FundingInv, MintIsTrue
<1> QED BY <1>1, <1>2, <1>3, <1>4, <1>5 DEF KeeperNext

\* A call is over.
LEMMA CallsAfter ==
    ASSUME FundingInv, NEW c \in Call, Ends(c)
    PROVE  /\ DOMAIN calls' = Call
           /\ \A d \in Call : calls'[d].at \in {"verifying", "minting"} =>
                /\ DOMAIN calls'[d] = {"at", "job", "proof", "answer"}
                /\ DOMAIN calls'[d].job = JobFields
<1>1. PICK over : over = [at |-> "over"]
  OBVIOUS
<1>2. calls' = [calls EXCEPT ![c] = over] /\ over.at = "over"
  BY <1>1 DEF Ends
<1>3. \A d \in Call : calls'[d] = IF d = c THEN over ELSE calls[d]
  BY <1>2 DEF FundingInv
<1>4. DOMAIN calls' = Call
  BY <1>2 DEF FundingInv
<1> QED BY <1>2, <1>3, <1>4 DEF FundingInv

\* What an asynchronous call does when it is answered.
LEMMA AnswerFundingStep ==
    ASSUME FundingInv, NEW c \in Call,
           \/ Verified(c) \/ Minting(c) \/ Delayed(c) \/ CallFails(c) \/ Mutate(c)
           \/ \E receipt \in Receipts : DirectMinted(c, receipt)
    PROVE  FundingInv'
<1>1. CASE Verified(c)
  <2>1. PICK job, next : job = calls[c].job
          /\ next = [job EXCEPT !.state = "PROOF_READY", !.proofCommitment = calls[c].proof.commitment]
    OBVIOUS
  <2>2. Returned(next) /\ Ends(c) /\ UNCHANGED minted /\ calls[c].at = "verifying"
    BY <1>1, <2>1 DEF Verified
  <2>3. DOMAIN next = JobFields /\ next.state # "DIRECT_MINTED"
    BY <2>1, <2>2 DEF FundingInv, JobFields
  <2>4. \A j \in jobs' : DOMAIN j = JobFields /\ MintIsTrue(j)'
    BY <2>2, <2>3, OtherReturned
  <2> QED BY <2>2, <2>4, CallsAfter DEF FundingInv
<1>2. CASE Delayed(c)
  <2>1. PICK job, next : job = calls[c].job
          /\ next = [job EXCEPT !.state = "DELAYED", !.executionAllowedAt = delayed[calls[c].proof.payment]]
    OBVIOUS
  <2>2. Returned(next) /\ Ends(c) /\ UNCHANGED minted /\ calls[c].at = "minting"
    BY <1>2, <2>1 DEF Delayed
  <2>3. DOMAIN next = JobFields /\ next.state # "DIRECT_MINTED"
    BY <2>1, <2>2 DEF FundingInv, JobFields
  <2>4. \A j \in jobs' : DOMAIN j = JobFields /\ MintIsTrue(j)'
    BY <2>2, <2>3, OtherReturned
  <2> QED BY <2>2, <2>4, CallsAfter DEF FundingInv
<1>3. CASE CallFails(c)
  <2>1. Ends(c) /\ UNCHANGED <<jobs, minted>>
    BY <1>3 DEF CallFails
  <2> QED BY <2>1, CallsAfter DEF FundingInv, MintIsTrue
<1>4. CASE Mutate(c)
  <2>1. /\ calls[c].at \in {"verifying", "minting"} /\ UNCHANGED <<jobs, minted>>
        /\ \/ \E o \in Operation : calls' = [calls EXCEPT ![c].job.operation = o]
           \/ \E p \in Payment : calls' = [calls EXCEPT ![c].job.expectedPayment = p]
    BY <1>4 DEF Mutate
  <2>2. PICK was, job : was = calls[c] /\ job = was.job
    OBVIOUS
  <2>3. PICK other : /\ DOMAIN other = JobFields
                     /\ calls' = [calls EXCEPT ![c] = [was EXCEPT !.job = other]]
    <3>1. ASSUME NEW o \in Operation, calls' = [calls EXCEPT ![c].job.operation = o]
          PROVE  \E other : /\ DOMAIN other = JobFields
                            /\ calls' = [calls EXCEPT ![c] = [was EXCEPT !.job = other]]
      <4>1. PICK other : other = [job EXCEPT !.operation = o]
        OBVIOUS
      <4>2. DOMAIN other = JobFields
        BY <2>1, <2>2, <4>1 DEF FundingInv
      <4>3. calls' = [calls EXCEPT ![c] = [was EXCEPT !.job = other]]
        BY <2>2, <3>1, <4>1
      <4> QED BY <4>2, <4>3
    <3>2. ASSUME NEW p \in Payment, calls' = [calls EXCEPT ![c].job.expectedPayment = p]
          PROVE  \E other : /\ DOMAIN other = JobFields
                            /\ calls' = [calls EXCEPT ![c] = [was EXCEPT !.job = other]]
      <4>1. PICK other : other = [job EXCEPT !.expectedPayment = p]
        OBVIOUS
      <4>2. DOMAIN other = JobFields
        BY <2>1, <2>2, <4>1 DEF FundingInv
      <4>3. calls' = [calls EXCEPT ![c] = [was EXCEPT !.job = other]]
        BY <2>2, <3>2, <4>1
      <4> QED BY <4>2, <4>3
    <3> QED BY <2>1, <3>1, <3>2
  <2>4. PICK call : call = [was EXCEPT !.job = other]
    OBVIOUS
  <2>5. DOMAIN call = {"at", "job", "proof", "answer"} /\ call.job = other
    BY <2>1, <2>2, <2>4 DEF FundingInv
  <2>6. DOMAIN calls' = Call /\ \A d \in Call : calls'[d] = IF d = c THEN call ELSE calls[d]
    BY <2>3, <2>4 DEF FundingInv
  <2> QED BY <2>1, <2>3, <2>5, <2>6 DEF FundingInv, MintIsTrue
<1>5. CASE Minting(c)
  <2>1. PICK call, p : call = calls[c] /\ p = call.proof.payment
    OBVIOUS
  <2>2. /\ call.at = "minting" /\ minted[p] = Nothing /\ UNCHANGED jobs
        /\ calls' = [calls EXCEPT ![c].answer = "reached"]
        /\ minted' = minted \/ minted' = [minted EXCEPT ![p] = call.job.operation]
    BY <1>5, <2>1 DEF Minting
  <2>3. PICK next : next = [call EXCEPT !.answer = "reached"]
    OBVIOUS
  <2>4. calls' = [calls EXCEPT ![c] = next]
    BY <2>1, <2>2, <2>3
  <2>5. DOMAIN next = {"at", "job", "proof", "answer"} /\ next.job = call.job
    BY <2>1, <2>2, <2>3 DEF FundingInv
  <2>6. DOMAIN calls' = Call /\ \A d \in Call : calls'[d] = IF d = c THEN next ELSE calls[d]
    BY <2>4 DEF FundingInv
  <2>7. \A q \in Payment : minted[q] # Nothing => minted'[q] = minted[q]
    BY <2>2 DEF FundingInv
  <2>8. DOMAIN minted' = Payment
    BY <2>2 DEF FundingInv
  <2>9. \A job \in jobs' : DOMAIN job = JobFields /\ MintIsTrue(job)'
    BY <2>2, <2>7 DEF FundingInv, MintIsTrue
  <2> QED BY <2>1, <2>2, <2>5, <2>6, <2>8, <2>9 DEF FundingInv
<1>6. ASSUME NEW receipt \in Receipts, DirectMinted(c, receipt)
      PROVE  FundingInv'
  <2>1. PICK job, next : job = calls[c].job
          /\ next = [job EXCEPT !.state = "DIRECT_MINTED", !.mint = receipt.mint]
    OBVIOUS
  <2>2. Returned(next) /\ Ends(c) /\ UNCHANGED minted /\ calls[c].at = "minting"
        /\ ReceiptMatches(receipt, job)
    BY <1>6, <2>1 DEF DirectMinted
  <2>3. DOMAIN job = JobFields
    BY <2>1, <2>2 DEF FundingInv
  <2>4. PICK r : r = checkpointFundingJob(next)
    OBVIOUS
  <2>5. DOMAIN r = JobFields /\ r.mint = receipt.mint /\ r.operationHash = job.operationHash
    BY <2>1, <2>3, <2>4 DEF checkpointFundingJob, JobFields
  <2>6. receipt.mint \in Payment /\ minted[receipt.mint] # Nothing
        /\ receipt.operation = minted[receipt.mint]
    BY DEF Receipts
  <2>7. minted[receipt.mint] = job.operationHash
    BY <2>2, <2>6 DEF ReceiptMatches
  <2>8. jobs' = jobs \cup {r}
    BY <2>2, <2>4 DEF Returned
  <2>9. \A j \in jobs' : DOMAIN j = JobFields /\ MintIsTrue(j)'
    BY <2>2, <2>5, <2>6, <2>7, <2>8 DEF FundingInv, MintIsTrue
  <2> QED BY <2>2, <2>9, CallsAfter DEF FundingInv
<1> QED BY <1>1, <1>2, <1>3, <1>4, <1>5, <1>6

LEMMA FundingKeeps ==
    ASSUME FundingInv, [FundingNext]_fundingVars
    PROVE  FundingInv'
<1>1. CASE KeeperNext
  BY <1>1, KeeperStep
<1>2. CASE AnswerNext
  BY <1>2, AnswerFundingStep DEF AnswerNext
<1>3. CASE ClockTicks \/ (\E p \in Payment : Pay(p)) \/ UNCHANGED fundingVars
  <2>1. UNCHANGED <<jobs, calls, minted>>
    BY <1>3 DEF ClockTicks, Pay, fundingVars
  <2> QED BY <2>1 DEF FundingInv, MintIsTrue
<1> QED BY <1>1, <1>2, <1>3 DEF FundingNext

LEMMA FundingStarts == FundingInit => FundingInv
BY DEF FundingInit, FundingInv, NotCalled

-----------------------------------------------------------------------------
(* The redemption job.                                                      *)

\* A leg as the asset manager keeps it.
OpenedLeg ==
    [transaction: Nat \ {0}, payTo: {i.payTo : i \in Intent}, agentVault: Agent, value: {1},
     outcome: {"REQUESTED", "UNDERLYING_PAID", "COLLATERAL_DEFAULT"}]

\* Transactions are numbered as they come, and each opens its legs in a row.
OpenedInOrder ==
    /\ opened \in Seq(OpenedLeg)
    /\ \A i, j \in DOMAIN opened : i <= j => opened[i].transaction <= opened[j].transaction

\* The shape of a snapshot and of its legs.
RedemptionFields == {"intent", "intentHash", "state", "transaction", "redeemed", "remaining",
                     "requests", "checkpointHash"}
LegFields == {"requestId", "payTo", "agentVault", "value", "state", "settlement"}

IsRedemption(job) ==
    /\ DOMAIN job = RedemptionFields /\ job.intent \in Intent
    /\ \A i \in DOMAIN job.requests : DOMAIN job.requests[i] = LegFields

\* What a leg says is so on the chain.
LegIsTrue(leg, intent) ==
    /\ opened[leg.requestId].payTo = intent.payTo
    /\ leg.state # "REQUESTED" =>
         leg.state = opened[leg.requestId].outcome /\ leg.settlement.requestId = leg.requestId

\* A snapshot tells of the legs of its own transaction, and they are all over.
FollowsChain(job) == job.state # "CREATED" =>
    /\ job.transaction \in 1..LastTransaction
    /\ {job.requests[i].requestId : i \in DOMAIN job.requests} = OpenedBy(job.transaction)
    /\ Sum(job.requests) <= job.intentHash.amount
    /\ \A i \in DOMAIN job.requests : LegIsTrue(job.requests[i], job.intentHash)

\* A call to request keeps a snapshot's shape, and a transaction that exists.
RequestIsSound(call) == Waiting(call) =>
    /\ DOMAIN call = {"at", "job", "sent", "transaction"}
    /\ IsRedemption(call.job) /\ call.sent \in Intent
    /\ call.at = "redeemed" =>
         call.transaction \in 1..LastTransaction /\ OpenedBy(call.transaction) # {}

\* A call to accept keeps a snapshot that follows the chain; what was verified is the event it
\* was given, unless that object has been changed, and then the call is refused.
AcceptIsSound(call) == Waiting(call) =>
    /\ DOMAIN call = {"at", "job", "index", "event", "eventHash", "commitment"}
    /\ IsRedemption(call.job) /\ call.job.state = "REQUESTED" /\ FollowsChain(call.job)
    /\ call.index \in DOMAIN call.job.requests
    /\ call.job.requests[call.index].requestId = call.eventHash.requestId
    /\ call.event \in Event /\ call.eventHash \in Event
    /\ call.event # call.eventHash => mutated = TRUE
    /\ call.at = "verified" =>
         /\ call.commitment \in Event /\ IsTrue(call.commitment)
         /\ call.commitment = call.eventHash \/ call.event # call.eventHash

SnapshotIsSound(job) == IsRedemption(job) /\ assertRedemptionJobIntegrity(job) /\ FollowsChain(job)

\* The inductive invariant of the redemption job.
RedemptionInv ==
    /\ OpenedInOrder
    /\ mutated \in BOOLEAN
    /\ DOMAIN requests = Request /\ DOMAIN accepts = Accept
    /\ \A job \in snapshots : SnapshotIsSound(job)
    /\ \A c \in Request : RequestIsSound(requests[c])
    /\ \A c \in Accept : AcceptIsSound(accepts[c])

\* The chain only adds: legs of new transactions, and outcomes.
ChainGrows ==
    /\ OpenedInOrder'
    /\ LastTransaction \in Nat /\ LastTransaction' \in Nat /\ LastTransaction <= LastTransaction'
    /\ \A t \in 1..LastTransaction : OpenedBy(t)' = OpenedBy(t)
    /\ \A i \in DOMAIN opened :
         /\ i \in DOMAIN opened'
         /\ opened'[i].payTo = opened[i].payTo
         /\ opened'[i].agentVault = opened[i].agentVault
         /\ opened[i].outcome # "REQUESTED" => opened'[i].outcome = opened[i].outcome

\* What the order of the legs says of each.
LEMMA OpenedType ==
    ASSUME OpenedInOrder
    PROVE  /\ Len(opened) \in Nat /\ DOMAIN opened = 1..Len(opened)
           /\ \A i \in DOMAIN opened : opened[i] \in OpenedLeg
           /\ opened # <<>> <=> Len(opened) > 0
           /\ LastTransaction \in Nat
           /\ \A i \in DOMAIN opened : opened[i].transaction \in 1..LastTransaction
<1>1. /\ Len(opened) \in Nat /\ DOMAIN opened = 1..Len(opened)
      /\ \A i \in 1..Len(opened) : opened[i] \in OpenedLeg
  BY LenProperties, ElementOfSeq DEF OpenedInOrder
<1>2. opened # <<>> <=> Len(opened) > 0
  BY <1>1, EmptySeq DEF OpenedInOrder
<1>3. CASE opened = <<>>
  BY <1>1, <1>2, <1>3 DEF LastTransaction, NoTransaction
<1>4. CASE opened # <<>>
  <2>1. LastTransaction = opened[Len(opened)].transaction /\ Len(opened) \in DOMAIN opened
    BY <1>1, <1>2, <1>4 DEF LastTransaction
  <2>2. LastTransaction \in Nat \ {0}
    BY <1>1, <2>1 DEF OpenedLeg
  <2>3. ASSUME NEW i \in DOMAIN opened PROVE opened[i].transaction \in 1..LastTransaction
    <3>1. opened[i].transaction \in Nat \ {0} /\ i <= Len(opened)
      BY <1>1 DEF OpenedLeg
    <3>2. opened[i].transaction <= LastTransaction
      BY <2>1, <3>1 DEF OpenedInOrder
    <3> QED BY <2>2, <3>1, <3>2
  <2> QED BY <1>1, <1>2, <2>2, <2>3
<1> QED BY <1>3, <1>4

\* The steps of the chain: nothing, a leg settled, a redemption.
LEMMA SameChainGrows == ASSUME OpenedInOrder, UNCHANGED opened PROVE ChainGrows
BY OpenedType DEF ChainGrows, OpenedInOrder, LastTransaction, OpenedBy

LEMMA SettledLegGrows ==
    ASSUME OpenedInOrder, NEW id \in DOMAIN opened, SettleLeg(id)
    PROVE  ChainGrows
<1>1. PICK outcome \in {"UNDERLYING_PAID", "COLLATERAL_DEFAULT"} :
        opened[id].outcome = "REQUESTED" /\ opened' = [opened EXCEPT ![id].outcome = outcome]
  BY DEF SettleLeg
<1>2. PICK leg : leg = opened[id]
  OBVIOUS
<1>3. PICK next : next = [leg EXCEPT !.outcome = outcome]
  OBVIOUS
<1>4. opened' = [opened EXCEPT ![id] = next]
  BY <1>1, <1>2, <1>3
<1>5. /\ next \in OpenedLeg /\ next.transaction = leg.transaction
      /\ next.payTo = leg.payTo /\ next.agentVault = leg.agentVault /\ leg.outcome = "REQUESTED"
  BY <1>1, <1>2, <1>3, OpenedType DEF OpenedLeg
<1>6. PICK s : s = opened
  OBVIOUS
<1>7. /\ Len(s) \in Nat /\ DOMAIN s = 1..Len(s) /\ s \in Seq(OpenedLeg) /\ id \in 1..Len(s)
  BY <1>6, OpenedType DEF OpenedInOrder
<1>8. PICK t : t = [s EXCEPT ![id] = next]
  OBVIOUS
<1>9. t \in Seq(OpenedLeg) /\ Len(t) = Len(s)
  BY <1>5, <1>7, <1>8, ExceptSeq
<1>10. DOMAIN t = DOMAIN s /\ \A i \in DOMAIN s : t[i] = IF i = id THEN next ELSE s[i]
  BY <1>8
<1>11. opened' = t /\ opened = s /\ leg = s[id]
  BY <1>2, <1>4, <1>6, <1>8
<1>12. \A i \in DOMAIN s : t[i].transaction = s[i].transaction /\ t[i].payTo = s[i].payTo
                           /\ t[i].agentVault = s[i].agentVault
                           /\ (s[i].outcome # "REQUESTED" => t[i].outcome = s[i].outcome)
  BY <1>5, <1>10, <1>11
<1>13. OpenedInOrder'
  BY <1>9, <1>10, <1>11, <1>12 DEF OpenedInOrder
<1>14. \A x : OpenedBy(x)' = OpenedBy(x)
  BY <1>10, <1>11, <1>12 DEF OpenedBy
<1>15. t = <<>> <=> s = <<>>
  BY <1>7, <1>9, EmptySeq
<1>16. LastTransaction' = LastTransaction
  BY <1>7, <1>9, <1>11, <1>12, <1>15, EmptySeq DEF LastTransaction
<1> QED BY <1>10, <1>11, <1>12, <1>13, <1>14, <1>16, OpenedType DEF ChainGrows

LEMMA RedeemGrows ==
    ASSUME OpenedInOrder, NEW c \in Request, requests[c].sent \in Intent,
           NEW agents, agents \in {<<a>> : a \in Agent} \cup {s \in Agent \X Agent : s[1] # s[2]},
           Redeem(c, agents)
    PROVE  /\ ChainGrows /\ LastTransaction' = LastTransaction + 1
           /\ OpenedBy(LastTransaction)' # {}
<1>1. PICK amount, s, sent, last : amount = Len(agents) /\ s = opened /\ sent = requests[c].sent
                                   /\ last = LastTransaction
  OBVIOUS
<1>2. amount \in {1, 2} /\ \A i \in 1..amount : agents[i] \in Agent
  <2>1. CASE agents \in {<<a>> : a \in Agent}
    BY <1>1, <2>1
  <2>2. CASE agents \in {q \in Agent \X Agent : q[1] # q[2]}
    <3>1. agents = <<agents[1], agents[2]>> /\ agents[1] \in Agent /\ agents[2] \in Agent
      BY <2>2
    <3>2. Len(agents) = 2
      BY <3>1
    <3> QED BY <1>1, <3>1, <3>2
  <2> QED BY <2>1, <2>2
<1>3. PICK legs : legs = [i \in 1..amount |->
                   [transaction |-> last + 1, payTo |-> sent.payTo,
                    agentVault |-> agents[i], value |-> 1, outcome |-> "REQUESTED"]]
  OBVIOUS
<1>4. opened' = s \o legs
  BY <1>1, <1>3 DEF Redeem
<1>5. s \in Seq(OpenedLeg) /\ last \in Nat /\ Len(s) \in Nat /\ DOMAIN s = 1..Len(s)
      /\ \A i \in DOMAIN s : s[i].transaction \in 1..last
  BY <1>1, OpenedType DEF OpenedInOrder
<1>6. \A i \in 1..amount : legs[i] \in OpenedLeg /\ legs[i].transaction = last + 1
  <2>1. last + 1 \in Nat \ {0} /\ sent.payTo \in {i.payTo : i \in Intent}
    BY <1>1, <1>5
  <2>2. ASSUME NEW i \in 1..amount PROVE legs[i] \in OpenedLeg /\ legs[i].transaction = last + 1
    <3>1. PICK leg : leg = [transaction |-> last + 1, payTo |-> sent.payTo,
                            agentVault |-> agents[i], value |-> 1, outcome |-> "REQUESTED"]
      OBVIOUS
    <3>2. leg \in OpenedLeg /\ leg.transaction = last + 1
      BY <1>2, <2>1, <3>1 DEF OpenedLeg
    <3> QED BY <1>3, <3>1, <3>2
  <2> QED BY <2>2
<1>7. legs \in Seq(OpenedLeg) /\ Len(legs) = amount
  BY <1>2, <1>3, <1>6
<1>8. PICK t : t = s \o legs
  OBVIOUS
<1>9. /\ t \in Seq(OpenedLeg) /\ Len(t) = Len(s) + amount
      /\ \A i \in 1..(Len(s) + amount) : t[i] = IF i <= Len(s) THEN s[i] ELSE legs[i - Len(s)]
  BY <1>5, <1>7, <1>8, ConcatProperties
<1>10. DOMAIN t = 1..Len(t)
  BY <1>9, LenProperties
<1>11. \A i \in DOMAIN s : i \in DOMAIN t /\ t[i] = s[i]
  BY <1>2, <1>5, <1>9, <1>10
<1>12. \A i \in DOMAIN t : i \notin DOMAIN s => t[i].transaction = last + 1 /\ i > Len(s)
  BY <1>2, <1>5, <1>6, <1>9, <1>10
<1>13. Len(t) \in DOMAIN t /\ t[Len(t)].transaction = last + 1
  BY <1>2, <1>5, <1>9, <1>10, <1>12
<1>14. ASSUME NEW i \in DOMAIN t, NEW j \in DOMAIN t, i <= j
       PROVE  t[i].transaction <= t[j].transaction
  <2>1. CASE j \in DOMAIN s
    <3>1. i \in DOMAIN s
      BY <1>5, <1>10, <1>14, <2>1
    <3> QED BY <1>1, <1>11, <1>14, <2>1, <3>1 DEF OpenedInOrder
  <2>2. CASE j \notin DOMAIN s
    <3>1. t[j].transaction = last + 1
      BY <1>12, <2>2
    <3>2. t[i].transaction \in 1..last \/ t[i].transaction = last + 1
      BY <1>5, <1>11, <1>12
    <3> QED BY <1>5, <3>1, <3>2
  <2> QED BY <2>1, <2>2
<1>15. opened' = t /\ opened = s /\ LastTransaction = last
  BY <1>1, <1>4, <1>8
<1>16. OpenedInOrder'
  BY <1>9, <1>14, <1>15 DEF OpenedInOrder
<1>17. t # <<>>
  BY <1>2, <1>5, <1>9
<1>18. LastTransaction' = last + 1
  BY <1>13, <1>15, <1>17 DEF LastTransaction
<1>19. \A x \in 1..last : {id \in DOMAIN t : t[id].transaction = x} = {id \in DOMAIN s : s[id].transaction = x}
  BY <1>5, <1>11, <1>12
<1>20. OpenedBy(LastTransaction)' # {}
  BY <1>13, <1>15, <1>18 DEF OpenedBy
<1>21. \A x \in 1..LastTransaction : OpenedBy(x)' = OpenedBy(x)
  BY <1>15, <1>19 DEF OpenedBy
<1>22. LastTransaction \in Nat /\ LastTransaction' \in Nat /\ LastTransaction <= LastTransaction'
  BY <1>5, <1>15, <1>18
<1>23. ChainGrows
  BY <1>11, <1>15, <1>16, <1>21, <1>22 DEF ChainGrows
<1> QED BY <1>15, <1>18, <1>20, <1>23

\* What is true of the chain stays true.
LEMMA StillFollows ==
    ASSUME ChainGrows, NEW job, FollowsChain(job)
    PROVE  FollowsChain(job)'
<1> SUFFICES ASSUME job.state # "CREATED" PROVE FollowsChain(job)'
  BY DEF FollowsChain
<1>1. job.transaction \in 1..LastTransaction' /\ OpenedBy(job.transaction)' = OpenedBy(job.transaction)
  BY DEF FollowsChain, ChainGrows
<1>2. ASSUME NEW i \in DOMAIN job.requests
      PROVE  LegIsTrue(job.requests[i], job.intentHash)'
  <2>1. job.requests[i].requestId \in DOMAIN opened
    BY DEF FollowsChain, OpenedBy
  <2>2. LegIsTrue(job.requests[i], job.intentHash)
    BY DEF FollowsChain
  <2>3. PICK leg, intent : leg = job.requests[i] /\ intent = job.intentHash
    OBVIOUS
  <2>4. leg.requestId \in DOMAIN opened /\ LegIsTrue(leg, intent)
    BY <2>1, <2>2, <2>3
  <2>5. /\ opened'[leg.requestId].payTo = opened[leg.requestId].payTo
        /\ opened[leg.requestId].outcome # "REQUESTED" =>
             opened'[leg.requestId].outcome = opened[leg.requestId].outcome
    BY <2>4 DEF ChainGrows
  <2>6. PICK id : id = leg.requestId
    OBVIOUS
  <2>7. /\ opened[id].payTo = intent.payTo
        /\ leg.state # "REQUESTED" => leg.state = opened[id].outcome /\ leg.settlement.requestId = id
    BY <2>4, <2>6 DEF LegIsTrue
  <2>8. /\ opened'[id].payTo = intent.payTo
        /\ leg.state # "REQUESTED" => leg.state = opened'[id].outcome /\ leg.settlement.requestId = id
    BY <2>5, <2>6, <2>7
  <2>9. LegIsTrue(leg, intent)'
    BY <2>6, <2>8 DEF LegIsTrue
  <2> QED BY <2>3, <2>9
<1> QED BY <1>1, <1>2 DEF FollowsChain

\* What is proved of the chain, and of the calls, survives them.
LEMMA StillAnEvent ==
    ASSUME ChainGrows, OpenedInOrder
    PROVE  /\ \A event \in Event : event \in Event'
           /\ \A event \in Event : IsTrue(event) => IsTrue(event)'
<1>1. \A event \in Event : event \in Event'
  <2>1. DOMAIN opened \subseteq DOMAIN opened'
    BY DEF ChainGrows
  <2> QED BY <2>1 DEF Event
<1>2. ASSUME NEW event \in Event, IsTrue(event) PROVE IsTrue(event)'
  <2>1. event.requestId \in DOMAIN opened /\ event.kind \in {"UNDERLYING_PAID", "COLLATERAL_DEFAULT"}
    BY DEF Event
  <2> QED BY <1>2, <2>1 DEF ChainGrows, IsTrue
<1> QED BY <1>1, <1>2

LEMMA StillRequested ==
    ASSUME ChainGrows, NEW call, RequestIsSound(call)
    PROVE  RequestIsSound(call)'
<1> SUFFICES ASSUME Waiting(call) PROVE RequestIsSound(call)'
  BY DEF RequestIsSound, Waiting
<1>1. call.transaction \in 1..LastTransaction =>
        call.transaction \in 1..LastTransaction' /\ OpenedBy(call.transaction)' = OpenedBy(call.transaction)
  BY DEF ChainGrows
<1> QED BY <1>1 DEF RequestIsSound

LEMMA StillAccepting ==
    ASSUME ChainGrows, OpenedInOrder, mutated' = mutated \/ mutated' = TRUE,
           NEW call, AcceptIsSound(call)
    PROVE  AcceptIsSound(call)'
<1> SUFFICES ASSUME Waiting(call) PROVE AcceptIsSound(call)'
  BY DEF AcceptIsSound, Waiting
<1>1. FollowsChain(call.job)'
  BY StillFollows DEF AcceptIsSound
<1>2. call.event \in Event' /\ call.eventHash \in Event'
  BY StillAnEvent DEF AcceptIsSound
<1>3. call.at = "verified" => call.commitment \in Event' /\ IsTrue(call.commitment)'
  BY StillAnEvent DEF AcceptIsSound
<1> QED BY <1>1, <1>2, <1>3 DEF AcceptIsSound

LEMMA StillSound ==
    ASSUME ChainGrows, NEW job, SnapshotIsSound(job)
    PROVE  SnapshotIsSound(job)'
BY StillFollows DEF SnapshotIsSound

\* What the receipt of a redemption tells.
ReceiptTells(t, legs) ==
    /\ \E n \in Nat \ {0} : DOMAIN legs = 1..n
    /\ {legs[i].requestId : i \in DOMAIN legs} = OpenedBy(t)
    /\ \A i \in DOMAIN legs :
         /\ DOMAIN legs[i] = LegFields
         /\ legs[i].state = "REQUESTED" /\ legs[i].settlement = NoEvent
         /\ legs[i].payTo = opened[legs[i].requestId].payTo
    /\ Sum(legs) \in Int

\* The legs of a transaction stand in a row, so its receipt tells of exactly those.
LEMMA ReceiptIsRead ==
    ASSUME OpenedInOrder, NEW t, OpenedBy(t) # {}
    PROVE  ReceiptTells(t, parseCoston2RedemptionReceipt(t))
<1>1. PICK ids : ids = OpenedBy(t)
  OBVIOUS
<1>2. PICK size : size = Len(opened)
  OBVIOUS
<1>3. ids \in SUBSET Nat /\ ids # {} /\ size \in Nat /\ DOMAIN opened = 1..size /\ ids \subseteq 1..size
  BY <1>1, <1>2, OpenedType DEF OpenedBy
<1>4. \E id \in ids : \A other \in ids : id <= other
  BY <1>3, LeastNumber
<1>5. \E id \in ids : \A other \in ids : id >= other
  <2>1. PICK back : back = {n \in Nat : \E id \in ids : n = size - id}
    OBVIOUS
  <2>2. back \in SUBSET Nat /\ back # {}
    <3>1. PICK id \in ids : TRUE
      BY <1>3
    <3>2. \A x \in ids : x \in 1..size /\ size - x \in Nat
      BY <1>3
    <3>3. size - id \in back
      BY <2>1, <3>2
    <3>4. \A n \in back : n \in Nat
      BY <2>1
    <3> QED BY <3>3, <3>4
  <2>3. PICK n \in back : \A m \in back : n <= m
    BY <2>2, LeastNumber
  <2>4. PICK id \in ids : n = size - id
    BY <2>1, <2>3
  <2>5. ASSUME NEW other \in ids PROVE id >= other
    <3>1. size - other \in back
      BY <1>3, <2>1
    <3>2. n <= size - other
      BY <2>3, <3>1
    <3>3. id \in Nat /\ other \in Nat
      BY <1>3
    <3> QED BY <1>3, <2>4, <3>2, <3>3
  <2> QED BY <2>5
<1>6. PICK first : first = CHOOSE id \in ids : \A other \in ids : id <= other
  OBVIOUS
<1>7. PICK last : last = CHOOSE id \in ids : \A other \in ids : id >= other
  OBVIOUS
<1>8. first \in ids /\ last \in ids /\ \A id \in ids : first <= id /\ id <= last
  <2>1. first \in ids /\ \A id \in ids : first <= id
    BY <1>4, <1>6
  <2>2. last \in ids /\ \A id \in ids : last >= id
    BY <1>5, <1>7
  <2> QED BY <1>3, <2>1, <2>2
<1>9. PICK n : n = last - first + 1
  OBVIOUS
<1>10. n \in Nat \ {0} /\ first \in Nat /\ last \in Nat
  BY <1>3, <1>8, <1>9
<1>11. PICK legs : legs = [m \in 1..n |-> LegOf(first + m - 1)]
  OBVIOUS
<1>12. legs = parseCoston2RedemptionReceipt(t)
  BY <1>1, <1>6, <1>7, <1>9, <1>11 DEF parseCoston2RedemptionReceipt
<1>13. DOMAIN legs = 1..n /\ \A m \in 1..n : legs[m] = LegOf(first + m - 1)
  BY <1>11
<1>14. first..last = ids
  <2>1. ASSUME NEW id \in first..last PROVE id \in ids
    <3>1. id \in DOMAIN opened /\ first \in DOMAIN opened /\ last \in DOMAIN opened
      BY <1>3, <1>8, <1>10
    <3>2. opened[first].transaction = t /\ opened[last].transaction = t
      BY <1>1, <1>8 DEF OpenedBy
    <3>3. opened[first].transaction <= opened[id].transaction /\ opened[id].transaction <= opened[last].transaction
      BY <1>10, <3>1 DEF OpenedInOrder
    <3>4. opened[id].transaction \in Int /\ opened[first].transaction \in Int
      BY <3>1, OpenedType
    <3>5. opened[id].transaction = t
      BY <3>2, <3>3, <3>4
    <3> QED BY <1>1, <3>1, <3>5 DEF OpenedBy
  <2>2. ASSUME NEW id \in ids PROVE id \in first..last
    BY <1>3, <1>8, <1>10
  <2>3. PICK interval : interval = first..last
    OBVIOUS
  <2>4. \A id : id \in interval <=> id \in ids
    BY <2>1, <2>2, <2>3
  <2> QED BY <2>3, <2>4
<1>15. \A m \in 1..n : first + m - 1 \in ids
  BY <1>9, <1>10, <1>14
<1>16. \A id \in ids : id - first + 1 \in 1..n /\ first + (id - first + 1) - 1 = id
  BY <1>3, <1>8, <1>9, <1>10
<1>17. \A id : LegOf(id).requestId = id /\ LegOf(id).value = opened[id].value
  BY DEF LegOf
<1>18. {legs[i].requestId : i \in DOMAIN legs} = OpenedBy(t)
  <2>1. ASSUME NEW m \in 1..n PROVE legs[m].requestId \in ids
    <3>1. PICK id : id = first + m - 1
      OBVIOUS
    <3>2. id \in ids /\ legs[m] = LegOf(id)
      BY <1>13, <1>15, <3>1
    <3> QED BY <1>17, <3>2
  <2>2. ASSUME NEW id \in ids PROVE \E m \in 1..n : legs[m].requestId = id
    <3>1. PICK m : m = id - first + 1
      OBVIOUS
    <3>2. m \in 1..n /\ first + m - 1 = id
      BY <1>16, <3>1
    <3>3. legs[m].requestId = id
      BY <1>13, <1>17, <3>2
    <3> QED BY <3>2, <3>3
  <2>3. PICK named : named = {legs[i].requestId : i \in 1..n}
    OBVIOUS
  <2>4. \A x : x \in named <=> x \in ids
    BY <2>1, <2>2, <2>3
  <2> QED BY <1>1, <1>13, <2>3, <2>4
<1>19. \A id : /\ DOMAIN LegOf(id) = LegFields
               /\ LegOf(id).state = "REQUESTED" /\ LegOf(id).settlement = NoEvent
               /\ LegOf(id).payTo = opened[LegOf(id).requestId].payTo
  BY DEF LegOf, LegFields
<1>20. Sum(legs) \in Int
  <2>1. PICK values : values = [i \in DOMAIN legs |-> legs[i].value]
    OBVIOUS
  <2>2. IsFiniteSet(DOMAIN legs)
    BY <1>10, <1>13, FS_Interval
  <2>3. \A id \in ids : opened[id].value = 1
    BY <1>3, OpenedType DEF OpenedLeg
  <2>4. \A m \in 1..n : legs[m].value = 1
    BY <1>13, <1>15, <1>17, <2>3
  <2>5. IntegersOn(values, DOMAIN legs)
    BY <1>13, <2>1, <2>4 DEF IntegersOn
  <2> QED BY <2>1, <2>2, <2>5, SumType DEF Sum
<1> QED BY <1>10, <1>12, <1>13, <1>18, <1>19, <1>20, SMTT(30) DEF ReceiptTells

\* A snapshot is returned and is sound, on the same chain.
LEMMA SnapshotKept ==
    ASSUME RedemptionInv, NEW job, SnapshotIsSound(checkpointRedemptionJob(job)), Snapshot(job),
           UNCHANGED opened
    PROVE  \A j \in snapshots' : SnapshotIsSound(j)'
<1>1. ChainGrows
  BY SameChainGrows DEF RedemptionInv
<1>2. PICK r : r = checkpointRedemptionJob(job)
  OBVIOUS
<1>3. SnapshotIsSound(r)' /\ snapshots' = snapshots \cup {r}
  BY <1>1, <1>2, StillSound DEF Snapshot
<1>4. \A j \in snapshots : SnapshotIsSound(j)'
  BY <1>1, StillSound DEF RedemptionInv
<1> QED BY <1>3, <1>4

LEMMA SnapshotsKept ==
    ASSUME RedemptionInv, ChainGrows, UNCHANGED snapshots
    PROVE  \A j \in snapshots' : SnapshotIsSound(j)'
BY StillSound DEF RedemptionInv

\* One call moved; the others are as they were, on a chain that grew.
LEMMA RequestsAfter ==
    ASSUME RedemptionInv, ChainGrows, NEW c \in Request, NEW call,
           requests' = [requests EXCEPT ![c] = call], RequestIsSound(call)'
    PROVE  DOMAIN requests' = Request /\ \A d \in Request : RequestIsSound(requests[d])'
<1>1. DOMAIN requests' = Request /\ \A d \in Request : requests'[d] = IF d = c THEN call ELSE requests[d]
  BY DEF RedemptionInv
<1>2. ASSUME NEW d \in Request PROVE RequestIsSound(requests[d])'
  <2>1. PICK was : was = requests[d]
    OBVIOUS
  <2>2. RequestIsSound(was)'
    BY <2>1, StillRequested DEF RedemptionInv
  <2>3. PICK next : next = requests'[d]
    OBVIOUS
  <2>4. RequestIsSound(next)'
    BY <1>1, <2>1, <2>2, <2>3
  <2> QED BY <2>3, <2>4
<1> QED BY <1>1, <1>2

LEMMA RequestsKept ==
    ASSUME RedemptionInv, ChainGrows, UNCHANGED requests
    PROVE  DOMAIN requests' = Request /\ \A d \in Request : RequestIsSound(requests[d])'
<1>1. ASSUME NEW d \in Request PROVE RequestIsSound(requests[d])'
  <2>1. PICK was : was = requests[d]
    OBVIOUS
  <2>2. RequestIsSound(was)'
    BY <2>1, StillRequested DEF RedemptionInv
  <2> QED BY <2>1, <2>2
<1> QED BY <1>1 DEF RedemptionInv

LEMMA AcceptsAfter ==
    ASSUME RedemptionInv, ChainGrows, mutated' = mutated \/ mutated' = TRUE,
           NEW c \in Accept, NEW call,
           accepts' = [accepts EXCEPT ![c] = call], AcceptIsSound(call)'
    PROVE  DOMAIN accepts' = Accept /\ \A d \in Accept : AcceptIsSound(accepts[d])'
<1>1. DOMAIN accepts' = Accept /\ \A d \in Accept : accepts'[d] = IF d = c THEN call ELSE accepts[d]
  BY DEF RedemptionInv
<1>2. ASSUME NEW d \in Accept PROVE AcceptIsSound(accepts[d])'
  <2>1. PICK was : was = accepts[d]
    OBVIOUS
  <2>2. AcceptIsSound(was)'
    BY <2>1, StillAccepting DEF RedemptionInv
  <2>3. PICK next : next = accepts'[d]
    OBVIOUS
  <2>4. AcceptIsSound(next)'
    BY <1>1, <2>1, <2>2, <2>3
  <2> QED BY <2>3, <2>4
<1> QED BY <1>1, <1>2

LEMMA AcceptsKept ==
    ASSUME RedemptionInv, ChainGrows, mutated' = mutated \/ mutated' = TRUE, UNCHANGED accepts
    PROVE  DOMAIN accepts' = Accept /\ \A d \in Accept : AcceptIsSound(accepts[d])'
<1>1. ASSUME NEW d \in Accept PROVE AcceptIsSound(accepts[d])'
  <2>1. PICK was : was = accepts[d]
    OBVIOUS
  <2>2. AcceptIsSound(was)'
    BY <2>1, StillAccepting DEF RedemptionInv
  <2> QED BY <2>1, <2>2
<1> QED BY <1>1 DEF RedemptionInv

\* A call to request moves, and nothing else.
LEMMA RequestMoves ==
    ASSUME RedemptionInv, NEW c \in Request, NEW call,
           requests' = [requests EXCEPT ![c] = call], RequestIsSound(call),
           UNCHANGED <<snapshots, accepts, opened, mutated>>
    PROVE  RedemptionInv'
<1>1. ChainGrows
  BY SameChainGrows DEF RedemptionInv
<1>2. RequestIsSound(call)'
  BY <1>1, StillRequested
<1> QED BY <1>1, <1>2, SnapshotsKept, RequestsAfter, AcceptsKept DEF RedemptionInv, ChainGrows

LEMMA AcceptMoves ==
    ASSUME RedemptionInv, NEW c \in Accept, NEW call,
           accepts' = [accepts EXCEPT ![c] = call], AcceptIsSound(call),
           UNCHANGED <<snapshots, requests, opened, mutated>>
    PROVE  RedemptionInv'
<1>1. ChainGrows
  BY SameChainGrows DEF RedemptionInv
<1>2. AcceptIsSound(call)'
  BY <1>1, StillAccepting DEF RedemptionInv
<1> QED BY <1>1, <1>2, SnapshotsKept, RequestsKept, AcceptsAfter DEF RedemptionInv, ChainGrows

\* Snapshots start with nothing redeemed.
LEMMA CreateStep ==
    ASSUME RedemptionInv, NEW intent \in Intent, createRedemptionJob(intent)
    PROVE  RedemptionInv'
<1>1. PICK job : job = [intent |-> intent, intentHash |-> intent, state |-> "CREATED",
                 transaction |-> NoTransaction, redeemed |-> 0, remaining |-> 0,
                 requests |-> <<>>, checkpointHash |-> <<>>]
  OBVIOUS
<1>2. PICK r : r = checkpointRedemptionJob(job)
  OBVIOUS
<1>3. r = [intent |-> intent, intentHash |-> intent, state |-> "CREATED",
           transaction |-> NoTransaction, redeemed |-> 0, remaining |-> 0,
           requests |-> <<>>, checkpointHash |-> Checkpoint(job)]
  BY <1>1, <1>2 DEF checkpointRedemptionJob
<1>4. Checkpoint(r) = Checkpoint(job)
  BY <1>1, <1>3 DEF Checkpoint
<1>5. PICK none : none = <<>>
  OBVIOUS
<1>6. DOMAIN none = {}
  BY <1>5
<1>7. r.requests = none /\ r.state = "CREATED" /\ r.transaction = NoTransaction /\ r.intent = intent
      /\ r.intentHash = intent /\ DOMAIN r = RedemptionFields /\ r.checkpointHash = Checkpoint(job)
  BY <1>3, <1>5 DEF RedemptionFields
<1>8. IsRedemption(r) /\ FollowsChain(r)
  BY <1>6, <1>7 DEF IsRedemption, FollowsChain
<1>9. LegsOf(r, none)
  <2>1. [i \in DOMAIN none |-> none[i].requestId] = none /\ [i \in DOMAIN none |-> none[i].agentVault] = none
    BY <1>5, <1>6
  <2>2. IsInjective(none)
    BY <1>6 DEF IsInjective
  <2> QED BY <1>6, <2>1, <2>2 DEF LegsOf
<1>10. assertRedemptionJobIntegrity(r)
  BY <1>4, <1>5, <1>6, <1>7, <1>9 DEF assertRedemptionJobIntegrity, ExpectedState
<1>11. Snapshot(job) /\ UNCHANGED <<requests, accepts, opened, mutated>>
  BY <1>1 DEF createRedemptionJob, chainVars
<1>12. ChainGrows
  BY <1>11, SameChainGrows DEF RedemptionInv
<1>13. SnapshotIsSound(r)
  BY <1>8, <1>10 DEF SnapshotIsSound
<1> QED BY <1>2, <1>11, <1>12, <1>13, SnapshotKept, RequestsKept, AcceptsKept DEF RedemptionInv, ChainGrows

\* The steps of a call to request that read, approve and send.
LEMMA RequestPlace ==
    ASSUME RedemptionInv, NEW c \in Request, Waiting(requests[c]), requests[c].at # "redeemed",
           NEW place, place # "redeemed",
           \/ requests' = [requests EXCEPT ![c].at = place]
           \/ requests' = [requests EXCEPT ![c].at = place, ![c].sent = requests[c].job.intent]
    PROVE  \E call : requests' = [requests EXCEPT ![c] = call] /\ RequestIsSound(call)
                     /\ call.sent \in Intent
<1>1. PICK was : was = requests[c]
  OBVIOUS
<1>2. /\ DOMAIN was = {"at", "job", "sent", "transaction"}
      /\ IsRedemption(was.job) /\ was.sent \in Intent /\ was.job.intent \in Intent
  BY <1>1 DEF RedemptionInv, RequestIsSound, IsRedemption
<1>3. CASE requests' = [requests EXCEPT ![c].at = place]
  <2>1. PICK call : call = [was EXCEPT !.at = place]
    OBVIOUS
  <2>2. DOMAIN call = DOMAIN was /\ call.at = place /\ call.job = was.job /\ call.sent = was.sent
    BY <1>2, <2>1
  <2>3. requests' = [requests EXCEPT ![c] = call]
    BY <1>1, <1>3, <2>1
  <2> QED BY <1>2, <2>2, <2>3 DEF RequestIsSound
<1>4. CASE requests' = [requests EXCEPT ![c].at = place, ![c].sent = requests[c].job.intent]
  <2>1. PICK placed : placed = [was EXCEPT !.at = place]
    OBVIOUS
  <2>2. PICK call : call = [placed EXCEPT !.sent = was.job.intent]
    OBVIOUS
  <2>3. DOMAIN call = DOMAIN was /\ call.at = place /\ call.job = was.job /\ call.sent = was.job.intent
    BY <1>2, <2>1, <2>2
  <2>4. PICK mid : mid = [requests EXCEPT ![c] = placed]
    OBVIOUS
  <2>5. mid = [requests EXCEPT ![c].at = place]
    BY <1>1, <2>1, <2>4
  <2>6. requests' = [mid EXCEPT ![c].sent = was.job.intent]
    BY <1>1, <1>4, <2>5
  <2>7. requests' = [mid EXCEPT ![c] = [mid[c] EXCEPT !.sent = was.job.intent]]
    BY <2>6
  <2>8. mid[c] = placed
    BY <2>4 DEF RedemptionInv
  <2>9. requests' = [mid EXCEPT ![c] = call]
    BY <2>2, <2>7, <2>8
  <2>10. requests' = [requests EXCEPT ![c] = call]
    BY <2>4, <2>9
  <2> QED BY <1>2, <2>3, <2>10 DEF RequestIsSound
<1> QED BY <1>3, <1>4

LEMMA AskingStep ==
    ASSUME RedemptionInv, NEW c \in Request,
           \/ \E job \in snapshots : RequestRedemption(c, job)
           \/ ReadBalance(c) \/ ReadAllowance(c) \/ Approve(c) \/ RereadAllowance(c)
    PROVE  RedemptionInv'
<1>1. ASSUME NEW job \in snapshots, RequestRedemption(c, job)
      PROVE  RedemptionInv'
  <2>1. PICK call : call = [at |-> "balance", job |-> job, sent |-> job.intent, transaction |-> NoTransaction]
    OBVIOUS
  <2>2. requests' = [requests EXCEPT ![c] = call] /\ UNCHANGED <<snapshots, accepts, opened, mutated>>
    BY <1>1, <2>1 DEF RequestRedemption, chainVars
  <2>3. RequestIsSound(call)
    BY <2>1 DEF RequestIsSound, RedemptionInv, SnapshotIsSound, IsRedemption
  <2> QED BY <2>2, <2>3, RequestMoves
<1>2. ASSUME \/ ReadBalance(c) \/ ReadAllowance(c) \/ Approve(c) \/ RereadAllowance(c)
      PROVE  RedemptionInv'
  <2>1. /\ requests[c].at \in {"balance", "allowance", "approve", "approved"}
        /\ UNCHANGED <<snapshots, accepts, opened, mutated>>
        /\ \E place \in {"allowance", "redeeming", "approve", "approved"} :
             \/ requests' = [requests EXCEPT ![c].at = place]
             \/ requests' = [requests EXCEPT ![c].at = place, ![c].sent = requests[c].job.intent]
    BY <1>2 DEF ReadBalance, ReadAllowance, Approve, RereadAllowance, Goes, Send, chainVars
  <2>2. PICK place \in {"allowance", "redeeming", "approve", "approved"} :
             \/ requests' = [requests EXCEPT ![c].at = place]
             \/ requests' = [requests EXCEPT ![c].at = place, ![c].sent = requests[c].job.intent]
    BY <2>1
  <2>3. Waiting(requests[c]) /\ requests[c].at # "redeemed"
    BY <2>1 DEF Waiting
  <2>4. PICK call : requests' = [requests EXCEPT ![c] = call] /\ RequestIsSound(call)
    BY <2>2, <2>3, RequestPlace
  <2> QED BY <2>1, <2>4, RequestMoves
<1> QED BY <1>1, <1>2

LEMMA RedeemStep ==
    ASSUME RedemptionInv, NEW c \in Request, NEW agents,
           agents \in {<<a>> : a \in Agent} \cup {s \in Agent \X Agent : s[1] # s[2]},
           Redeem(c, agents)
    PROVE  RedemptionInv'
<1>1. PICK was, t : was = requests[c] /\ t = LastTransaction + 1
  OBVIOUS
<1>2. /\ was.at = "redeeming" /\ UNCHANGED <<snapshots, accepts, mutated>>
      /\ requests' = [requests EXCEPT ![c].at = "redeemed", ![c].transaction = t]
  BY <1>1 DEF Redeem
<1>3. Waiting(requests[c]) /\ Waiting(was)
  BY <1>1, <1>2 DEF Waiting
<1>4. /\ DOMAIN was = {"at", "job", "sent", "transaction"}
      /\ IsRedemption(was.job) /\ was.sent \in Intent
  BY <1>1, <1>3 DEF RedemptionInv, RequestIsSound
<1>5. OpenedInOrder
  BY DEF RedemptionInv
<1>6. /\ ChainGrows /\ LastTransaction' = t /\ OpenedBy(LastTransaction)' # {}
  BY <1>1, <1>4, <1>5, RedeemGrows
<1>7. PICK placed : placed = [was EXCEPT !.at = "redeemed"]
  OBVIOUS
<1>8. PICK call : call = [placed EXCEPT !.transaction = t]
  OBVIOUS
<1>9. DOMAIN call = DOMAIN was /\ call.at = "redeemed" /\ call.job = was.job /\ call.sent = was.sent
      /\ call.transaction = t
  BY <1>4, <1>7, <1>8
<1>10. requests' = [requests EXCEPT ![c] = call]
  <2>1. PICK mid : mid = [requests EXCEPT ![c] = placed]
    OBVIOUS
  <2>2. mid = [requests EXCEPT ![c].at = "redeemed"]
    BY <1>1, <1>7, <2>1
  <2>3. requests' = [mid EXCEPT ![c].transaction = t]
    BY <1>2, <2>2
  <2>4. requests' = [mid EXCEPT ![c] = [mid[c] EXCEPT !.transaction = t]]
    BY <2>3
  <2>5. mid[c] = placed
    BY <2>1 DEF RedemptionInv
  <2>6. requests' = [mid EXCEPT ![c] = call]
    BY <1>8, <2>4, <2>5
  <2> QED BY <2>1, <2>6
<1>11. t \in 1..LastTransaction'
  BY <1>1, <1>5, <1>6, OpenedType
<1>12. OpenedBy(t)' # {}
  BY <1>6 DEF OpenedBy
<1>13. RequestIsSound(call)'
  BY <1>4, <1>9, <1>11, <1>12 DEF RequestIsSound
<1> QED BY <1>2, <1>6, <1>10, <1>13, SnapshotsKept, RequestsAfter, AcceptsKept DEF RedemptionInv, ChainGrows

\* A call that is over is asked nothing.
LEMMA OverIsSound == ASSUME NEW over, over = Called PROVE RequestIsSound(over) /\ AcceptIsSound(over)
BY DEF Called, RequestIsSound, AcceptIsSound, Waiting

LEMMA RequestedStep ==
    ASSUME RedemptionInv, NEW c \in Request, Requested(c)
    PROVE  RedemptionInv'
<1>1. PICK was, job, t, legs : was = requests[c] /\ job = was.job /\ t = was.transaction
          /\ legs = parseCoston2RedemptionReceipt(t)
  OBVIOUS
<1>2. PICK total : total = Sum(legs)
  OBVIOUS
<1>3. PICK next : next = [job EXCEPT !.state = "REQUESTED", !.transaction = t,
                            !.redeemed = total, !.remaining = job.intent.amount - total,
                            !.requests = legs]
  OBVIOUS
<1>4. /\ was.at = "redeemed" /\ assertRedemptionJobIntegrity(job) /\ job.state = "CREATED"
      /\ LegsOf(job, legs) /\ total <= job.intent.amount /\ Snapshot(next)
      /\ requests' = [requests EXCEPT ![c] = Called]
      /\ UNCHANGED <<accepts, opened, mutated>>
  BY <1>1, <1>2, <1>3 DEF Requested, StillIntact, chainVars
<1>5. IsRedemption(job) /\ t \in 1..LastTransaction /\ OpenedBy(t) # {}
  BY <1>1, <1>4 DEF RedemptionInv, RequestIsSound, Waiting
<1>6. ReceiptTells(t, legs)
  BY <1>1, <1>5, ReceiptIsRead DEF RedemptionInv
<1>7. PICK r : r = checkpointRedemptionJob(next)
  OBVIOUS
<1>8. /\ DOMAIN next = RedemptionFields /\ next.intent = job.intent /\ next.intentHash = job.intentHash
      /\ next.state = "REQUESTED" /\ next.transaction = t /\ next.redeemed = total
      /\ next.remaining = job.intent.amount - total /\ next.requests = legs
  BY <1>3, <1>5 DEF IsRedemption, RedemptionFields
<1>9. /\ DOMAIN r = RedemptionFields /\ r.intent = job.intent /\ r.intentHash = job.intentHash
      /\ r.state = "REQUESTED" /\ r.transaction = t /\ r.redeemed = total
      /\ r.remaining = job.intent.amount - total /\ r.requests = legs /\ r.checkpointHash = Checkpoint(next)
  BY <1>7, <1>8 DEF checkpointRedemptionJob, RedemptionFields
<1>10. Checkpoint(r) = Checkpoint(next)
  BY <1>8, <1>9 DEF Checkpoint
<1>11. PICK n \in Nat \ {0} : DOMAIN legs = 1..n
  BY <1>6 DEF ReceiptTells
<1>12. 1 \in DOMAIN legs /\ legs # <<>>
  BY <1>11
<1>13. LegsOf(r, legs)
  BY <1>4, <1>9 DEF LegsOf
<1>14. ExpectedState(legs) = "REQUESTED"
  BY <1>6, <1>12 DEF ExpectedState, ReceiptTells
<1>15. job.intent.amount \in Int /\ total \in Int
  BY <1>2, <1>5, <1>6, RedemptionAssumption DEF IsRedemption, ReceiptTells
<1>16. total + (job.intent.amount - total) = job.intent.amount
  BY <1>15
<1>17. t # NoTransaction /\ job.intentHash = job.intent
  BY <1>4, <1>5 DEF NoTransaction, assertRedemptionJobIntegrity
<1>18. assertRedemptionJobIntegrity(r)
  BY <1>2, <1>6, <1>9, <1>10, <1>13, <1>14, <1>16, <1>17 DEF assertRedemptionJobIntegrity, ReceiptTells
<1>19. ASSUME NEW i \in DOMAIN legs PROVE LegIsTrue(legs[i], job.intentHash)
  BY <1>4, <1>6, <1>17 DEF LegIsTrue, ReceiptTells, LegsOf
<1>20. FollowsChain(r)
  BY <1>2, <1>4, <1>5, <1>6, <1>9, <1>17, <1>19 DEF FollowsChain, ReceiptTells
<1>21. SnapshotIsSound(r)
  BY <1>5, <1>6, <1>9, <1>18, <1>20 DEF SnapshotIsSound, IsRedemption, ReceiptTells
<1>22. ChainGrows
  BY <1>4, SameChainGrows DEF RedemptionInv
<1>23. \A j \in snapshots' : SnapshotIsSound(j)'
  BY <1>4, <1>7, <1>21, SnapshotKept
<1>24. PICK over : over = Called
  OBVIOUS
<1>25. RequestIsSound(over)'
  BY <1>22, <1>24, OverIsSound, StillRequested
<1> QED BY <1>4, <1>22, <1>23, <1>24, <1>25, RequestsAfter, AcceptsKept DEF RedemptionInv, ChainGrows

LEMMA AcceptStep ==
    ASSUME RedemptionInv, NEW c \in Accept, NEW job \in snapshots, NEW event \in Event,
           AcceptRedemption(c, job, event)
    PROVE  RedemptionInv'
<1>1. PICK i \in DOMAIN job.requests :
        /\ job.requests[i].requestId = event.requestId
        /\ accepts' = [accepts EXCEPT ![c] =
              [at |-> "verifying", job |-> job, index |-> i, event |-> event,
               eventHash |-> event, commitment |-> NoEvent]]
  BY DEF AcceptRedemption, Concerns
<1>2. PICK call : call = [at |-> "verifying", job |-> job, index |-> i, event |-> event,
               eventHash |-> event, commitment |-> NoEvent]
  OBVIOUS
<1>3. job.state = "REQUESTED" /\ UNCHANGED <<snapshots, requests, opened, mutated>>
  BY DEF AcceptRedemption, chainVars
<1>4. IsRedemption(job) /\ FollowsChain(job)
  BY DEF RedemptionInv, SnapshotIsSound
<1>5. AcceptIsSound(call)
  BY <1>1, <1>2, <1>3, <1>4 DEF AcceptIsSound
<1>6. accepts' = [accepts EXCEPT ![c] = call]
  BY <1>1, <1>2
<1> QED BY <1>3, <1>5, <1>6, AcceptMoves

LEMMA VerifyStep ==
    ASSUME RedemptionInv, NEW c \in Accept, Verify(c)
    PROVE  RedemptionInv'
<1>1. PICK was, event : was = accepts[c] /\ event = was.event
  OBVIOUS
<1>2. /\ was.at = "verifying" /\ IsTrue(event) /\ UNCHANGED <<snapshots, requests, opened, mutated>>
      /\ accepts' = [accepts EXCEPT ![c].at = "verified", ![c].commitment = event]
  BY <1>1 DEF Verify, chainVars
<1>3. AcceptIsSound(was) /\ Waiting(was)
  BY <1>1, <1>2 DEF RedemptionInv, Waiting
<1>4. PICK placed : placed = [was EXCEPT !.at = "verified"]
  OBVIOUS
<1>5. PICK call : call = [placed EXCEPT !.commitment = event]
  OBVIOUS
<1>6. DOMAIN was = {"at", "job", "index", "event", "eventHash", "commitment"}
  BY <1>3 DEF AcceptIsSound
<1>7. /\ DOMAIN call = DOMAIN was /\ call.at = "verified" /\ call.job = was.job /\ call.index = was.index
      /\ call.event = event /\ call.eventHash = was.eventHash /\ call.commitment = event
  BY <1>1, <1>4, <1>5, <1>6
<1>8. accepts' = [accepts EXCEPT ![c] = call]
  <2>1. PICK mid : mid = [accepts EXCEPT ![c] = placed]
    OBVIOUS
  <2>2. mid = [accepts EXCEPT ![c].at = "verified"]
    BY <1>1, <1>4, <2>1
  <2>3. accepts' = [mid EXCEPT ![c].commitment = event]
    BY <1>2, <2>2
  <2>4. accepts' = [mid EXCEPT ![c] = [mid[c] EXCEPT !.commitment = event]]
    BY <2>3
  <2>5. mid[c] = placed
    BY <2>1 DEF RedemptionInv
  <2>6. accepts' = [mid EXCEPT ![c] = call]
    BY <1>5, <2>4, <2>5
  <2> QED BY <2>1, <2>6
<1>9. AcceptIsSound(call)
  BY <1>1, <1>2, <1>3, <1>7 DEF AcceptIsSound
<1> QED BY <1>2, <1>8, <1>9, AcceptMoves

\* A settled leg is the leg it was, with its outcome.
LEMMA SettledLegs ==
    ASSUME NEW legs, NEW index \in DOMAIN legs, NEW event, NEW commitment,
           \A i \in DOMAIN legs : DOMAIN legs[i] = LegFields,
           NEW settled, settled = Settled(legs, index, event, commitment)
    PROVE  /\ DOMAIN settled = DOMAIN legs
           /\ \A i \in DOMAIN legs :
                /\ DOMAIN settled[i] = LegFields
                /\ settled[i].requestId = legs[i].requestId /\ settled[i].payTo = legs[i].payTo
                /\ settled[i].agentVault = legs[i].agentVault /\ settled[i].value = legs[i].value
                /\ i # index => settled[i].state = legs[i].state /\ settled[i].settlement = legs[i].settlement
           /\ settled[index].state = event.kind /\ settled[index].settlement = commitment
           /\ Sum(settled) = Sum(legs)
<1>1. PICK leg : leg = legs[index]
  OBVIOUS
<1>2. PICK next : next = [leg EXCEPT !.state = event.kind, !.settlement = commitment]
  OBVIOUS
<1>3. settled = [legs EXCEPT ![index] = next]
  BY <1>1, <1>2 DEF Settled
<1>4. /\ DOMAIN next = LegFields /\ next.requestId = leg.requestId /\ next.payTo = leg.payTo
      /\ next.agentVault = leg.agentVault /\ next.value = leg.value
      /\ next.state = event.kind /\ next.settlement = commitment
  BY <1>1, <1>2 DEF LegFields
<1>5. DOMAIN settled = DOMAIN legs /\ \A i \in DOMAIN legs : settled[i] = IF i = index THEN next ELSE legs[i]
  BY <1>3
<1>6. \A i \in DOMAIN legs : settled[i].value = legs[i].value
  BY <1>1, <1>4, <1>5
<1>7. [i \in DOMAIN settled |-> settled[i].value] = [i \in DOMAIN legs |-> legs[i].value]
  BY <1>5, <1>6
<1>8. Sum(settled) = Sum(legs)
  BY <1>5, <1>7 DEF Sum
<1> QED BY <1>1, <1>4, <1>5, <1>6, <1>8

LEMMA AcceptedStep ==
    ASSUME RedemptionInv, NEW c \in Accept, Accepted(c)
    PROVE  RedemptionInv'
<1>1. PICK call, job, index, event, commitment :
        /\ call = accepts[c] /\ job = call.job /\ index = call.index
        /\ event = call.event /\ commitment = call.commitment
  OBVIOUS
<1>2. PICK legs, settled : legs = job.requests /\ settled = Settled(legs, index, event, commitment)
  OBVIOUS
<1>3. PICK next : next = [job EXCEPT !.state = ExpectedState(settled), !.requests = settled]
  OBVIOUS
<1>4. /\ call.at = "verified" /\ assertRedemptionJobIntegrity(job) /\ event = call.eventHash
      /\ Snapshot(next) /\ accepts' = [accepts EXCEPT ![c] = Called]
      /\ UNCHANGED <<requests, opened, mutated>>
  BY <1>1, <1>2, <1>3 DEF Accepted, StillIntact, SameEvent, chainVars
<1>5. AcceptIsSound(call) /\ Waiting(call)
  BY <1>1, <1>4 DEF RedemptionInv, Waiting
<1>6. /\ IsRedemption(job) /\ job.state = "REQUESTED" /\ FollowsChain(job)
      /\ index \in DOMAIN legs /\ legs[index].requestId = event.requestId
      /\ event \in Event /\ IsTrue(event) /\ commitment = event
  BY <1>1, <1>2, <1>4, <1>5 DEF AcceptIsSound
<1>7. \A i \in DOMAIN legs : DOMAIN legs[i] = LegFields
  BY <1>2, <1>6 DEF IsRedemption
<1>8. /\ DOMAIN settled = DOMAIN legs
      /\ \A i \in DOMAIN legs :
           /\ DOMAIN settled[i] = LegFields
           /\ settled[i].requestId = legs[i].requestId /\ settled[i].payTo = legs[i].payTo
           /\ settled[i].agentVault = legs[i].agentVault /\ settled[i].value = legs[i].value
           /\ i # index => settled[i].state = legs[i].state /\ settled[i].settlement = legs[i].settlement
      /\ settled[index].state = event.kind /\ settled[index].settlement = commitment
      /\ Sum(settled) = Sum(legs)
  BY <1>2, <1>6, <1>7, SettledLegs
<1>9. event.kind \in {"UNDERLYING_PAID", "COLLATERAL_DEFAULT"} /\ event.kind # NoEvent.kind
  BY <1>6 DEF Event, NoEvent
<1>10. event.kind # "REQUESTED" /\ commitment # NoEvent
  BY <1>6, <1>9
<1>11. PICK r, state : r = checkpointRedemptionJob(next) /\ state = ExpectedState(settled)
  OBVIOUS
<1>12. /\ DOMAIN next = RedemptionFields /\ next.intent = job.intent /\ next.intentHash = job.intentHash
       /\ next.state = state /\ next.transaction = job.transaction /\ next.redeemed = job.redeemed
       /\ next.remaining = job.remaining /\ next.requests = settled
  BY <1>3, <1>6, <1>11 DEF IsRedemption, RedemptionFields
<1>13. /\ DOMAIN r = RedemptionFields /\ r.intent = job.intent /\ r.intentHash = job.intentHash
       /\ r.state = state /\ r.transaction = job.transaction /\ r.redeemed = job.redeemed
       /\ r.remaining = job.remaining /\ r.requests = settled /\ r.checkpointHash = Checkpoint(next)
  BY <1>11, <1>12 DEF checkpointRedemptionJob, RedemptionFields
<1>14. Checkpoint(r) = Checkpoint(next)
  BY <1>12, <1>13 DEF Checkpoint
<1>15. LegsOf(r, settled)
  <2>1. LegsOf(job, legs)
    BY <1>2, <1>4 DEF assertRedemptionJobIntegrity
  <2>2. /\ [i \in DOMAIN settled |-> settled[i].requestId] = [i \in DOMAIN legs |-> legs[i].requestId]
        /\ [i \in DOMAIN settled |-> settled[i].agentVault] = [i \in DOMAIN legs |-> legs[i].agentVault]
    BY <1>8
  <2> QED BY <1>8, <1>13, <2>1, <2>2 DEF LegsOf
<1>16. \A i \in DOMAIN settled : (settled[i].state = "REQUESTED") = (settled[i].settlement = NoEvent)
  <2>1. \A i \in DOMAIN legs : (legs[i].state = "REQUESTED") = (legs[i].settlement = NoEvent)
    BY <1>2, <1>4 DEF assertRedemptionJobIntegrity
  <2> QED BY <1>8, <1>10, <2>1
<1>17. state # "CREATED"
  <2>1. settled # <<>>
    <3>1. PICK none : none = <<>>
      OBVIOUS
    <3>2. DOMAIN none = {}
      BY <3>1
    <3> QED BY <1>6, <1>8, <3>1, <3>2
  <2> QED BY <1>11, <2>1 DEF ExpectedState
<1>18. /\ job.intentHash = job.intent /\ job.transaction # NoTransaction
       /\ job.redeemed = Sum(legs) /\ job.redeemed + job.remaining = job.intent.amount
  BY <1>2, <1>4, <1>6 DEF assertRedemptionJobIntegrity
<1>19. assertRedemptionJobIntegrity(r)
  BY <1>8, <1>11, <1>13, <1>14, <1>15, <1>16, <1>17, <1>18 DEF assertRedemptionJobIntegrity
<1>20. ASSUME NEW i \in DOMAIN settled PROVE LegIsTrue(settled[i], job.intentHash)
  <2>1. LegIsTrue(legs[i], job.intentHash)
    BY <1>2, <1>6, <1>8 DEF FollowsChain
  <2>2. CASE i = index
    BY <1>6, <1>8, <2>1, <2>2 DEF LegIsTrue, IsTrue
  <2>3. CASE i # index
    BY <1>8, <2>1, <2>3 DEF LegIsTrue
  <2> QED BY <2>2, <2>3
<1>21. FollowsChain(r)
  <2>1. /\ job.transaction \in 1..LastTransaction
        /\ {legs[i].requestId : i \in DOMAIN legs} = OpenedBy(job.transaction)
        /\ Sum(legs) <= job.intentHash.amount
    BY <1>2, <1>6 DEF FollowsChain
  <2>2. {settled[i].requestId : i \in DOMAIN settled} = {legs[i].requestId : i \in DOMAIN legs}
    BY <1>8
  <2> QED BY <1>8, <1>13, <1>20, <2>1, <2>2 DEF FollowsChain
<1>22. SnapshotIsSound(r)
  BY <1>6, <1>8, <1>13, <1>19, <1>21 DEF SnapshotIsSound, IsRedemption
<1>23. ChainGrows
  BY <1>4, SameChainGrows DEF RedemptionInv
<1>24. \A j \in snapshots' : SnapshotIsSound(j)'
  BY <1>4, <1>11, <1>22, SnapshotKept
<1>25. PICK over : over = Called
  OBVIOUS
<1>26. AcceptIsSound(over)'
  BY <1>4, <1>23, <1>25, OverIsSound, StillAccepting DEF RedemptionInv
<1> QED BY <1>4, <1>23, <1>24, <1>25, <1>26, RequestsKept, AcceptsAfter DEF RedemptionInv, ChainGrows

\* What happens around the calls.
LEMMA CallEndsStep == ASSUME RedemptionInv, CallEnds PROVE RedemptionInv'
<1>1. PICK over : over = Called
  OBVIOUS
<1>2. RequestIsSound(over) /\ AcceptIsSound(over)
  BY <1>1, OverIsSound
<1>3. ASSUME NEW c \in Request, requests' = [requests EXCEPT ![c] = Called],
             UNCHANGED <<snapshots, accepts, chainVars, mutated>>
      PROVE  RedemptionInv'
  BY <1>1, <1>2, <1>3, RequestMoves DEF chainVars
<1>4. ASSUME NEW c \in Accept, accepts' = [accepts EXCEPT ![c] = Called],
             UNCHANGED <<snapshots, requests, chainVars, mutated>>
      PROVE  RedemptionInv'
  BY <1>1, <1>2, <1>4, AcceptMoves DEF chainVars
<1> QED BY <1>3, <1>4 DEF CallEnds

LEMMA MutateStep == ASSUME RedemptionInv, MutateObject PROVE RedemptionInv'
<1>1. mutated \in BOOLEAN /\ ~ mutated /\ mutated' = TRUE /\ UNCHANGED <<snapshots, opened>>
  BY DEF RedemptionInv, MutateObject, chainVars
<1>2. ChainGrows
  BY <1>1, SameChainGrows DEF RedemptionInv
<1>3. ASSUME NEW c \in Request, NEW intent \in Intent, Waiting(requests[c]),
             requests' = [requests EXCEPT ![c].job.intent = intent], UNCHANGED accepts
      PROVE  RedemptionInv'
  <2>1. PICK was, job : was = requests[c] /\ job = was.job
    OBVIOUS
  <2>2. RequestIsSound(was) /\ Waiting(was)
    BY <1>3, <2>1 DEF RedemptionInv
  <2>3. PICK other : other = [job EXCEPT !.intent = intent]
    OBVIOUS
  <2>4. PICK call : call = [was EXCEPT !.job = other]
    OBVIOUS
  <2>5. requests' = [requests EXCEPT ![c] = call]
    BY <1>3, <2>1, <2>3, <2>4
  <2>6. IsRedemption(other)
    BY <2>1, <2>2, <2>3 DEF RequestIsSound, IsRedemption, RedemptionFields
  <2>7. DOMAIN call = DOMAIN was /\ call.at = was.at /\ call.job = other /\ call.sent = was.sent
        /\ call.transaction = was.transaction
    BY <2>2, <2>4 DEF RequestIsSound
  <2>8. RequestIsSound(call)
    BY <2>2, <2>6, <2>7 DEF RequestIsSound
  <2>9. RequestIsSound(call)'
    BY <1>2, <2>8, StillRequested
  <2> QED BY <1>1, <1>2, <1>3, <2>5, <2>9, SnapshotsKept, RequestsAfter, AcceptsKept DEF RedemptionInv, ChainGrows
<1>4. ASSUME NEW c \in Accept, NEW was, was = accepts[c], Waiting(was),
             NEW call, accepts' = [accepts EXCEPT ![c] = call],
             DOMAIN call = DOMAIN was, call.at = was.at, call.index = was.index,
             call.eventHash = was.eventHash, call.commitment = was.commitment,
             IsRedemption(call.job), call.job.state = was.job.state,
             call.job.requests = was.job.requests, FollowsChain(call.job),
             call.event \in Event, UNCHANGED requests
      PROVE  RedemptionInv'
  <2>1. AcceptIsSound(was)
    BY <1>4 DEF RedemptionInv
  <2>2. call.at = "verified" =>
          was.commitment = was.eventHash /\ was.commitment \in Event /\ IsTrue(was.commitment)
    BY <1>1, <1>4, <2>1 DEF AcceptIsSound
  <2>3. call.event \in Event' /\ was.eventHash \in Event' /\ FollowsChain(call.job)'
    BY <1>2, <1>4, <2>1, StillFollows, StillAnEvent DEF AcceptIsSound, RedemptionInv
  <2>4. call.at = "verified" => was.commitment \in Event' /\ IsTrue(was.commitment)'
    BY <1>2, <2>2, StillAnEvent DEF RedemptionInv
  <2>5. AcceptIsSound(call)'
    BY <1>1, <1>4, <2>1, <2>2, <2>3, <2>4 DEF AcceptIsSound
  <2> QED BY <1>1, <1>2, <1>4, <2>5, SnapshotsKept, RequestsKept, AcceptsAfter DEF RedemptionInv, ChainGrows
<1>5. ASSUME NEW c \in Accept, NEW intent \in Intent, Waiting(accepts[c]),
             accepts' = [accepts EXCEPT ![c].job.intent = intent], UNCHANGED requests
      PROVE  RedemptionInv'
  <2>1. PICK was, job : was = accepts[c] /\ job = was.job
    OBVIOUS
  <2>2. AcceptIsSound(was) /\ Waiting(was)
    BY <1>5, <2>1 DEF RedemptionInv
  <2>3. PICK other : other = [job EXCEPT !.intent = intent]
    OBVIOUS
  <2>4. PICK call : call = [was EXCEPT !.job = other]
    OBVIOUS
  <2>5. accepts' = [accepts EXCEPT ![c] = call]
    BY <1>5, <2>1, <2>3, <2>4
  <2>6. /\ IsRedemption(job) /\ FollowsChain(job) /\ was.event \in Event
        /\ DOMAIN was = {"at", "job", "index", "event", "eventHash", "commitment"}
    BY <2>1, <2>2 DEF AcceptIsSound
  <2>7. /\ DOMAIN other = RedemptionFields /\ other.intent = intent
        /\ other.state = job.state /\ other.requests = job.requests
        /\ other.intentHash = job.intentHash /\ other.transaction = job.transaction
    BY <2>3, <2>6 DEF IsRedemption, RedemptionFields
  <2>8. IsRedemption(other) /\ FollowsChain(other)
    BY <2>6, <2>7 DEF IsRedemption, FollowsChain
  <2>9. DOMAIN call = DOMAIN was /\ call.at = was.at /\ call.job = other /\ call.index = was.index
        /\ call.event = was.event /\ call.eventHash = was.eventHash /\ call.commitment = was.commitment
    BY <2>4, <2>6
  <2> QED BY <1>4, <1>5, <2>1, <2>2, <2>5, <2>6, <2>7, <2>8, <2>9
<1>6. ASSUME NEW c \in Accept, NEW event \in Event, Waiting(accepts[c]),
             accepts' = [accepts EXCEPT ![c].event = event], UNCHANGED requests
      PROVE  RedemptionInv'
  <2>1. PICK was : was = accepts[c]
    OBVIOUS
  <2>2. AcceptIsSound(was) /\ Waiting(was)
    BY <1>6, <2>1 DEF RedemptionInv
  <2>3. PICK call : call = [was EXCEPT !.event = event]
    OBVIOUS
  <2>4. accepts' = [accepts EXCEPT ![c] = call]
    BY <1>6, <2>1, <2>3
  <2>5. /\ IsRedemption(was.job) /\ FollowsChain(was.job)
        /\ DOMAIN was = {"at", "job", "index", "event", "eventHash", "commitment"}
    BY <2>1, <2>2 DEF AcceptIsSound
  <2>6. DOMAIN call = DOMAIN was /\ call.at = was.at /\ call.job = was.job /\ call.index = was.index
        /\ call.event = event /\ call.eventHash = was.eventHash /\ call.commitment = was.commitment
    BY <2>3, <2>5
  <2> QED BY <1>4, <1>6, <2>1, <2>2, <2>4, <2>5, <2>6
<1> QED BY <1>3, <1>5, <1>6 DEF MutateObject

\* Legs are settled, and FAssets spent, whatever the calls do.
LEMMA ChainStep ==
    ASSUME RedemptionInv, ChainGrows, UNCHANGED <<snapshots, requests, accepts, mutated>>
    PROVE  RedemptionInv'
BY SnapshotsKept, RequestsKept, AcceptsKept DEF RedemptionInv, ChainGrows

LEMMA RedemptionKeeps ==
    ASSUME RedemptionInv, [RedemptionNext]_redemptionVars
    PROVE  RedemptionInv'
<1>1. ASSUME NEW intent \in Intent, createRedemptionJob(intent) PROVE RedemptionInv'
  BY <1>1, CreateStep
<1>2. ASSUME NEW c \in Request,
             \/ \E job \in snapshots : RequestRedemption(c, job)
             \/ ReadBalance(c) \/ ReadAllowance(c) \/ Approve(c) \/ RereadAllowance(c)
      PROVE  RedemptionInv'
  BY <1>2, AskingStep
<1>3. ASSUME NEW c \in Request, Requested(c) PROVE RedemptionInv'
  BY <1>3, RequestedStep
<1>4. ASSUME NEW c \in Request,
             NEW agents \in {<<a>> : a \in Agent} \cup {s \in Agent \X Agent : s[1] # s[2]},
             Redeem(c, agents)
      PROVE  RedemptionInv'
  BY <1>4, RedeemStep
<1>5. ASSUME NEW c \in Accept, NEW job \in snapshots, NEW event \in Event, AcceptRedemption(c, job, event)
      PROVE  RedemptionInv'
  BY <1>5, AcceptStep
<1>6. ASSUME NEW c \in Accept, Verify(c) \/ Accepted(c) PROVE RedemptionInv'
  BY <1>6, VerifyStep, AcceptedStep
<1>7. ASSUME CallEnds \/ MutateObject PROVE RedemptionInv'
  BY <1>7, CallEndsStep, MutateStep
<1>8. ASSUME SpendAsset \/ UNCHANGED redemptionVars PROVE RedemptionInv'
  <2>1. UNCHANGED <<snapshots, requests, accepts, opened, mutated>>
    BY <1>8 DEF SpendAsset, redemptionVars, chainVars
  <2> QED BY <2>1, ChainStep, SameChainGrows DEF RedemptionInv
<1>9. ASSUME NEW id \in DOMAIN opened, SettleLeg(id) PROVE RedemptionInv'
  <2>1. ChainGrows
    BY <1>9, SettledLegGrows DEF RedemptionInv
  <2>2. UNCHANGED <<snapshots, requests, accepts, mutated>>
    BY <1>9 DEF SettleLeg
  <2> QED BY <2>1, <2>2, ChainStep
<1> QED BY <1>1, <1>2, <1>3, <1>4, <1>5, <1>6, <1>7, <1>8, <1>9 DEF RedemptionNext

LEMMA RedemptionStarts == RedemptionInit => RedemptionInv
<1> SUFFICES ASSUME RedemptionInit PROVE RedemptionInv
  OBVIOUS
<1>1. PICK none : none = opened
  OBVIOUS
<1>2. none = <<>> /\ none \in Seq(OpenedLeg) /\ DOMAIN none = {}
  <2>1. none = <<>>
    BY <1>1 DEF RedemptionInit
  <2>2. none \in Seq(OpenedLeg)
    BY <2>1, EmptySeq
  <2> QED BY <2>1, <2>2
<1>3. OpenedInOrder
  BY <1>1, <1>2 DEF OpenedInOrder
<1>4. PICK un : un = Uncalled
  OBVIOUS
<1>5. ~ Waiting(un)
  BY <1>4 DEF Uncalled, Waiting
<1>6. RequestIsSound(un) /\ AcceptIsSound(un)
  BY <1>5 DEF RequestIsSound, AcceptIsSound
<1>7. requests = [c \in Request |-> un] /\ accepts = [c \in Accept |-> un]
      /\ snapshots = {} /\ mutated = FALSE
  BY <1>4 DEF RedemptionInit
<1> QED BY <1>3, <1>6, <1>7 DEF RedemptionInv

\* The property follows from the invariant.
LEMMA SoundSnapshots == RedemptionInv => SnapshotsAreSound
<1> SUFFICES ASSUME RedemptionInv PROVE SnapshotsAreSound
  OBVIOUS
<1>1. ReturnedSnapshotsVerify
  BY DEF RedemptionInv, SnapshotIsSound, ReturnedSnapshotsVerify
<1>2. ASSUME NEW job \in snapshots, job.state # "CREATED"
      PROVE  /\ {job.requests[i].requestId : i \in DOMAIN job.requests} = OpenedBy(job.transaction)
             /\ Sum(job.requests) <= job.intentHash.amount
             /\ \A i \in DOMAIN job.requests :
                  /\ opened[job.requests[i].requestId].payTo = job.intentHash.payTo
                  /\ job.requests[i].state # "REQUESTED" =>
                       /\ job.requests[i].state = opened[job.requests[i].requestId].outcome
                       /\ job.requests[i].settlement.requestId = job.requests[i].requestId
  BY <1>2 DEF RedemptionInv, SnapshotIsSound, FollowsChain, LegIsTrue
<1>3. ASSUME NEW job \in snapshots, job.state # "CREATED", redemptionOutcome(job) = "UNDERLYING_PAID"
      PROVE  \A i \in DOMAIN job.requests : opened[job.requests[i].requestId].outcome = "UNDERLYING_PAID"
  <2>1. {i \in DOMAIN job.requests : job.requests[i].state = "UNDERLYING_PAID"} = DOMAIN job.requests
    BY <1>3 DEF redemptionOutcome
  <2>2. \A i \in DOMAIN job.requests : job.requests[i].state = "UNDERLYING_PAID"
    BY <2>1
  <2> QED BY <1>2, <1>3, <2>2
<1>4. SnapshotsFollowChain
  BY <1>2, <1>3 DEF SnapshotsFollowChain
<1> QED BY <1>1, <1>4 DEF SnapshotsAreSound

\* Whichever calls overlap, whatever snapshots they start from, and whatever
\* becomes of the objects they were given, what a funding or a redemption
\* snapshot says happened on the chain, and was proved of that very leg
\* (funding.ts executeDirectMint; redemption.ts acceptRedemptionPerformed).
THEOREM JobsTellTheTruth == JobsSpec => []JobsAreSound
<1>1. JobsInit => FundingInv /\ RedemptionInv
  BY FundingStarts, RedemptionStarts DEF JobsInit
<1>2. FundingInv /\ RedemptionInv /\ [JobsNext]_<<fundingVars, redemptionVars>>
        => FundingInv' /\ RedemptionInv'
  <2> SUFFICES ASSUME FundingInv, RedemptionInv, [JobsNext]_<<fundingVars, redemptionVars>>
               PROVE  FundingInv' /\ RedemptionInv'
    OBVIOUS
  <2>1. [FundingNext]_fundingVars /\ [RedemptionNext]_redemptionVars
    BY DEF JobsNext
  <2> QED BY <2>1, FundingKeeps, RedemptionKeeps
<1>3. FundingInv /\ RedemptionInv => JobsAreSound
  BY SoundSnapshots DEF JobsAreSound, FundingInv, MintIsTrue, MintedJobsWereMinted
<1> QED BY <1>1, <1>2, <1>3, PTL DEF JobsSpec

-----------------------------------------------------------------------------
(* The relay.                                                               *)

(* Operators.                                                               *)

\* What an evaluation finds matching: two envelopes that were answered, of one
\* digest, of two machines.
LEMMA MatchingIsPair ==
    ASSUME NEW answers \in [Machine -> Envelope \cup {Pending, Failed}],
           \A m \in Machine : answers[m] # Pending,
           NEW g \in Matching(answers)
    PROVE  /\ g \in Envelope \X Envelope
           /\ \E i, j \in Machine : g[1] = answers[i] /\ g[2] = answers[j]
           /\ g[1].digest = g[2].digest /\ g[1].machine # g[2].machine
<1>1. PICK i \in Machine, j \in Machine :
        /\ i < j
        /\ Group(answers, answers[i].digest) \cap 1..j = {i, j}
        /\ g = <<answers[i], answers[j]>>
  BY DEF Matching, FirstTwo
<1>2. i \in Group(answers, answers[i].digest) /\ j \in Group(answers, answers[i].digest)
  BY <1>1
<1>3. /\ answers[i] # Failed /\ answers[j] # Failed
      /\ answers[j].digest = answers[i].digest
      /\ \A h \in 1..(j - 1) : answers[h].machine # answers[j].machine
  BY <1>2 DEF Group, Valid
<1>4. i \in 1..(j - 1)
  BY <1>1 DEF Machine
<1>5. answers[i] \in Envelope /\ answers[j] \in Envelope
  BY <1>3
<1> QED BY <1>1, <1>3, <1>4, <1>5

LEMMA NotAnEnvelope == Pending \notin Envelope /\ Failed \notin Envelope /\ Pending # Failed
BY DEF Pending, Failed, Envelope, Machine

LEMMA TailOfTwo ==
    ASSUME NEW queue \in Seq(Envelope), Len(queue) = 2
    PROVE  /\ Tail(queue) \in Seq(Envelope) /\ Tail(queue) # NoOperation
           /\ Len(Tail(queue)) = 1 /\ DOMAIN Tail(queue) = {1}
           /\ Tail(queue)[1] = queue[2] /\ 2 \in DOMAIN queue
<1>1. /\ Tail(queue) \in Seq(Envelope) /\ Len(Tail(queue)) = 1
      /\ Tail(queue)[1] = queue[2]
  <2>1. queue # <<>>
    OBVIOUS
  <2>2. /\ Tail(queue) \in Seq(Envelope) /\ Len(Tail(queue)) = Len(queue) - 1
        /\ \A i \in 1..Len(Tail(queue)) : Tail(queue)[i] = queue[i + 1]
    BY <2>1, HeadTailProperties
  <2> QED BY <2>2
<1>2. DOMAIN Tail(queue) = 1..1 /\ DOMAIN queue = 1..2
  BY <1>1, LenProperties
<1>3. Tail(queue) # NoOperation
  BY <1>1, SMTT(30) DEF NoOperation
<1> QED BY <1>1, <1>2, <1>3

-----------------------------------------------------------------------------
(* The inductive invariant.                                                 *)

\* An operation is counted from the call that started it until it ends.
CapacityAccounted ==
    /\ IsFiniteSet(InFlight)
    /\ activeEvaluations = Cardinality(InFlight)
    /\ activeEvaluations <= MaxConcurrentEvaluations

\* Envelopes that endpoints delivered were signed.
AnswersAreSigned ==
    \A k \in InFlight, m \in Machine :
        inFlightEvaluations[k][m] \in signed \cup {Pending, Failed}

\* What is left of a submission: both envelopes, or the second one, when a
\* vote for its digest was taken before.
QueuesAreHalves ==
    \A d \in Digest :
        LET queue == inFlightSubmissions[d] IN
        queue # NoOperation =>
            /\ Len(queue) \in {1, 2}
            /\ \A i \in DOMAIN queue : queue[i] \in signed /\ queue[i].digest = d
            /\ Len(queue) = 1 => \E v \in votes : v.digest = d

RelayInv ==
    /\ RelayTypeOK
    /\ CapacityAccounted
    /\ AnswersAreSigned
    /\ QueuesAreHalves
    /\ OutcomesAreTrue
    /\ WaitersAreServed

LEMMA RelayInvInit == RelayInit => RelayInv
<1> SUFFICES ASSUME RelayInit PROVE RelayInv
  OBVIOUS
<1>1. InFlight = {}
  BY DEF RelayInit, InFlight
<1>2. CapacityAccounted
  <2>1. activeEvaluations = 0
    BY DEF RelayInit
  <2> QED BY <1>1, <2>1, FS_EmptySet, RelayAssumption DEF CapacityAccounted
<1>3. RelayTypeOK
  <2>1. 0 \in 0..MaxStarts
    BY RelayAssumption
  <2>2. NoOperation \in Seq(Envelope)
    BY DEF NoOperation
  <2> QED BY <2>1, <2>2 DEF RelayInit, RelayTypeOK, CallerState
<1>4. AnswersAreSigned
  BY <1>1 DEF AnswersAreSigned
<1>5. QueuesAreHalves
  BY DEF RelayInit, QueuesAreHalves
<1>6. OutcomesAreTrue /\ WaitersAreServed
  BY DEF RelayInit, Idle, OutcomesAreTrue, ReadyHasTwoSigners, SuccessIsDecision, WaitersAreServed
<1> QED BY <1>2, <1>3, <1>4, <1>5, <1>6 DEF RelayInv

-----------------------------------------------------------------------------
(* One step per action.                                                     *)

\* A step that leaves evaluations alone leaves their accounting alone.
LEMMA EvaluationsUnchanged ==
    ASSUME RelayInv, UNCHANGED <<inFlightEvaluations, activeEvaluations>>, signed \subseteq signed'
    PROVE  CapacityAccounted' /\ AnswersAreSigned'
BY DEF RelayInv, CapacityAccounted, AnswersAreSigned, InFlight

LEMMA EvaluateStep ==
    ASSUME RelayInv, NEW c \in Caller, NEW k \in Key, evaluate(c, k)
    PROVE  RelayInv'
<1> USE DEF RelayInv
<1>1. /\ caller' = [caller EXCEPT ![c] = [at |-> "evaluating", key |-> k]]
      /\ UNCHANGED <<inFlightSubmissions, signed, votes, decided>>
  BY DEF evaluate
<1>2. [at |-> "evaluating", key |-> k] \in CallerState
  BY DEF CallerState
<1>3. CASE k \in InFlight
  <2>1. UNCHANGED <<inFlightEvaluations, activeEvaluations, starts>>
    BY <1>3 DEF evaluate
  <2>2. CapacityAccounted' /\ AnswersAreSigned'
    BY <1>1, <2>1, EvaluationsUnchanged
  <2>3. RelayTypeOK'
    BY <1>1, <1>2, <2>1 DEF RelayTypeOK
  <2>4. QueuesAreHalves'
    BY <1>1 DEF QueuesAreHalves
  <2>5. OutcomesAreTrue'
    BY <1>1 DEF OutcomesAreTrue, ReadyHasTwoSigners, SuccessIsDecision, RelayTypeOK
  <2>6. WaitersAreServed'
    BY <1>1, <1>3, <2>1 DEF WaitersAreServed, InFlight, RelayTypeOK
  <2> QED BY <2>2, <2>3, <2>4, <2>5, <2>6
<1>4. CASE k \notin InFlight
  <2>1. /\ HasCapacity /\ starts < MaxStarts
        /\ inFlightEvaluations' = [inFlightEvaluations EXCEPT ![k] = [m \in Machine |-> Pending]]
        /\ activeEvaluations' = activeEvaluations + 1
        /\ starts' = starts + 1
    BY <1>4 DEF evaluate
  <2>2. [m \in Machine |-> Pending] # NoOperation
    BY DEF NoOperation, Machine
  <2>3. InFlight' = InFlight \cup {k}
    BY <2>1, <2>2 DEF InFlight, RelayTypeOK
  <2>4. CapacityAccounted'
    <3>1. /\ IsFiniteSet(InFlight \cup {k})
          /\ Cardinality(InFlight \cup {k}) = Cardinality(InFlight) + 1
      BY <1>4, FS_AddElement DEF CapacityAccounted
    <3>2. Cardinality(InFlight) \in Nat
      BY FS_CardinalityType DEF CapacityAccounted
    <3> QED BY <2>1, <2>3, <3>1, <3>2, RelayAssumption DEF CapacityAccounted, HasCapacity
  <2>5. [m \in Machine |-> Pending] \in [Machine -> Envelope \cup {Pending, Failed}]
    OBVIOUS
  <2>6. RelayTypeOK'
    <3>1. starts' \in 0..MaxStarts
      BY <2>1, RelayAssumption DEF RelayTypeOK
    <3>2. activeEvaluations' \in Nat
      BY <2>1 DEF RelayTypeOK
    <3> QED BY <1>1, <1>2, <2>1, <2>5, <3>1, <3>2 DEF RelayTypeOK
  <2>7. AnswersAreSigned'
    BY <1>1, <2>1, <2>3 DEF AnswersAreSigned, RelayTypeOK, InFlight
  <2>8. QueuesAreHalves'
    BY <1>1 DEF QueuesAreHalves
  <2>9. OutcomesAreTrue'
    BY <1>1 DEF OutcomesAreTrue, ReadyHasTwoSigners, SuccessIsDecision, RelayTypeOK
  <2>10. WaitersAreServed'
    BY <1>1, <2>3 DEF WaitersAreServed, RelayTypeOK
  <2> QED BY <2>4, <2>6, <2>7, <2>8, <2>9, <2>10
<1> QED BY <1>3, <1>4

LEMMA DeliveryStep ==
    ASSUME RelayInv, NEW k \in InFlight, NEW m \in Machine, NEW answer,
           answer \in signed' \cup {Failed}, signed \subseteq signed', signed' \subseteq Envelope,
           inFlightEvaluations' = [inFlightEvaluations EXCEPT ![k][m] = answer],
           UNCHANGED <<caller, activeEvaluations, inFlightSubmissions, votes, decided, starts>>
    PROVE  RelayInv'
<1> USE DEF RelayInv
<1>1. k \in Key /\ inFlightEvaluations[k] \in [Machine -> Envelope \cup {Pending, Failed}]
  BY DEF InFlight, RelayTypeOK
<1>2. /\ inFlightEvaluations'[k] = [inFlightEvaluations[k] EXCEPT ![m] = answer]
      /\ inFlightEvaluations'[k] \in [Machine -> Envelope \cup {Pending, Failed}]
      /\ \A q \in Key : q # k => inFlightEvaluations'[q] = inFlightEvaluations[q]
  BY <1>1 DEF RelayTypeOK
<1>3. inFlightEvaluations'[k] # NoOperation
  BY <1>2 DEF NoOperation, Machine
<1>4. InFlight' = InFlight
  BY <1>1, <1>2, <1>3 DEF InFlight
<1>5. RelayTypeOK'
  BY <1>1, <1>2 DEF RelayTypeOK
<1>6. AnswersAreSigned'
  <2> SUFFICES ASSUME NEW q \in InFlight, NEW n \in Machine
               PROVE  inFlightEvaluations'[q][n] \in signed' \cup {Pending, Failed}
    BY <1>4 DEF AnswersAreSigned
  <2> QED BY <1>1, <1>2 DEF AnswersAreSigned, InFlight
<1>7. CapacityAccounted'
  BY <1>4 DEF CapacityAccounted
<1>8. QueuesAreHalves' /\ OutcomesAreTrue'
  BY DEF QueuesAreHalves, OutcomesAreTrue, ReadyHasTwoSigners, SuccessIsDecision
<1>9. WaitersAreServed'
  BY <1>4 DEF WaitersAreServed
<1> QED BY <1>5, <1>6, <1>7, <1>8, <1>9

LEMMA AnswerStep ==
    ASSUME RelayInv, NEW k \in Key, NEW m \in Machine, NEW e \in Envelope, Answer(k, m, e)
    PROVE  RelayInv'
<1>1. signed' = signed \cup {e} /\ k \in InFlight
  BY DEF Answer
<1>2. signed' \subseteq Envelope
  BY <1>1 DEF RelayInv, RelayTypeOK
<1> QED BY <1>1, <1>2, DeliveryStep DEF Answer

LEMMA FailStep ==
    ASSUME RelayInv, NEW k \in Key, NEW m \in Machine, Fail(k, m)
    PROVE  RelayInv'
<1>1. signed' \subseteq Envelope
  BY DEF Fail, RelayInv, RelayTypeOK
<1> QED BY <1>1, DeliveryStep DEF Fail

LEMMA EvaluateOnceEndsStep ==
    ASSUME RelayInv, NEW k \in Key, evaluateOnceEnds(k)
    PROVE  RelayInv'
<1> USE DEF RelayInv
<1> DEFINE answers == inFlightEvaluations[k]
           Waits(c) == caller[c] = [at |-> "evaluating", key |-> k]
<1>1. /\ k \in InFlight /\ AllSettled(k)
      /\ inFlightEvaluations' = [inFlightEvaluations EXCEPT ![k] = NoOperation]
      /\ activeEvaluations' = activeEvaluations - 1
      /\ UNCHANGED <<inFlightSubmissions, signed, votes, decided, starts>>
  BY DEF evaluateOnceEnds, Leave
<1>2. /\ answers \in [Machine -> Envelope \cup {Pending, Failed}]
      /\ \A m \in Machine : answers[m] # Pending
      /\ \A m \in Machine : answers[m] \in signed \cup {Pending, Failed}
  BY <1>1 DEF RelayTypeOK, InFlight, AllSettled, AnswersAreSigned
<1>3. \A g \in Matching(answers) :
        /\ g \in Envelope \X Envelope
        /\ {g[1], g[2]} \subseteq signed
        /\ g[1].digest = g[2].digest /\ g[1].machine # g[2].machine
  <2> SUFFICES ASSUME NEW g \in Matching(answers)
               PROVE  /\ g \in Envelope \X Envelope
                      /\ {g[1], g[2]} \subseteq signed
                      /\ g[1].digest = g[2].digest /\ g[1].machine # g[2].machine
    OBVIOUS
  <2>1. /\ g \in Envelope \X Envelope
        /\ \E i, j \in Machine : g[1] = answers[i] /\ g[2] = answers[j]
        /\ g[1].digest = g[2].digest /\ g[1].machine # g[2].machine
    BY <1>2, MatchingIsPair
  <2>2. g[1] \in Envelope /\ g[2] \in Envelope
    BY <2>1
  <2> QED BY <1>2, <2>1, <2>2, NotAnEnvelope
\* Those who waited are told of a pair that matches, or of none.
<1>4. \A c \in Caller :
        /\ ~Waits(c) => caller'[c] = caller[c]
        /\ Waits(c) => \/ caller'[c] = Idle
                       \/ \E g \in Matching(answers) : caller'[c] = [at |-> "ready", matching |-> g]
  BY DEF evaluateOnceEnds
<1>5. \A c \in Caller : Waits(c) =>
        /\ caller'[c] \in CallerState
        /\ caller'[c].at \in {"idle", "ready"}
        /\ caller'[c].at = "ready" => caller'[c].matching \in Matching(answers)
  <2> SUFFICES ASSUME NEW c \in Caller, Waits(c)
               PROVE  /\ caller'[c] \in CallerState
                      /\ caller'[c].at \in {"idle", "ready"}
                      /\ caller'[c].at = "ready" => caller'[c].matching \in Matching(answers)
    OBVIOUS
  <2>1. CASE caller'[c] = Idle
    BY <2>1 DEF Idle, CallerState
  <2>2. CASE \E g \in Matching(answers) : caller'[c] = [at |-> "ready", matching |-> g]
    <3>1. PICK g \in Matching(answers) : caller'[c] = [at |-> "ready", matching |-> g]
      BY <2>2
    <3> HIDE DEF answers
    <3>2. g \in Envelope \X Envelope
      BY <1>3
    <3> QED BY <3>1, <3>2 DEF CallerState
  <2> QED BY <1>4, <2>1, <2>2
<1>6. caller' \in [Caller -> CallerState]
  <2>1. caller' = [c \in Caller |-> caller'[c]]
    BY DEF evaluateOnceEnds
  <2>2. \A c \in Caller : caller'[c] \in CallerState
    BY <1>4, <1>5 DEF RelayTypeOK
  <2> QED BY <2>1, <2>2
<1>7. InFlight' = InFlight \ {k}
  BY <1>1 DEF InFlight, RelayTypeOK
<1>8. CapacityAccounted' /\ activeEvaluations' \in Nat
  <2>1. /\ IsFiniteSet(InFlight \ {k})
        /\ Cardinality(InFlight \ {k}) = Cardinality(InFlight) - 1
        /\ Cardinality(InFlight \ {k}) \in Nat /\ Cardinality(InFlight) \in Nat
    BY <1>1, FS_RemoveElement, FS_CardinalityType DEF CapacityAccounted
  <2> QED BY <1>1, <1>7, <2>1, RelayAssumption DEF CapacityAccounted
<1>9. RelayTypeOK'
  BY <1>1, <1>6, <1>8 DEF RelayTypeOK
<1>10. AnswersAreSigned'
  BY <1>1, <1>7 DEF AnswersAreSigned, RelayTypeOK, InFlight
<1>11. QueuesAreHalves'
  BY <1>1 DEF QueuesAreHalves
<1>12. ReadyHasTwoSigners'
  <2> SUFFICES ASSUME NEW c \in Caller, caller'[c].at = "ready"
               PROVE  LET g == caller'[c].matching IN
                      /\ {g[1], g[2]} \subseteq signed
                      /\ g[1].machine # g[2].machine /\ g[1].digest = g[2].digest
    BY <1>1 DEF ReadyHasTwoSigners
  <2>1. CASE Waits(c)
    BY <1>3, <1>5, <2>1
  <2>2. CASE ~Waits(c)
    BY <1>4, <2>2 DEF OutcomesAreTrue, ReadyHasTwoSigners
  <2> QED BY <2>1, <2>2
<1>13. SuccessIsDecision'
  BY <1>1, <1>4, <1>5 DEF OutcomesAreTrue, SuccessIsDecision
<1>14. WaitersAreServed'
  <2>1. \A c \in Caller : caller'[c].at \in {"evaluating", "submitting"} => ~Waits(c) /\ caller'[c] = caller[c]
    BY <1>4, <1>5
  <2>2. \A c \in Caller : caller[c].at = "evaluating" /\ ~Waits(c) => caller[c].key # k
    BY DEF RelayTypeOK, CallerState, Idle
  <2> QED BY <1>1, <1>7, <2>1, <2>2 DEF WaitersAreServed
<1> QED BY <1>8, <1>9, <1>10, <1>11, <1>12, <1>13, <1>14 DEF OutcomesAreTrue

LEMMA SubmitThresholdStep ==
    ASSUME RelayInv, NEW c \in Caller, SubmitThreshold(c)
    PROVE  RelayInv'
<1> USE DEF RelayInv
<1> DEFINE g == caller[c].matching
           d == g[1].digest
<1>1. /\ g \in Envelope \X Envelope
      /\ g[1].digest = g[2].digest /\ {g[1], g[2]} \subseteq signed
  BY DEF SubmitThreshold, RelayTypeOK, CallerState, Idle, OutcomesAreTrue, ReadyHasTwoSigners
<1>2. d \in Digest
  BY <1>1 DEF Envelope
<1>3. /\ caller' = [caller EXCEPT ![c] = [at |-> "submitting", digest |-> d]]
      /\ UNCHANGED <<inFlightEvaluations, activeEvaluations, signed, votes, decided>>
  BY DEF SubmitThreshold
<1>4. [at |-> "submitting", digest |-> d] \in CallerState
  BY <1>2 DEF CallerState
<1>5. CapacityAccounted' /\ AnswersAreSigned'
  BY <1>3, EvaluationsUnchanged
<1>6. OutcomesAreTrue'
  BY <1>3 DEF OutcomesAreTrue, ReadyHasTwoSigners, SuccessIsDecision, RelayTypeOK
<1>7. CASE UNCHANGED <<inFlightSubmissions, starts>> /\ inFlightSubmissions[d] # NoOperation
  <2>1. RelayTypeOK'
    BY <1>3, <1>4, <1>7 DEF RelayTypeOK
  <2>2. QueuesAreHalves'
    BY <1>3, <1>7 DEF QueuesAreHalves
  <2>3. WaitersAreServed'
    BY <1>2, <1>3, <1>7 DEF WaitersAreServed, RelayTypeOK, InFlight
  <2> QED BY <1>5, <1>6, <2>1, <2>2, <2>3
<1>8. CASE /\ starts < MaxStarts /\ starts' = starts + 1
           /\ inFlightSubmissions' = [inFlightSubmissions EXCEPT ![d] = g]
  <2>1. /\ g \in Seq(Envelope) /\ Len(g) = 2 /\ DOMAIN g = {1, 2}
        /\ g # NoOperation
    <3>1. PICK a \in Envelope, b \in Envelope : g = <<a, b>>
      BY <1>1
    <3> HIDE DEF g
    <3> QED BY <3>1 DEF NoOperation
  <2>2. inFlightSubmissions' \in [Digest -> Seq(Envelope)]
    BY <1>8, <2>1 DEF RelayTypeOK
  <2>3. RelayTypeOK'
    <3>1. starts' \in 0..MaxStarts
      BY <1>8, RelayAssumption DEF RelayTypeOK
    <3> QED BY <1>3, <1>4, <2>2, <3>1 DEF RelayTypeOK
  <2>4. QueuesAreHalves'
    <3>1. inFlightSubmissions'[d] = g
      BY <1>2, <1>8 DEF RelayTypeOK
    <3>2. \A i \in DOMAIN g : g[i] \in signed /\ g[i].digest = d
      BY <1>1, <2>1
    <3>3. \A q \in Digest : q # d => inFlightSubmissions'[q] = inFlightSubmissions[q]
      BY <1>8 DEF RelayTypeOK
    <3> HIDE DEF g, d
    <3> QED BY <1>3, <2>1, <3>1, <3>2, <3>3 DEF QueuesAreHalves
  <2>5. WaitersAreServed'
    BY <1>2, <1>3, <1>8, <2>1 DEF WaitersAreServed, RelayTypeOK, InFlight
  <2> QED BY <1>5, <1>6, <2>3, <2>4, <2>5
<1> QED BY <1>7, <1>8 DEF SubmitThreshold

LEMMA ReturnStep ==
    ASSUME RelayInv, NEW c \in Caller, Return(c)
    PROVE  RelayInv'
<1> USE DEF RelayInv
<1>1. /\ caller' = [caller EXCEPT ![c] = Idle]
      /\ UNCHANGED <<inFlightEvaluations, activeEvaluations, inFlightSubmissions, signed,
                     votes, decided, starts>>
  BY DEF Return
<1>2. Idle \in CallerState
  BY DEF CallerState
<1>3. RelayTypeOK'
  BY <1>1, <1>2 DEF RelayTypeOK
<1>4. CapacityAccounted' /\ AnswersAreSigned'
  BY <1>1, EvaluationsUnchanged
<1>5. QueuesAreHalves'
  BY <1>1 DEF QueuesAreHalves
<1>6. OutcomesAreTrue' /\ WaitersAreServed'
  BY <1>1 DEF OutcomesAreTrue, ReadyHasTwoSigners, SuccessIsDecision, WaitersAreServed,
             InFlight, RelayTypeOK, Idle
<1> QED BY <1>3, <1>4, <1>5, <1>6

-----------------------------------------------------------------------------
(* The router behind the submitter: a vote decides, at most once.           *)

\* While a request is open nobody was told that it is decided.
LEMMA DecisionsAreFinal ==
    ASSUME RelayInv, decided = "open", UNCHANGED <<caller, signed>>
    PROVE  OutcomesAreTrue'
<1>1. \A c \in Caller : caller[c].at # "submitted"
  <2> SUFFICES ASSUME NEW c \in Caller, caller[c].at = "submitted" PROVE FALSE
    OBVIOUS
  <2>1. caller[c].digest \in Digest
    BY DEF RelayInv, RelayTypeOK, CallerState, Idle
  <2>2. decided = caller[c].digest
    BY DEF RelayInv, OutcomesAreTrue, SuccessIsDecision
  <2> QED BY <2>1, <2>2, RelayAssumption
<1>2. SuccessIsDecision'
  BY <1>1 DEF SuccessIsDecision
<1>3. ReadyHasTwoSigners'
  BY DEF RelayInv, OutcomesAreTrue, ReadyHasTwoSigners
<1> QED BY <1>2, <1>3 DEF OutcomesAreTrue

LEMMA VoteStep ==
    ASSUME RelayInv, NEW e \in signed, Accepts(e), Vote(e)
    PROVE  /\ decided = "open"
           /\ votes' \subseteq signed /\ votes \subseteq votes' /\ e \in votes'
           /\ decided' \in Digest \cup {"open", "closed"}
           /\ (\E v \in votes : v.digest = e.digest) => decided' = e.digest
<1>1. e.digest \in Digest
  BY DEF RelayInv, RelayTypeOK, Envelope
<1> QED BY <1>1 DEF RelayInv, RelayTypeOK, Accepts, Vote

LEMMA CompeteStep ==
    ASSUME RelayInv, NEW e \in Envelope, Compete(e)
    PROVE  RelayInv'
<1> USE DEF RelayInv
<1>1. /\ e \in signed /\ Accepts(e) /\ Vote(e)
      /\ UNCHANGED <<caller, inFlightEvaluations, activeEvaluations, inFlightSubmissions,
                     signed, starts>>
  BY DEF Compete
<1>2. /\ decided = "open" /\ votes' \subseteq signed /\ votes \subseteq votes'
      /\ decided' \in Digest \cup {"open", "closed"}
  BY <1>1, VoteStep
<1>3. RelayTypeOK'
  BY <1>1, <1>2 DEF RelayTypeOK
<1>4. CapacityAccounted' /\ AnswersAreSigned'
  BY <1>1, EvaluationsUnchanged
<1>5. OutcomesAreTrue'
  BY <1>1, <1>2, DecisionsAreFinal
<1>6. QueuesAreHalves'
  BY <1>1, <1>2 DEF QueuesAreHalves
<1>7. WaitersAreServed'
  BY <1>1 DEF WaitersAreServed, InFlight
<1> QED BY <1>3, <1>4, <1>5, <1>6, <1>7

LEMMA CloseStep ==
    ASSUME RelayInv, Close
    PROVE  RelayInv'
<1> USE DEF RelayInv
<1>1. /\ decided = "open" /\ decided' = "closed"
      /\ UNCHANGED <<caller, inFlightEvaluations, activeEvaluations, inFlightSubmissions,
                     signed, votes, starts>>
  BY DEF Close
<1>2. RelayTypeOK'
  BY <1>1 DEF RelayTypeOK
<1>3. CapacityAccounted' /\ AnswersAreSigned'
  BY <1>1, EvaluationsUnchanged
<1>4. OutcomesAreTrue'
  BY <1>1, DecisionsAreFinal
<1>5. QueuesAreHalves' /\ WaitersAreServed'
  BY <1>1 DEF QueuesAreHalves, WaitersAreServed, InFlight
<1> QED BY <1>2, <1>3, <1>4, <1>5

\* Whoever shared a submission that is over learns how it ended.
LEMMA ConcludeStep ==
    ASSUME RelayInv, NEW d \in Digest, NEW place \in {"submitted", "failed"}, Conclude(d, place),
           votes \subseteq votes', votes' \subseteq signed,
           decided' \in Digest \cup {"open", "closed"},
           decided # "open" => decided' = decided,
           place = "submitted" => decided = "open" /\ decided' = d,
           UNCHANGED <<inFlightEvaluations, activeEvaluations, signed, starts>>
    PROVE  RelayInv'
<1> USE DEF RelayInv
<1> DEFINE Waits(c) == caller[c] = [at |-> "submitting", digest |-> d]
<1>1. inFlightSubmissions' = [inFlightSubmissions EXCEPT ![d] = NoOperation]
  BY DEF Conclude
<1>2. \A c \in Caller :
        /\ ~Waits(c) => caller'[c] = caller[c]
        /\ Waits(c) => caller'[c] = IF place = "submitted" THEN [at |-> "submitted", digest |-> d] ELSE Idle
  BY DEF Conclude
<1>3. \A c \in Caller : Waits(c) =>
        /\ caller'[c] \in CallerState
        /\ caller'[c].at \in {"idle", "submitted"}
        /\ caller'[c].at = "submitted" => caller'[c].digest = d /\ place = "submitted"
  BY <1>2 DEF CallerState, Idle
<1>4. caller' \in [Caller -> CallerState]
  <2>1. caller' = [c \in Caller |-> caller'[c]]
    BY DEF Conclude
  <2>2. \A c \in Caller : caller'[c] \in CallerState
    BY <1>2, <1>3 DEF RelayTypeOK
  <2> QED BY <2>1, <2>2
<1>5. RelayTypeOK'
  <2>1. NoOperation \in Seq(Envelope)
    BY DEF NoOperation
  <2> QED BY <1>1, <1>4, <2>1 DEF RelayTypeOK
<1>6. CapacityAccounted' /\ AnswersAreSigned'
  BY EvaluationsUnchanged
<1>7. QueuesAreHalves'
  BY <1>1 DEF QueuesAreHalves, RelayTypeOK
<1>8. ReadyHasTwoSigners'
  BY <1>2, <1>3 DEF OutcomesAreTrue, ReadyHasTwoSigners
<1>9. SuccessIsDecision'
  <2>1. \A c \in Caller : Waits(c) /\ caller'[c].at = "submitted" => decided' = caller'[c].digest
    BY <1>3
  <2>2. \A c \in Caller : ~Waits(c) /\ caller[c].at = "submitted" =>
          decided # "open" /\ decided = caller[c].digest
    BY RelayAssumption DEF OutcomesAreTrue, SuccessIsDecision, RelayTypeOK, CallerState, Idle
  <2> QED BY <1>2, <2>1, <2>2 DEF SuccessIsDecision
<1>10. WaitersAreServed'
  <2>1. \A c \in Caller : caller'[c].at \in {"evaluating", "submitting"} => ~Waits(c) /\ caller'[c] = caller[c]
    BY <1>2, <1>3
  <2>2. \A c \in Caller : caller[c].at = "submitting" /\ ~Waits(c) => caller[c].digest # d
    BY DEF RelayTypeOK, CallerState, Idle
  <2> QED BY <1>1, <2>1, <2>2 DEF WaitersAreServed, InFlight, RelayTypeOK
<1> QED BY <1>5, <1>6, <1>7, <1>8, <1>9, <1>10 DEF OutcomesAreTrue

LEMMA SubmitOneStep ==
    ASSUME RelayInv, NEW d \in Digest, SubmitOne(d)
    PROVE  RelayInv'
<1> USE DEF RelayInv
<1> DEFINE queue == inFlightSubmissions[d]
           e == Head(queue)
<1>1. /\ queue # NoOperation /\ Accepts(e) /\ Vote(e)
      /\ UNCHANGED <<inFlightEvaluations, activeEvaluations, signed, starts>>
  BY DEF SubmitOne
<1>2. /\ queue \in Seq(Envelope) /\ Len(queue) \in {1, 2}
      /\ \A i \in DOMAIN queue : queue[i] \in signed /\ queue[i].digest = d
      /\ Len(queue) = 1 => \E v \in votes : v.digest = d
  BY <1>1 DEF RelayTypeOK, QueuesAreHalves
<1>3. e \in signed /\ e.digest = d
  BY <1>2
<1>4. /\ decided = "open" /\ votes' \subseteq signed /\ votes \subseteq votes' /\ e \in votes'
      /\ decided' \in Digest \cup {"open", "closed"}
      /\ (\E v \in votes : v.digest = d) => decided' = d
  BY <1>1, <1>3, VoteStep
<1>5. CASE Len(queue) = 1
  <2>1. Conclude(d, "submitted")
    BY <1>5 DEF SubmitOne
  <2> HIDE DEF RelayInv
  <2> QED BY <1>1, <1>2, <1>4, <1>5, <2>1, ConcludeStep
<1>6. CASE Len(queue) = 2
  <2>1. /\ inFlightSubmissions' = [inFlightSubmissions EXCEPT ![d] = Tail(queue)]
        /\ UNCHANGED caller
    BY <1>6 DEF SubmitOne
  <2>2. /\ Tail(queue) \in Seq(Envelope) /\ Tail(queue) # NoOperation
        /\ Len(Tail(queue)) = 1 /\ DOMAIN Tail(queue) = {1}
        /\ Tail(queue)[1] = queue[2] /\ 2 \in DOMAIN queue
    <3> HIDE DEF queue
    <3> QED BY <1>2, <1>6, TailOfTwo
  <2>3. RelayTypeOK'
    BY <1>1, <1>4, <2>1, <2>2 DEF RelayTypeOK
  <2>4. CapacityAccounted' /\ AnswersAreSigned'
    BY <1>1, EvaluationsUnchanged
  <2>5. QueuesAreHalves'
    <3> SUFFICES ASSUME NEW q \in Digest, inFlightSubmissions'[q] # NoOperation
                 PROVE  LET left == inFlightSubmissions'[q] IN
                        /\ Len(left) \in {1, 2}
                        /\ \A i \in DOMAIN left : left[i] \in signed' /\ left[i].digest = q
                        /\ Len(left) = 1 => \E v \in votes' : v.digest = q
      BY DEF QueuesAreHalves
    <3>1. CASE q = d
      <4>1. inFlightSubmissions'[q] = Tail(queue)
        BY <2>1, <3>1 DEF RelayTypeOK
      <4> HIDE DEF queue
      <4> QED BY <1>1, <1>2, <1>3, <1>4, <2>2, <3>1, <4>1
    <3>2. CASE q # d
      BY <1>1, <1>4, <2>1, <3>2 DEF QueuesAreHalves, RelayTypeOK
    <3> QED BY <3>1, <3>2
  <2>6. OutcomesAreTrue'
    BY <1>1, <1>4, <2>1, DecisionsAreFinal
  <2>7. WaitersAreServed'
    BY <1>1, <2>1, <2>2 DEF WaitersAreServed, RelayTypeOK, InFlight
  <2> QED BY <2>3, <2>4, <2>5, <2>6, <2>7
<1> QED BY <1>2, <1>5, <1>6

LEMMA SubmitFailsStep ==
    ASSUME RelayInv, NEW d \in Digest, SubmitFails(d)
    PROVE  RelayInv'
<1> DEFINE queue == inFlightSubmissions[d]
           e == Head(queue)
<1>1. /\ queue # NoOperation /\ Conclude(d, "failed")
      /\ UNCHANGED <<votes, decided>> \/ (Accepts(e) /\ Vote(e))
      /\ UNCHANGED <<inFlightEvaluations, activeEvaluations, signed, starts>>
  BY DEF SubmitFails
<1>2. votes \subseteq signed /\ decided \in Digest \cup {"open", "closed"}
  BY DEF RelayInv, RelayTypeOK
<1>3. CASE UNCHANGED <<votes, decided>>
  BY <1>1, <1>2, <1>3, ConcludeStep
<1>4. CASE Accepts(e) /\ Vote(e)
  <2>1. e \in signed
    BY <1>1 DEF RelayInv, RelayTypeOK, QueuesAreHalves
  <2>2. /\ decided = "open" /\ votes' \subseteq signed /\ votes \subseteq votes'
        /\ decided' \in Digest \cup {"open", "closed"}
    BY <1>4, <2>1, VoteStep
  <2> QED BY <1>1, <2>2, ConcludeStep
<1> QED BY <1>1, <1>3, <1>4

-----------------------------------------------------------------------------
(* Theorems.                                                                *)

LEMMA RelayInvNext == RelayInv /\ [RelayNext]_relayVars => RelayInv'
<1> SUFFICES ASSUME RelayInv, [RelayNext]_relayVars PROVE RelayInv'
  OBVIOUS
<1>1. CASE CallerNext
  BY <1>1, EvaluateStep, SubmitThresholdStep, ReturnStep DEF CallerNext
<1>2. CASE Progress
  BY <1>2, EvaluateOnceEndsStep, FailStep, SubmitOneStep, SubmitFailsStep DEF Progress
<1>3. CASE \E k \in Key, m \in Machine, e \in Envelope : Answer(k, m, e)
  BY <1>3, AnswerStep
<1>4. CASE \E e \in Envelope : Compete(e)
  BY <1>4, CompeteStep
<1>5. CASE Close
  BY <1>5, CloseStep
<1>6. CASE UNCHANGED relayVars
  <2>1. RelayTypeOK' /\ CapacityAccounted' /\ AnswersAreSigned' /\ QueuesAreHalves'
    BY <1>6 DEF RelayInv, relayVars, RelayTypeOK, CapacityAccounted, AnswersAreSigned,
                QueuesAreHalves, InFlight
  <2>2. OutcomesAreTrue' /\ WaitersAreServed'
    BY <1>6 DEF RelayInv, relayVars, OutcomesAreTrue, ReadyHasTwoSigners, SuccessIsDecision,
                WaitersAreServed, InFlight
  <2> QED BY <2>1, <2>2 DEF RelayInv
<1> QED BY <1>1, <1>2, <1>3, <1>4, <1>5, <1>6 DEF RelayNext

\* The relay's operations stay within its bound, and every operation gives its
\* slot back when it ends (activeEvaluations, apps/relay/src/relay.ts).
THEOREM RelayKeepsCapacity == RelaySpec => [](RelayTypeOK /\ CapacityAccounted)
<1>1. RelayInv => RelayTypeOK /\ CapacityAccounted
  BY DEF RelayInv
<1> QED BY <1>1, RelayInvInit, RelayInvNext, PTL DEF RelaySpec

\* A threshold reported ready has two signers of one digest, and a submission
\* reported successful has decided the request, whoever else submits.
THEOREM RelayTellsTheTruth == RelaySpec => []OutcomesAreTrue
<1>1. RelayInv => OutcomesAreTrue
  BY DEF RelayInv
<1> QED BY <1>1, RelayInvInit, RelayInvNext, PTL DEF RelaySpec

\* Nobody waits for an evaluation or a submission that is not in flight.
THEOREM RelayServesWaiters == RelaySpec => []WaitersAreServed
<1>1. RelayInv => WaitersAreServed
  BY DEF RelayInv
<1> QED BY <1>1, RelayInvInit, RelayInvNext, PTL DEF RelaySpec

==================================================================================
