--------------------------- MODULE Hosted_proofs ---------------------------
(***************************************************************************)
(* Proofs about the two hosted programs. Policy custody, for any           *)
(* processes, handlers, identities, policies and bounds: types, that a     *)
(* receipt is a promise of custody, that only custodians evaluate, that    *)
(* records are final. The hosted relay, for any requests, callers,         *)
(* opinions and deposits: what it answers is decided, and a machine signs  *)
(* one digest of a request.                                                *)
(***************************************************************************)
EXTENDS PolicyCustody, LiveRelay, FiniteSetTheorems, TLAPS

-----------------------------------------------------------------------------
(* The inductive invariant.                                                 *)

\* A stored record is in the directory of the machine it is for, under the
\* policy it decrypts to, and that policy froze the machine.
Kept(i, p) ==
    /\ store[i][p].machine = i /\ store[i][p].policy = p
    /\ Decrypts(store[i][p]) /\ i \in MachinesOf[p]

RecordsAreKept == \A i \in Identity, p \in Policy : store[i][p] # Empty => Kept(i, p)

\* A handler carries a submission for the identity its process has now, which
\* it has decrypted; once linked, it is the record of its slot.
HandlersCarryTheirOwn ==
    \A t \in Thread : thread[t] # Idle =>
        /\ Addressed(identity[ProcessOf(t)], SubmissionOf(t))
        /\ Decrypts(SubmissionOf(t))
        /\ thread[t].at = "linked" => SlotOf(t) = SubmissionOf(t)

CustodyInv ==
    /\ CustodyTypeOK
    /\ RecordsAreKept
    /\ HandlersCarryTheirOwn
    /\ CustodyHolds

-----------------------------------------------------------------------------
(* Helpers.                                                                 *)

LEMMA EmptyIsNoRecord == Empty \notin Submission /\ Idle \notin Busy
BY DEF Empty, Submission, Idle, Busy

\* What the types say of a handler that is busy.
LEMMA BusyHandler ==
    ASSUME CustodyTypeOK, NEW t \in Thread, thread[t] # Idle
    PROVE  /\ thread[t] \in Busy
           /\ ProcessOf(t) \in Process /\ SubmissionOf(t) \in Submission
           /\ SubmissionOf(t).policy \in Policy /\ SubmissionOf(t).machine \in Identity
           /\ identity[ProcessOf(t)] \in Identity
           /\ SlotOf(t) \in Submission \cup {Empty}
<1>1. thread[t] \in Busy
  BY DEF CustodyTypeOK
<1>2. ProcessOf(t) \in Process /\ SubmissionOf(t) \in Submission
  BY <1>1 DEF Busy, ProcessOf, SubmissionOf
<1>3. SubmissionOf(t).policy \in Policy /\ SubmissionOf(t).machine \in Identity
  BY <1>2 DEF Submission
<1>4. identity[ProcessOf(t)] \in Identity
  BY <1>2 DEF CustodyTypeOK
<1>5. SlotOf(t) \in Submission \cup {Empty}
  BY <1>3, <1>4 DEF CustodyTypeOK, SlotOf
<1> QED BY <1>1, <1>2, <1>3, <1>4, <1>5

LEMMA HandlerReturning ==
    ASSUME CustodyInv, NEW t \in Thread, HandlerReturns(t), UNCHANGED <<store, identity>>
    PROVE  thread' \in [Thread -> Busy \cup {Idle}] /\ HandlersCarryTheirOwn'
<1>1. thread' = [thread EXCEPT ![t] = Idle] /\ thread \in [Thread -> Busy \cup {Idle}]
  BY DEF HandlerReturns, CustodyInv, CustodyTypeOK
<1>2. \A u \in Thread : thread'[u] # Idle => thread'[u] = thread[u]
  BY <1>1
<1> QED BY <1>1, <1>2 DEF CustodyInv, HandlersCarryTheirOwn, Addressed, Decrypts, ProcessOf,
                          SubmissionOf, SlotOf

\* No step of the code overwrites or removes a record.
StoreKept == \A i \in Identity, p \in Policy : store[i][p] # Empty => store'[i][p] = store[i][p]

LEMMA HandlerAdvancing ==
    ASSUME CustodyInv, NEW t \in Thread, thread[t] # Idle, NEW place \in {"writing", "linked"},
           AdvanceTo(t, place), UNCHANGED identity, StoreKept,
           place = "linked" =>
             store'[identity[ProcessOf(t)]][SubmissionOf(t).policy] = SubmissionOf(t)
    PROVE  thread' \in [Thread -> Busy \cup {Idle}] /\ HandlersCarryTheirOwn'
<1>1. /\ thread' = [thread EXCEPT ![t] = [thread[t] EXCEPT !.at = place]]
      /\ thread \in [Thread -> Busy \cup {Idle}] /\ thread[t] \in Busy
  BY BusyHandler DEF AdvanceTo, CustodyInv, CustodyTypeOK
<1>2. /\ [thread[t] EXCEPT !.at = place] \in Busy
      /\ [thread[t] EXCEPT !.at = place].process = ProcessOf(t)
      /\ [thread[t] EXCEPT !.at = place].submission = SubmissionOf(t)
      /\ [thread[t] EXCEPT !.at = place].at = place
  BY <1>1 DEF Busy, ProcessOf, SubmissionOf
<1>3. thread' \in [Thread -> Busy \cup {Idle}]
  BY <1>1, <1>2
<1>4. HandlersCarryTheirOwn'
  <2> SUFFICES ASSUME NEW u \in Thread, thread'[u] # Idle
               PROVE  /\ Addressed(identity[ProcessOf(u)'], SubmissionOf(u)')
                      /\ Decrypts(SubmissionOf(u)')
                      /\ thread'[u].at = "linked" => SlotOf(u)' = SubmissionOf(u)'
    BY DEF HandlersCarryTheirOwn, Addressed, Decrypts
  <2>1. CASE u = t
    <3>1. /\ ProcessOf(u)' = ProcessOf(t) /\ SubmissionOf(u)' = SubmissionOf(t)
          /\ thread'[u].at = place
      BY <1>1, <1>2, <2>1 DEF ProcessOf, SubmissionOf
    <3>2. Addressed(identity[ProcessOf(t)], SubmissionOf(t)) /\ Decrypts(SubmissionOf(t))
      BY DEF CustodyInv, HandlersCarryTheirOwn
    <3>3. SlotOf(u)' = store'[identity[ProcessOf(t)]][SubmissionOf(t).policy]
      BY <3>1 DEF SlotOf
    <3> QED BY <3>1, <3>2, <3>3
  <2>2. CASE u # t
    <3>1. thread'[u] = thread[u] /\ thread[u] # Idle
      BY <1>1, <2>2
    <3>2. /\ Addressed(identity[ProcessOf(u)], SubmissionOf(u)) /\ Decrypts(SubmissionOf(u))
          /\ thread[u].at = "linked" => SlotOf(u) = SubmissionOf(u)
      BY <3>1 DEF CustodyInv, HandlersCarryTheirOwn
    <3>3. ProcessOf(u)' = ProcessOf(u) /\ SubmissionOf(u)' = SubmissionOf(u)
      BY <3>1 DEF ProcessOf, SubmissionOf
    <3>4. /\ SubmissionOf(u) \in Submission /\ SubmissionOf(u).policy \in Policy
          /\ identity[ProcessOf(u)] \in Identity
      BY <3>1, BusyHandler DEF CustodyInv
    <3>5. SlotOf(u)' = store'[identity[ProcessOf(u)]][SubmissionOf(u).policy]
      BY <3>3 DEF SlotOf
    <3>6. SlotOf(u) # Empty => SlotOf(u)' = SlotOf(u)
      BY <3>4, <3>5 DEF StoreKept, SlotOf
    <3> QED BY <3>1, <3>2, <3>3, <3>4, <3>6, EmptyIsNoRecord
  <2> QED BY <2>1, <2>2
<1> QED BY <1>3, <1>4

\* New receipts are for records that are in the store.
LEMMA ReceiptsStayTrue ==
    ASSUME CustodyInv, StoreKept, UNCHANGED <<registered, evaluated>>,
           \A s \in receipts' : s \in receipts \/ store'[s.machine][s.policy] = s
    PROVE  CustodyHolds'
<1> USE DEF CustodyInv, CustodyHolds, ReceiptIsCustody
<1>1. \A s \in receipts : store'[s.machine][s.policy] = s
  <2> SUFFICES ASSUME NEW s \in receipts PROVE store'[s.machine][s.policy] = s
    OBVIOUS
  <2>1. s \in Submission /\ s.machine \in Identity /\ s.policy \in Policy
    BY DEF CustodyTypeOK, Submission
  <2>2. store[s.machine][s.policy] = s /\ s # Empty
    BY <2>1, EmptyIsNoRecord
  <2> QED BY <2>1, <2>2 DEF StoreKept
<1>2. \A p \in registered : \A i \in MachinesOf[p] : store'[i][p] # Empty /\ Decrypts(store'[i][p])
  BY CustodyAssumption DEF StoreKept, CustodyTypeOK
<1>3. OnlyCustodiansEvaluate'
  BY DEF OnlyCustodiansEvaluate
<1> QED BY <1>1, <1>2, <1>3 DEF Decrypts

LEMMA CustodyInvInit == CustodyInit => CustodyInv
<1> SUFFICES ASSUME CustodyInit PROVE CustodyInv
  OBVIOUS
<1>1. 0 \in 0..MaxRestarts /\ 0 \in 0..MaxTime
  BY CustodyAssumption
<1>2. CustodyTypeOK
  BY <1>1 DEF CustodyInit, CustodyTypeOK
<1>3. RecordsAreKept /\ HandlersCarryTheirOwn /\ CustodyHolds
  BY DEF CustodyInit, RecordsAreKept, HandlersCarryTheirOwn, CustodyHolds, ReceiptIsCustody,
         OnlyCustodiansEvaluate
<1> QED BY <1>2, <1>3 DEF CustodyInv

-----------------------------------------------------------------------------
(* One step per action.                                                     *)

LEMMA Unlocking ==
    ASSUME CustodyTypeOK, NEW t \in Thread, Unlock(t)
    PROVE  mutex' \in [Process -> Thread \cup {"free"}]
BY DEF CustodyTypeOK, Unlock

LEMMA ReceiveStep ==
    ASSUME CustodyInv, NEW t \in Thread, NEW p \in Process, NEW s \in Submission, Receive(t, p, s)
    PROVE  CustodyInv'
<1> DEFINE i == identity[p]
<1>1. /\ thread[t] = Idle /\ Addressed(i, s) /\ i \in Identity /\ s.policy \in Policy
      /\ UNCHANGED <<identity, mutex, store, registered, evaluated, restarts, now>>
  BY DEF Receive, CustodyInv, CustodyTypeOK, Submission
<1>2. StoreKept /\ RecordsAreKept'
  BY <1>1 DEF StoreKept, CustodyInv, RecordsAreKept, Kept, Decrypts
<1>3. CASE store[i][s.policy] # Empty
  <2>1. store[i][s.policy] = s /\ receipts' = receipts \cup {s} /\ UNCHANGED thread
    BY <1>3 DEF Receive, Matches, Return
  <2>2. CustodyHolds'
    BY <1>1, <1>2, <2>1, ReceiptsStayTrue DEF Addressed
  <2>3. CustodyTypeOK' /\ HandlersCarryTheirOwn'
    BY <1>1, <2>1 DEF CustodyInv, CustodyTypeOK, HandlersCarryTheirOwn, Addressed, Decrypts,
                      ProcessOf, SubmissionOf, SlotOf
  <2> QED BY <1>2, <2>2, <2>3 DEF CustodyInv
<1>4. CASE store[i][s.policy] = Empty
  <2> DEFINE h == [at |-> "signed", process |-> p, submission |-> s]
  <2>1. Decrypts(s) /\ thread' = [thread EXCEPT ![t] = h] /\ UNCHANGED receipts
    BY <1>4 DEF Receive
  <2>2. CustodyHolds'
    BY <1>1, <1>2, <2>1, ReceiptsStayTrue
  <2>3. h \in Busy
    BY DEF Busy
  <2>4. CustodyTypeOK'
    BY <1>1, <2>1, <2>3 DEF CustodyInv, CustodyTypeOK
  <2>5. thread'[t] = h /\ \A u \in Thread : u # t => thread'[u] = thread[u]
    BY <2>1 DEF CustodyInv, CustodyTypeOK
  <2>6. HandlersCarryTheirOwn'
    BY <1>1, <2>1, <2>5 DEF CustodyInv, HandlersCarryTheirOwn, Addressed, Decrypts, ProcessOf,
                            SubmissionOf, SlotOf
  <2> QED BY <1>2, <2>2, <2>4, <2>6 DEF CustodyInv
<1> QED BY <1>3, <1>4

\* Put finds a record in the slot: it is the answer, or an error is.
LEMMA FoundStep ==
    ASSUME CustodyInv, NEW t \in Thread, thread[t] # Idle, Found(t),
           UNCHANGED <<identity, store, registered, evaluated, restarts, now>>
    PROVE  CustodyInv'
<1>1. /\ thread' \in [Thread -> Busy \cup {Idle}] /\ HandlersCarryTheirOwn'
      /\ StoreKept /\ RecordsAreKept'
  BY HandlerReturning DEF Found, StoreKept, CustodyInv, RecordsAreKept, Kept, Decrypts
<1>2. /\ ProcessOf(t) \in Process /\ SubmissionOf(t) \in Submission
      /\ SubmissionOf(t).machine = identity[ProcessOf(t)]
  BY BusyHandler DEF CustodyInv, HandlersCarryTheirOwn, Addressed
<1>3. CASE SlotOf(t) = SubmissionOf(t)
  <2>1. receipts' = receipts \cup {SubmissionOf(t)}
    BY <1>3 DEF Found, Return
  <2>2. store'[SubmissionOf(t).machine][SubmissionOf(t).policy] = SubmissionOf(t)
    BY <1>2, <1>3 DEF SlotOf
  <2>3. CustodyHolds'
    BY <1>1, <2>1, <2>2, ReceiptsStayTrue
  <2>4. CustodyTypeOK'
    BY <1>1, <1>2, <2>1, Unlocking DEF CustodyInv, CustodyTypeOK, Found
  <2> QED BY <1>1, <2>3, <2>4 DEF CustodyInv
<1>4. CASE SlotOf(t) # SubmissionOf(t)
  <2>1. UNCHANGED receipts
    BY <1>4 DEF Found
  <2>2. CustodyHolds'
    BY <1>1, <2>1, ReceiptsStayTrue
  <2>3. CustodyTypeOK'
    BY <1>1, <2>1, Unlocking DEF CustodyInv, CustodyTypeOK, Found
  <2> QED BY <1>1, <2>2, <2>3 DEF CustodyInv
<1> QED BY <1>3, <1>4

LEMMA LockStep ==
    ASSUME CustodyInv, NEW t \in Thread, Lock(t)
    PROVE  CustodyInv'
<1>1. /\ thread[t] # Idle
      /\ UNCHANGED <<identity, store, registered, evaluated, restarts, now>>
  BY DEF Lock, Idle
<1>2. CASE SlotOf(t) # Empty
  BY <1>1, <1>2, FoundStep DEF Lock
<1>3. CASE SlotOf(t) = Empty
  <2>1. /\ mutex' = [mutex EXCEPT ![ProcessOf(t)] = t] /\ AdvanceTo(t, "writing")
        /\ UNCHANGED receipts
    BY <1>3 DEF Lock
  <2>2. StoreKept /\ RecordsAreKept'
    BY <1>1 DEF StoreKept, CustodyInv, RecordsAreKept, Kept, Decrypts
  <2>3. thread' \in [Thread -> Busy \cup {Idle}] /\ HandlersCarryTheirOwn'
    BY <1>1, <2>1, <2>2, HandlerAdvancing
  <2>4. CustodyHolds'
    BY <1>1, <2>1, <2>2, ReceiptsStayTrue
  <2>5. CustodyTypeOK'
    BY <1>1, <2>1, <2>3 DEF CustodyInv, CustodyTypeOK
  <2> QED BY <2>2, <2>3, <2>4, <2>5 DEF CustodyInv
<1> QED BY <1>2, <1>3

LEMMA LinkStep ==
    ASSUME CustodyInv, NEW t \in Thread, Link(t)
    PROVE  CustodyInv'
<1> DEFINE s == SubmissionOf(t)
           i == identity[ProcessOf(t)]
<1>1. /\ thread[t] # Idle
      /\ UNCHANGED <<identity, registered, evaluated, restarts, now>>
  BY DEF Link, Idle
<1>2. CASE ~LinkNew(t)
  BY <1>1, <1>2, FoundStep DEF Link
<1>3. CASE LinkNew(t)
  <2>1. /\ store' = [store EXCEPT ![i] = [store[i] EXCEPT ![s.policy] = s]]
        /\ AdvanceTo(t, "linked") /\ UNCHANGED <<receipts, mutex>>
        /\ store[i][s.policy] = Empty
    BY <1>3 DEF Link, LinkNew, SlotOf
  <2>2. /\ s \in Submission /\ s.policy \in Policy /\ i \in Identity
        /\ s.machine = i /\ i \in MachinesOf[s.policy] /\ Decrypts(s)
    BY <1>1, BusyHandler DEF CustodyInv, HandlersCarryTheirOwn, Addressed
  <2>3. /\ store' \in [Identity -> [Policy -> Submission \cup {Empty}]]
        /\ store'[i][s.policy] = s
        /\ \A j \in Identity, p \in Policy : <<j, p>> # <<i, s.policy>> => store'[j][p] = store[j][p]
    <3>1. store \in [Identity -> [Policy -> Submission \cup {Empty}]]
      BY DEF CustodyInv, CustodyTypeOK
    <3> HIDE DEF s, i
    <3> QED BY <2>1, <2>2, <3>1
  <2> HIDE DEF s, i
  <2>4. StoreKept
    BY <2>1, <2>3 DEF StoreKept
  <2>5. RecordsAreKept'
    <3> SUFFICES ASSUME NEW j \in Identity, NEW p \in Policy, store'[j][p] # Empty
                 PROVE  Kept(j, p)'
      BY DEF RecordsAreKept
    <3>1. CASE j = i /\ p = s.policy
      BY <2>2, <2>3, <3>1 DEF Kept, Decrypts
    <3>2. CASE ~(j = i /\ p = s.policy)
      BY <2>3, <3>2 DEF CustodyInv, RecordsAreKept, Kept, Decrypts
    <3> QED BY <3>1, <3>2
  <2>6. thread' \in [Thread -> Busy \cup {Idle}] /\ HandlersCarryTheirOwn'
    BY <1>1, <2>1, <2>3, <2>4, HandlerAdvancing DEF s, i
  <2>7. CustodyHolds'
    BY <1>1, <2>1, <2>4, ReceiptsStayTrue
  <2>8. CustodyTypeOK'
    BY <1>1, <2>1, <2>3, <2>6 DEF CustodyInv, CustodyTypeOK
  <2> QED BY <2>5, <2>6, <2>7, <2>8 DEF CustodyInv
<1> QED BY <1>2, <1>3

LEMMA SyncStep ==
    ASSUME CustodyInv, NEW t \in Thread, Sync(t)
    PROVE  CustodyInv'
<1>1. /\ thread[t] # Idle /\ thread[t].at = "linked"
      /\ receipts' = receipts \cup {SubmissionOf(t)}
      /\ HandlerReturns(t) /\ Unlock(t)
      /\ UNCHANGED <<identity, store, registered, evaluated, restarts, now>>
  BY DEF Sync, Return, Idle
<1>2. /\ SubmissionOf(t) \in Submission /\ SlotOf(t) = SubmissionOf(t)
      /\ SubmissionOf(t).machine = identity[ProcessOf(t)]
  BY <1>1, BusyHandler DEF CustodyInv, HandlersCarryTheirOwn, Addressed
<1>3. /\ thread' \in [Thread -> Busy \cup {Idle}] /\ HandlersCarryTheirOwn'
      /\ StoreKept /\ RecordsAreKept'
  BY <1>1, HandlerReturning DEF StoreKept, CustodyInv, RecordsAreKept, Kept, Decrypts
<1>4. store'[SubmissionOf(t).machine][SubmissionOf(t).policy] = SubmissionOf(t)
  BY <1>1, <1>2 DEF SlotOf
<1>5. CustodyHolds'
  BY <1>1, <1>2, <1>3, <1>4, ReceiptsStayTrue
<1>6. CustodyTypeOK'
  BY <1>1, <1>2, <1>3, Unlocking DEF CustodyInv, CustodyTypeOK
<1> QED BY <1>3, <1>5, <1>6 DEF CustodyInv

LEMMA HandlerFailsStep ==
    ASSUME CustodyInv, NEW t \in Thread, HandlerFails(t)
    PROVE  CustodyInv'
<1>1. /\ HandlerReturns(t) /\ Unlock(t)
      /\ UNCHANGED <<identity, store, receipts, registered, evaluated, restarts, now>>
  BY DEF HandlerFails
<1>2. /\ thread' \in [Thread -> Busy \cup {Idle}] /\ HandlersCarryTheirOwn'
      /\ StoreKept /\ RecordsAreKept'
  BY <1>1, HandlerReturning DEF StoreKept, CustodyInv, RecordsAreKept, Kept, Decrypts
<1>3. CustodyHolds'
  BY <1>1, <1>2, ReceiptsStayTrue
<1>4. CustodyTypeOK'
  BY <1>1, <1>2, Unlocking DEF CustodyInv, CustodyTypeOK
<1> QED BY <1>2, <1>3, <1>4 DEF CustodyInv

LEMMA EvaluateStep ==
    ASSUME CustodyInv, NEW p \in Process, NEW policy \in Policy, EvaluatePolicy(p, policy)
    PROVE  CustodyInv'
<1> DEFINE i == identity[p]
<1>1. /\ i \in Identity /\ store[i][policy] # Empty
      /\ evaluated' = evaluated \cup {<<i, policy>>}
      /\ UNCHANGED <<identity, mutex, thread, store, receipts, registered, restarts, now>>
  BY DEF EvaluatePolicy, CustodyInv, CustodyTypeOK
<1>2. i \in MachinesOf[policy]
  BY <1>1 DEF CustodyInv, RecordsAreKept, Kept
<1>3. CustodyTypeOK'
  BY <1>1 DEF CustodyInv, CustodyTypeOK
<1>4. RecordsAreKept' /\ HandlersCarryTheirOwn'
  BY <1>1 DEF CustodyInv, RecordsAreKept, Kept, Decrypts, HandlersCarryTheirOwn, Addressed,
              ProcessOf, SubmissionOf, SlotOf
<1>5. CustodyHolds'
  BY <1>1, <1>2 DEF CustodyInv, CustodyHolds, ReceiptIsCustody, OnlyCustodiansEvaluate, Decrypts
<1> QED BY <1>3, <1>4, <1>5 DEF CustodyInv

\* The handlers of a process that dies are gone with it, so that nobody carries
\* a submission for an identity the process has no more.
LEMMA RestartStep ==
    ASSUME CustodyInv, NEW p \in Process, NEW new \in Identity, Restart(p, new)
    PROVE  CustodyInv'
<1>1. /\ restarts < MaxRestarts /\ restarts' = restarts + 1
      /\ identity' = [identity EXCEPT ![p] = new]
      /\ mutex' = [mutex EXCEPT ![p] = "free"]
      /\ thread' = [t \in Thread |->
           IF thread[t] # Idle /\ ProcessOf(t) = p THEN Idle ELSE thread[t]]
      /\ UNCHANGED <<store, receipts, registered, evaluated, now>>
  BY DEF Restart
<1>2. \A t \in Thread : thread'[t] # Idle =>
        /\ thread'[t] = thread[t] /\ ProcessOf(t)' = ProcessOf(t)
        /\ SubmissionOf(t)' = SubmissionOf(t)
        /\ identity'[ProcessOf(t)] = identity[ProcessOf(t)]
  <2> SUFFICES ASSUME NEW t \in Thread, thread'[t] # Idle
               PROVE  /\ thread'[t] = thread[t] /\ ProcessOf(t)' = ProcessOf(t)
                      /\ SubmissionOf(t)' = SubmissionOf(t)
                      /\ identity'[ProcessOf(t)] = identity[ProcessOf(t)]
    OBVIOUS
  <2>1. thread'[t] = thread[t] /\ thread[t] # Idle /\ ProcessOf(t) # p
    BY <1>1
  <2>2. ProcessOf(t) \in Process
    BY <2>1, BusyHandler DEF CustodyInv
  <2> QED BY <1>1, <2>1, <2>2 DEF ProcessOf, SubmissionOf, CustodyInv, CustodyTypeOK
<1>3. HandlersCarryTheirOwn'
  BY <1>1, <1>2 DEF CustodyInv, HandlersCarryTheirOwn, Addressed, Decrypts, SlotOf
<1>4. CustodyTypeOK'
  <2>1. restarts' \in 0..MaxRestarts
    BY <1>1, CustodyAssumption DEF CustodyInv, CustodyTypeOK
  <2>2. thread' \in [Thread -> Busy \cup {Idle}]
    BY <1>1 DEF CustodyInv, CustodyTypeOK
  <2> QED BY <1>1, <2>1, <2>2 DEF CustodyInv, CustodyTypeOK
<1>5. RecordsAreKept' /\ CustodyHolds'
  BY <1>1 DEF CustodyInv, RecordsAreKept, Kept, Decrypts, CustodyHolds, ReceiptIsCustody,
              OnlyCustodiansEvaluate
<1> QED BY <1>3, <1>4, <1>5 DEF CustodyInv

\* A registration is founded on three receipts, each a record in custody.
LEMMA RegisterStep ==
    ASSUME CustodyInv, NEW policy \in Policy, Register(policy)
    PROVE  CustodyInv'
<1>1. /\ \A i \in MachinesOf[policy] : \E s \in receipts : s.policy = policy /\ s.machine = i
      /\ registered' = registered \cup {policy}
      /\ UNCHANGED <<identity, mutex, thread, store, receipts, evaluated, restarts, now>>
  BY DEF Register
<1>2. \A i \in MachinesOf[policy] : store[i][policy] # Empty /\ Decrypts(store[i][policy])
  <2> SUFFICES ASSUME NEW i \in MachinesOf[policy]
               PROVE  store[i][policy] # Empty /\ Decrypts(store[i][policy])
    OBVIOUS
  <2>1. PICK s \in receipts : s.policy = policy /\ s.machine = i
    BY <1>1
  <2>2. store[i][policy] = s /\ s \in Submission /\ i \in Identity
    BY <2>1, CustodyAssumption DEF CustodyInv, CustodyTypeOK, CustodyHolds, ReceiptIsCustody
  <2>3. store[i][policy] # Empty
    BY <2>2, EmptyIsNoRecord
  <2> QED BY <2>2, <2>3 DEF CustodyInv, RecordsAreKept, Kept
<1>3. CustodyTypeOK'
  BY <1>1 DEF CustodyInv, CustodyTypeOK
<1>4. RecordsAreKept' /\ HandlersCarryTheirOwn'
  BY <1>1 DEF CustodyInv, RecordsAreKept, Kept, Decrypts, HandlersCarryTheirOwn, Addressed,
              ProcessOf, SubmissionOf, SlotOf
<1>5. CustodyHolds'
  BY <1>1, <1>2 DEF CustodyInv, CustodyHolds, ReceiptIsCustody, OnlyCustodiansEvaluate, Decrypts
<1> QED BY <1>3, <1>4, <1>5 DEF CustodyInv

LEMMA QuietCustodyStep ==
    ASSUME CustodyInv, Tick \/ UNCHANGED custodyVars
    PROVE  CustodyInv'
<1>1. /\ UNCHANGED <<identity, mutex, thread, store, receipts, registered, evaluated, restarts>>
      /\ now' \in 0..MaxTime
  BY CustodyAssumption DEF Tick, custodyVars, CustodyInv, CustodyTypeOK
<1>2. CustodyTypeOK'
  BY <1>1 DEF CustodyInv, CustodyTypeOK
<1>3. RecordsAreKept' /\ HandlersCarryTheirOwn' /\ CustodyHolds'
  BY <1>1 DEF CustodyInv, RecordsAreKept, Kept, Decrypts, HandlersCarryTheirOwn, Addressed,
              ProcessOf, SubmissionOf, SlotOf, CustodyHolds, ReceiptIsCustody, OnlyCustodiansEvaluate
<1> QED BY <1>2, <1>3 DEF CustodyInv

-----------------------------------------------------------------------------
(* Theorems.                                                                *)

LEMMA CustodyInvNext == CustodyInv /\ [CustodyNext]_custodyVars => CustodyInv'
<1> SUFFICES ASSUME CustodyInv, [CustodyNext]_custodyVars PROVE CustodyInv'
  OBVIOUS
<1>1. CASE \E t \in Thread, p \in Process, s \in Submission : Receive(t, p, s)
  BY <1>1, ReceiveStep
<1>2. CASE \E t \in Thread : Handle(t)
  BY <1>2, LockStep, LinkStep, SyncStep, HandlerFailsStep DEF Handle
<1>3. CASE \E p \in Process, policy \in Policy : EvaluatePolicy(p, policy)
  BY <1>3, EvaluateStep
<1>4. CASE \E p \in Process, i \in Identity : Restart(p, i)
  BY <1>4, RestartStep
<1>5. CASE \E policy \in Policy : Register(policy)
  BY <1>5, RegisterStep
<1>6. CASE Tick \/ UNCHANGED custodyVars
  BY <1>6, QuietCustodyStep
<1> QED BY <1>1, <1>2, <1>3, <1>4, <1>5, <1>6 DEF CustodyNext

\* The custody model's state is what its comments say it is, in every state
\* (apps/fcc-extension/internal/ingress).
THEOREM CustodyTypeCorrect == CustodySpec => []CustodyTypeOK
<1>1. CustodyInv => CustodyTypeOK
  BY DEF CustodyInv
<1> QED BY <1>1, CustodyInvInit, CustodyInvNext, PTL DEF CustodySpec

\* A receipt is a promise of custody that no handler, process, retry or restart
\* breaks, and only the machines a policy froze evaluate it.
THEOREM CustodyIsKept == CustodySpec => []CustodyHolds
<1>1. CustodyInv => CustodyHolds
  BY DEF CustodyInv
<1> QED BY <1>1, CustodyInvInit, CustodyInvNext, PTL DEF CustodySpec

LEMMA StoreKeptStep ==
    ASSUME CustodyInv, [CustodyNext]_custodyVars
    PROVE  StoreKept
<1>1. CASE \E t \in Thread : Link(t)
  <2>1. PICK t \in Thread : Link(t)
    BY <1>1
  <2>2. CASE ~LinkNew(t)
    BY <2>1, <2>2 DEF Link, StoreKept
  <2>3. CASE LinkNew(t)
    <3>1. /\ store' = [store EXCEPT ![identity[ProcessOf(t)]] =
               [store[identity[ProcessOf(t)]] EXCEPT ![SubmissionOf(t).policy] = SubmissionOf(t)]]
          /\ store[identity[ProcessOf(t)]][SubmissionOf(t).policy] = Empty
      BY <2>1, <2>3 DEF Link, LinkNew, SlotOf
    <3>2. store \in [Identity -> [Policy -> Submission \cup {Empty}]]
      BY DEF CustodyInv, CustodyTypeOK
    <3> QED BY <3>1, <3>2 DEF StoreKept
  <2> QED BY <2>2, <2>3
<1>2. CASE UNCHANGED store
  BY <1>2 DEF StoreKept
<1>3. ASSUME ~(\E t \in Thread : Link(t)) PROVE UNCHANGED store
  BY <1>3 DEF CustodyNext, custodyVars, Receive, Handle, Lock, Sync, HandlerFails, EvaluatePolicy,
              Restart, Register, Tick
<1> QED BY <1>1, <1>2, <1>3

\* A record that was linked is never replaced or removed (os.Link in
\* FilePolicyStore.Put does not overwrite).
THEOREM RecordsAreFinal == CustodySpec => [][StoreKept]_custodyVars
BY CustodyInvInit, CustodyInvNext, StoreKeptStep, PTL DEF CustodySpec

-----------------------------------------------------------------------------
(* The hosted relay: the inductive invariant.                               *)

LiveTypes ==
    /\ status \in [Request -> Status]
    /\ votes \subseteq signed /\ signed \subseteq Envelope /\ IsFiniteSet(signed)
    /\ opinion \in [Request -> Opinions]
    /\ operations \in Seq(Operation)

\* Whatever was signed was evaluated on what the requests froze.
SignedAtCheckpoint ==
    \A e \in signed : e = Evaluated(e.request, e.machine, InitialDeposit)

StatusIsDecided ==
    \A r \in Request :
        /\ status[r] \in {"Allowed", "Executed"} => Decided(r, "ALLOW")
        /\ status[r] = "Denied" => Decided(r, "DENY")

\* What an operation carries from one await to the next.
Carries(i) ==
    /\ operations[i].at \in {"dispatch", "poll"} => operations[i].available = InitialDeposit
    /\ operations[i].at = "poll" => Results(i) \subseteq signed
    /\ operations[i].at \in {"submit", "write", "reread"} => operations[i].queue \subseteq signed
    /\ operations[i].at = "write" => operations[i].queue # {}
    /\ operations[i].at # "done" => operations[i].answer = "none"
    /\ operations[i].answer \notin {"none", "error"} =>
          Decided(operations[i].request, operations[i].decision)

LiveInv ==
    /\ LiveTypes
    /\ SignedAtCheckpoint
    /\ StatusIsDecided
    /\ \A i \in DOMAIN operations : Carries(i)

-----------------------------------------------------------------------------
(* Lemmas about envelopes, votes and operations.                            *)

LEMMA EnvelopeFields ==
    ASSUME NEW e \in Envelope
    PROVE  /\ e.request \in Request /\ e.machine \in Machine /\ e.digest \in Digest
           /\ e = [request |-> e.request, machine |-> e.machine, digest |-> e.digest]
BY DEF Envelope

\* A queue that is not empty has a first envelope.
LEMMA FirstIsQueued ==
    ASSUME NEW queue \in SUBSET Envelope, queue # {}
    PROVE  First(queue) \in queue
<1>1. \A e \in queue : e.machine \in {1, 2, 3}
  BY EnvelopeFields DEF Machine
<1>2. \E e \in queue : \A f \in queue : e.machine <= f.machine
  <2>1. CASE \E e \in queue : e.machine = 1
    BY <2>1, <1>1
  <2>2. CASE (\A e \in queue : e.machine # 1) /\ \E e \in queue : e.machine = 2
    BY <2>2, <1>1
  <2>3. CASE \A e \in queue : e.machine # 1 /\ e.machine # 2
    BY <2>3, <1>1
  <2> QED BY <2>1, <2>2, <2>3
<1> QED BY <1>2 DEF First

\* What an operation is that is over.
LEMMA OverOperation ==
    ASSUME NEW o \in Operation,
           NEW answer \in {"none", "error", "threshold-submitted", "already-finalized"},
           NEW decision \in {"none", "ALLOW", "DENY"}
    PROVE  LET new == Over(o, answer, decision) IN
           /\ new \in Operation /\ new.at = "done" /\ new.request = o.request
           /\ new.answer = answer /\ new.decision = decision
<1> DEFINE a == [o EXCEPT !.at = "done"]
           b == [a EXCEPT !.available = 0]
           c == [b EXCEPT !.queue = {}]
           d == [c EXCEPT !.answer = answer]
           e == [d EXCEPT !.decision = decision]
<1>1. a \in Operation /\ a.at = "done" /\ a.request = o.request
  BY DEF Operation, Place
<1>2. b \in Operation /\ b.at = "done" /\ b.request = o.request
  <2> HIDE DEF a
  <2> QED BY <1>1 DEF Operation
<1>3. c \in Operation /\ c.at = "done" /\ c.request = o.request
  <2> HIDE DEF b
  <2> QED BY <1>2 DEF Operation
<1>4. d \in Operation /\ d.at = "done" /\ d.request = o.request /\ d.answer = answer
  <2> HIDE DEF c
  <2> QED BY <1>3 DEF Operation
<1>5. /\ e \in Operation /\ e.at = "done" /\ e.request = o.request /\ e.answer = answer
      /\ e.decision = decision
  <2> HIDE DEF d
  <2> QED BY <1>4 DEF Operation
<1>6. Over(o, answer, decision) = e
  BY DEF Over
<1> QED
  <2> HIDE DEF e
  <2> QED BY <1>5, <1>6

\* What one machine signs of a request is an envelope, and there are three.
LEMMA ResultsAreEnvelopes ==
    ASSUME LiveTypes, NEW i \in DOMAIN operations
    PROVE  /\ operations[i] \in Operation
           /\ operations[i].request \in Request
           /\ Results(i) \subseteq Envelope /\ IsFiniteSet(Results(i))
<1>1. operations[i] \in Operation
  BY DEF LiveTypes
<1>2. operations[i].request \in Request
  BY <1>1 DEF Operation
<1>3. ASSUME NEW m \in Machine
      PROVE  Evaluated(operations[i].request, m, operations[i].available) \in Envelope
  <2>1. opinion[operations[i].request] \in Opinions
    BY <1>2 DEF LiveTypes
  <2>2. opinion[operations[i].request][m] \in {"ALLOW", "DENY_POLICY"}
    BY <2>1, OpinionAssumption
  <2> QED BY <1>2, <2>2 DEF Evaluated, Envelope, Digest
<1>4. Results(i) = ({Evaluated(operations[i].request, 1, operations[i].available)}
                    \cup {Evaluated(operations[i].request, 2, operations[i].available)})
                    \cup {Evaluated(operations[i].request, 3, operations[i].available)}
  <2>1. Machine = {1, 2, 3}
    BY DEF Machine
  <2> QED BY <2>1, Zenon DEF Results
<1>5. IsFiniteSet(Results(i))
  <2>1. \A a, b, c : IsFiniteSet(({a} \cup {b}) \cup {c})
    <3> TAKE a, b, c
    <3>1. IsFiniteSet({a})
      BY FS_Singleton
    <3>2. IsFiniteSet({a} \cup {b})
      BY <3>1, FS_AddElement
    <3> QED BY <3>2, FS_AddElement
  <2> DEFINE one(m) == Evaluated(operations[i].request, m, operations[i].available)
  <2>2. IsFiniteSet(({one(1)} \cup {one(2)}) \cup {one(3)})
    BY <2>1
  <2>3. Results(i) = ({one(1)} \cup {one(2)}) \cup {one(3)}
    BY <1>4
  <2> HIDE DEF one
  <2> QED BY <2>2, <2>3
<1> QED BY <1>1, <1>2, <1>3, <1>5 DEF Results

\* A decision is never taken back: the router only gains votes.
LEMMA DecisionsStay ==
    ASSUME votes \subseteq votes', IsFiniteSet(votes'), NEW r, NEW decision, Decided(r, decision)
    PROVE  Decided(r, decision)'
<1>1. PICK d \in Digest : SameVotes(r, d) >= 2 /\ (d = "ALLOW") = (decision = "ALLOW")
  BY DEF Decided
<1> DEFINE before == {v \in votes : v.request = r /\ v.digest = d}
           after  == {v \in votes' : v.request = r /\ v.digest = d}
<1>2. before \subseteq after /\ IsFiniteSet(after)
  BY FS_Subset
<1>3. /\ IsFiniteSet(before) /\ Cardinality(before) <= Cardinality(after)
      /\ Cardinality(before) \in Nat /\ Cardinality(after) \in Nat
  BY <1>2, FS_Subset, FS_CardinalityType
<1>4. SameVotes(r, d) = Cardinality(before) /\ SameVotes(r, d)' = Cardinality(after)
  BY DEF SameVotes
<1>5. SameVotes(r, d)' >= 2
  BY <1>1, <1>3, <1>4
<1> QED BY <1>1, <1>5 DEF Decided

LEMMA UnchangedVotes ==
    ASSUME UNCHANGED votes
    PROVE  \A r, decision : Decided(r, decision) => Decided(r, decision)'
<1>1. \A r, d : SameVotes(r, d)' = SameVotes(r, d)
  BY DEF SameVotes
<1> QED BY <1>1 DEF Decided

\* The second vote for a digest decides the request.
LEMMA SecondVoteDecides ==
    ASSUME LiveTypes, NEW e \in Envelope, Deciding(e), ~Voted(e.request, e.machine),
           votes' = votes \cup {e}, IsFiniteSet(votes)
    PROVE  Decided(e.request, e.digest)'
<1> DEFINE before == {v \in votes : v.request = e.request /\ v.digest = e.digest}
           after  == {v \in votes' : v.request = e.request /\ v.digest = e.digest}
<1>1. e \notin before /\ after = before \cup {e}
  BY DEF Voted
<1>2. IsFiniteSet(before)
  BY FS_Subset
<1>3. Cardinality(after) = Cardinality(before) + 1
  BY <1>1, <1>2, FS_AddElement
<1>4. SameVotes(e.request, e.digest) = Cardinality(before)
      /\ SameVotes(e.request, e.digest)' = Cardinality(after)
  BY DEF SameVotes
<1>5. SameVotes(e.request, e.digest)' >= 2
  BY <1>3, <1>4 DEF Deciding
<1> QED BY <1>5, EnvelopeFields DEF Decided

\* An operation that is not touched carries what it carried.
LEMMA OthersCarry ==
    ASSUME LiveInv, signed \subseteq signed', votes \subseteq votes', IsFiniteSet(votes'),
           UNCHANGED opinion, NEW j \in DOMAIN operations, operations'[j] = operations[j]
    PROVE  Carries(j)'
<1>1. Carries(j)
  BY DEF LiveInv
<1>2. Results(j)' = Results(j)
  BY DEF Results, Evaluated
<1>3. ASSUME operations'[j].answer \notin {"none", "error"}
      PROVE  Decided(operations[j].request, operations[j].decision)'
  <2>1. Decided(operations[j].request, operations[j].decision)
    BY <1>1, <1>3 DEF Carries
  <2>2. \A r, decision : Decided(r, decision) => Decided(r, decision)'
    BY DecisionsStay
  <2> QED BY <2>1, <2>2
<1> QED BY <1>1, <1>2, <1>3 DEF Carries

LEMMA EditedOperations ==
    ASSUME operations \in Seq(Operation), NEW i \in DOMAIN operations, NEW new \in Operation,
           operations' = [operations EXCEPT ![i] = new]
    PROVE  /\ operations' \in Seq(Operation) /\ DOMAIN operations' = DOMAIN operations
           /\ operations'[i] = new
           /\ \A j \in DOMAIN operations : j # i => operations'[j] = operations[j]
OBVIOUS

\* What a step may do to the chain and to the machines.
Grows ==
    /\ signed \subseteq signed' /\ signed' \subseteq Envelope /\ IsFiniteSet(signed')
    /\ votes \subseteq votes' /\ votes' \subseteq signed'
    /\ status' \in [Request -> Status] /\ UNCHANGED opinion
    /\ SignedAtCheckpoint' /\ StatusIsDecided'

LEMMA QuietStep ==
    ASSUME LiveInv, UNCHANGED <<status, votes, signed, opinion>>
    PROVE  Grows
<1>1. SignedAtCheckpoint'
  <2>1. \A r, m : Evaluated(r, m, InitialDeposit)' = Evaluated(r, m, InitialDeposit)
    BY DEF Evaluated
  <2> QED BY <2>1 DEF LiveInv, SignedAtCheckpoint
<1>2. StatusIsDecided'
  <2>1. \A r, decision : Decided(r, decision) => Decided(r, decision)'
    BY UnchangedVotes
  <2> QED BY <2>1 DEF LiveInv, StatusIsDecided
<1> QED BY <1>1, <1>2 DEF LiveInv, LiveTypes, Grows

\* A step that touches no operation.
LEMMA ChainStep ==
    ASSUME LiveInv, Grows, UNCHANGED operations
    PROVE  LiveInv'
<1>1. LiveTypes'
  BY DEF LiveInv, LiveTypes, Grows
<1>2. IsFiniteSet(votes')
  BY FS_Subset DEF Grows
<1>3. \A j \in DOMAIN operations : operations'[j] = operations[j]
  OBVIOUS
<1>4. \A j \in DOMAIN operations : Carries(j)'
  BY <1>2, <1>3, OthersCarry DEF Grows
<1> QED BY <1>1, <1>4 DEF LiveInv, Grows

\* A step of one operation.
LEMMA OperationStep ==
    ASSUME LiveInv, Grows, NEW i \in DOMAIN operations, NEW new \in Operation,
           operations' = [operations EXCEPT ![i] = new], Carries(i)'
    PROVE  LiveInv'
<1>1. /\ operations' \in Seq(Operation) /\ DOMAIN operations' = DOMAIN operations
      /\ \A j \in DOMAIN operations : j # i => operations'[j] = operations[j]
  BY EditedOperations DEF LiveInv, LiveTypes
<1>2. LiveTypes'
  BY <1>1 DEF LiveInv, Grows, LiveTypes
<1>3. IsFiniteSet(votes')
  BY FS_Subset DEF Grows
<1>4. \A j \in DOMAIN operations : Carries(j)'
  BY <1>1, <1>3, OthersCarry DEF Grows
<1> QED BY <1>1, <1>2, <1>4 DEF LiveInv, Grows

\* An operation that fails carries nothing on.
LEMMA FailingOperation ==
    ASSUME LiveInv, Grows,
           NEW i \in DOMAIN operations, Fail(i)
    PROVE  LiveInv'
<1> DEFINE new == Over(operations[i], "error", "none")
<1>1. operations[i] \in Operation
  BY DEF LiveInv, LiveTypes
<1>2. new \in Operation /\ new.at = "done" /\ new.answer = "error"
  BY <1>1, OverOperation
<1>3. operations' = [operations EXCEPT ![i] = new]
  BY DEF Fail
<1> HIDE DEF new
<1>4. operations'[i] = new
  BY <1>2, <1>3, EditedOperations DEF LiveInv, LiveTypes
<1>5. Carries(i)'
  BY <1>2, <1>4 DEF Carries
<1> QED BY <1>2, <1>3, <1>5, OperationStep

\* An operation that moves to a place where it carries no more than before.
LEMMA MovingOperation ==
    ASSUME LiveInv, Grows,
           NEW i \in DOMAIN operations, operations[i].at # "done", NEW place \in Place, GoTo(i, place),
           \/ place \in {"spend", "balance", "final"}
           \/ /\ place \in {"submit", "write", "reread"} /\ operations[i].queue \subseteq signed
              /\ place = "write" => operations[i].queue # {}
    PROVE  LiveInv'
<1> DEFINE new == [operations[i] EXCEPT !.at = place]
<1>1. operations[i] \in Operation
  BY DEF LiveInv, LiveTypes
<1>2. /\ new \in Operation /\ new.at = place /\ new.queue = operations[i].queue
      /\ new.answer = operations[i].answer /\ new.request = operations[i].request
      /\ new.decision = operations[i].decision
  BY <1>1 DEF Operation
<1>3. operations' = [operations EXCEPT ![i] = new]
  BY DEF GoTo
<1>4. operations'[i] = new
  BY <1>2, <1>3, EditedOperations DEF LiveInv, LiveTypes
<1>5. signed \subseteq signed'
  BY DEF Grows
<1>6. new.answer = "none"
  BY <1>2 DEF LiveInv, Carries
<1>7. Carries(i)'
  BY <1>2, <1>4, <1>5, <1>6 DEF Carries
<1> QED BY <1>2, <1>3, <1>7, OperationStep

-----------------------------------------------------------------------------
(* The steps of an operation.                                               *)

LEMMA ReadRequestKeeps ==
    ASSUME LiveInv, NEW i \in DOMAIN operations, ReadRequest(i)
    PROVE  LiveInv'
<1> DEFINE s == status[operations[i].request]
<1>1. /\ operations[i] \in Operation /\ operations[i].request \in Request
      /\ UNCHANGED votes /\ Grows
  BY ResultsAreEnvelopes, QuietStep DEF LiveInv, ReadRequest, chainVars
<1>2. CASE s \in Finalized /\ Finish(i, "already-finalized", IF s = "Denied" THEN "DENY" ELSE "ALLOW")
  <2> DEFINE decision == IF s = "Denied" THEN "DENY" ELSE "ALLOW"
             new == Over(operations[i], "already-finalized", decision)
  <2>1. new \in Operation /\ new.at = "done" /\ new.request = operations[i].request
        /\ new.decision = decision
    BY <1>1, OverOperation
  <2>2. operations' = [operations EXCEPT ![i] = new]
    BY <1>2 DEF Finish
  <2>4. Decided(new.request, new.decision)
    BY <1>1, <1>2, <2>1 DEF LiveInv, StatusIsDecided, Finalized
  <2> HIDE DEF new
  <2>3. operations'[i] = new
    BY <2>1, <2>2, EditedOperations DEF LiveInv, LiveTypes
  <2>5. \A r, d : Decided(r, d) => Decided(r, d)'
    BY <1>1, UnchangedVotes
  <2>6. Carries(i)'
    BY <2>1, <2>3, <2>4, <2>5 DEF Carries
  <2> QED BY <1>1, <2>1, <2>2, <2>6, OperationStep
<1>3. CASE GoTo(i, "spend")
  BY <1>1, <1>3, MovingOperation DEF Place, ReadRequest, At
<1>4. CASE Fail(i)
  BY <1>1, <1>4, FailingOperation
<1> QED BY <1>2, <1>3, <1>4 DEF ReadRequest

LEMMA ReadSpendStateKeeps ==
    ASSUME LiveInv, NEW i \in DOMAIN operations, ReadSpendState(i)
    PROVE  LiveInv'
<1>1. Grows
  BY QuietStep DEF ReadSpendState, chainVars
<1>2. CASE GoTo(i, "balance")
  BY <1>1, <1>2, MovingOperation DEF Place, ReadSpendState, At
<1>3. CASE Fail(i)
  BY <1>1, <1>3, FailingOperation
<1> QED BY <1>2, <1>3 DEF ReadSpendState

\* An operation goes on only from the accounting the request froze.
LEMMA ReadAccountingKeeps ==
    ASSUME LiveInv, NEW i \in DOMAIN operations, ReadAccounting(i)
    PROVE  LiveInv'
<1>1. Grows /\ operations[i] \in Operation
  BY QuietStep DEF ReadAccounting, LiveInv, LiveTypes, chainVars
<1>2. CASE Fail(i)
  BY <1>1, <1>2, FailingOperation
<1>3. CASE /\ MatchesCheckpoint
           /\ operations' = [operations EXCEPT ![i].at = "dispatch",
                                               ![i].available = accounting.available]
  <2>1. accounting.available = InitialDeposit
    BY <1>3 DEF MatchesCheckpoint, accounting, balanceCheckpoint
  <2> DEFINE here == [operations[i] EXCEPT !.at = "dispatch"]
             new == [here EXCEPT !.available = InitialDeposit]
  <2>7. /\ here \in Operation /\ here.at = "dispatch" /\ here.request = operations[i].request
        /\ here.answer = operations[i].answer /\ here.decision = operations[i].decision
    BY <1>1 DEF Operation, Place
  <2>2. /\ new \in Operation /\ new.at = "dispatch" /\ new.available = InitialDeposit
        /\ new.answer = operations[i].answer /\ new.request = operations[i].request
        /\ new.decision = operations[i].decision
    <3> HIDE DEF here
    <3> QED BY <2>7, LiveRelayAssumption DEF Operation
  <2>3. operations' = [operations EXCEPT ![i] = new]
    BY <1>3, <2>1
  <2> HIDE DEF new
  <2>4. operations'[i] = new
    BY <2>2, <2>3, EditedOperations DEF LiveInv, LiveTypes
  <2>5. new.answer = "none"
    BY <2>2 DEF LiveInv, Carries, ReadAccounting, At
  <2>6. Carries(i)'
    BY <2>2, <2>4, <2>5 DEF Carries
  <2> QED BY <1>1, <2>2, <2>3, <2>6, OperationStep
<1> QED BY <1>2, <1>3 DEF ReadAccounting

\* What the machines sign of a dispatched operation, they signed on the frozen
\* state; and the operation polls for it.
LEMMA DispatchKeeps ==
    ASSUME LiveInv, NEW i \in DOMAIN operations, Dispatch(i)
    PROVE  LiveInv'
<1>1. /\ operations[i] \in Operation /\ operations[i].available = InitialDeposit
      /\ Results(i) \subseteq Envelope /\ IsFiniteSet(Results(i))
      /\ signed' = signed \cup Results(i) /\ UNCHANGED <<status, votes, opinion>>
  BY ResultsAreEnvelopes DEF LiveInv, Carries, Dispatch, At, chainVars
<1>2. SignedAtCheckpoint'
  <2>1. \A r, m : Evaluated(r, m, InitialDeposit)' = Evaluated(r, m, InitialDeposit)
    BY <1>1 DEF Evaluated
  <2>2. \A e \in signed : e = Evaluated(e.request, e.machine, InitialDeposit)
    BY DEF LiveInv, SignedAtCheckpoint
  <2>3. \A e \in Results(i) : e = Evaluated(e.request, e.machine, InitialDeposit)
    BY <1>1 DEF Results, Evaluated
  <2> QED BY <1>1, <2>1, <2>2, <2>3 DEF SignedAtCheckpoint
<1>3. StatusIsDecided'
  <2>1. \A r, decision : Decided(r, decision) => Decided(r, decision)'
    BY <1>1, UnchangedVotes
  <2> QED BY <1>1, <2>1 DEF LiveInv, StatusIsDecided
<1>4. IsFiniteSet(signed \cup Results(i))
  BY <1>1, FS_Union DEF LiveInv, LiveTypes
<1>5. Grows
  BY <1>1, <1>2, <1>3, <1>4 DEF LiveInv, LiveTypes, Grows
<1>6. CASE operations' = [operations EXCEPT ![i].at = "poll", ![i].dispatched = TRUE]
  <2> DEFINE here == [operations[i] EXCEPT !.at = "poll"]
             new == [here EXCEPT !.dispatched = TRUE]
  <2>1. /\ here \in Operation /\ here.at = "poll" /\ here.request = operations[i].request
        /\ here.answer = operations[i].answer /\ here.decision = operations[i].decision
        /\ here.available = InitialDeposit
    BY <1>1 DEF Operation, Place
  <2>2. /\ new \in Operation /\ new.at = "poll" /\ new.request = operations[i].request
        /\ new.answer = operations[i].answer /\ new.decision = operations[i].decision
        /\ new.available = InitialDeposit
    <3> HIDE DEF here
    <3> QED BY <2>1 DEF Operation
  <2>3. operations' = [operations EXCEPT ![i] = new]
    BY <1>6
  <2> HIDE DEF new
  <2>4. operations'[i] = new
    BY <2>2, <2>3, EditedOperations DEF LiveInv, LiveTypes
  <2>5. Results(i)' = Results(i)
    BY <1>1, <2>2, <2>4 DEF Results, Evaluated
  <2>6. new.answer = "none"
    BY <2>2 DEF LiveInv, Carries, Dispatch, At
  <2>7. Carries(i)'
    BY <1>1, <2>2, <2>4, <2>5, <2>6 DEF Carries
  <2> QED BY <1>5, <2>2, <2>3, <2>7, OperationStep
<1>7. CASE operations' = [operations EXCEPT ![i] =
                            [Over(@, "error", "none") EXCEPT !.dispatched = TRUE]]
  <2> DEFINE over == Over(operations[i], "error", "none")
             new == [over EXCEPT !.dispatched = TRUE]
  <2>1. over \in Operation /\ over.at = "done" /\ over.answer = "error"
    BY <1>1, OverOperation
  <2>2. new \in Operation /\ new.at = "done" /\ new.answer = "error"
    <3> HIDE DEF over
    <3> QED BY <2>1 DEF Operation
  <2>3. operations' = [operations EXCEPT ![i] = new]
    BY <1>7
  <2> HIDE DEF new
  <2>4. operations'[i] = new
    BY <2>2, <2>3, EditedOperations DEF LiveInv, LiveTypes
  <2>5. Carries(i)'
    BY <2>2, <2>4 DEF Carries
  <2> QED BY <1>5, <2>2, <2>3, <2>5, OperationStep
<1> QED BY <1>6, <1>7 DEF Dispatch

\* What an operation submits, machines have signed.
LEMMA PollKeeps ==
    ASSUME LiveInv, NEW i \in DOMAIN operations, Poll(i)
    PROVE  LiveInv'
<1>1. /\ operations[i] \in Operation /\ Results(i) \subseteq signed /\ signed \subseteq Envelope
      /\ UNCHANGED <<votes, signed>> /\ Grows /\ operations[i].answer = "none"
  BY QuietStep DEF LiveInv, LiveTypes, Carries, Poll, At, chainVars
<1>2. CASE Fail(i)
  BY <1>1, <1>2, FailingOperation
<1>3. ASSUME NEW queue \in SUBSET Results(i), NEW decision \in {"ALLOW", "DENY"},
             operations' = [operations EXCEPT ![i].at = "submit", ![i].queue = queue,
                                              ![i].decision = decision]
      PROVE  LiveInv'
  <2> DEFINE here == [operations[i] EXCEPT !.at = "submit"]
             queued == [here EXCEPT !.queue = queue]
             new == [queued EXCEPT !.decision = decision]
  <2>1. here \in Operation /\ here.at = "submit" /\ here.answer = operations[i].answer
    BY <1>1 DEF Operation, Place
  <2>2. /\ queued \in Operation /\ queued.at = "submit" /\ queued.queue = queue
        /\ queued.answer = operations[i].answer
    <3>1. queue \in SUBSET Envelope
      BY <1>1
    <3> HIDE DEF here
    <3> QED BY <2>1, <3>1 DEF Operation
  <2>3. /\ new \in Operation /\ new.at = "submit" /\ new.queue = queue
        /\ new.answer = operations[i].answer
    <3> HIDE DEF queued
    <3> QED BY <2>2 DEF Operation
  <2>4. operations' = [operations EXCEPT ![i] = new]
    BY <1>3
  <2> HIDE DEF new
  <2>5. operations'[i] = new
    BY <2>3, <2>4, EditedOperations DEF LiveInv, LiveTypes
  <2>6. Carries(i)'
    BY <1>1, <2>3, <2>5 DEF Carries
  <2> QED BY <1>1, <2>3, <2>4, <2>6, OperationStep
<1> QED
  <2>1. PICK answered \in SUBSET Results(i) :
          IF Matching(answered) = {} THEN Fail(i)
          ELSE operations' = [operations EXCEPT ![i].at = "submit",
                 ![i].queue = Matching(answered),
                 ![i].decision = IF First(Matching(answered)).digest = "ALLOW"
                                 THEN "ALLOW" ELSE "DENY"]
    BY DEF Poll
  <2>2. Matching(answered) \in SUBSET Results(i)
    BY DEF Matching
  <2> QED BY <1>2, <1>3, <2>1, <2>2

LEMMA SubmitKeeps ==
    ASSUME LiveInv, NEW i \in DOMAIN operations, Submit(i)
    PROVE  LiveInv'
<1> DEFINE queue == operations[i].queue
<1>1. /\ operations[i] \in Operation /\ queue \subseteq signed /\ Grows
      /\ operations[i].at = "submit" /\ operations[i].answer = "none"
  BY QuietStep DEF LiveInv, LiveTypes, Carries, Submit, At, chainVars
<1>2. CASE queue = {} /\ GoTo(i, "final")
  BY <1>1, <1>2, MovingOperation DEF Place
<1>3. CASE queue # {} /\ GoTo(i, "write")
  BY <1>1, <1>3, MovingOperation DEF Place
<1>4. CASE operations' = [operations EXCEPT ![i].queue = Rest(queue)]
  <2> DEFINE new == [operations[i] EXCEPT !.queue = Rest(queue)]
  <2>1. Rest(queue) \subseteq signed
    BY <1>1 DEF Rest
  <2>2. new \in Operation /\ new.at = "submit" /\ new.answer = "none" /\ new.queue = Rest(queue)
    BY <1>1, <2>1 DEF Operation, LiveInv, LiveTypes
  <2>3. operations' = [operations EXCEPT ![i] = new]
    BY <1>4
  <2> HIDE DEF new
  <2>4. operations'[i] = new
    BY <2>2, <2>3, EditedOperations DEF LiveInv, LiveTypes
  <2>5. Carries(i)'
    BY <1>1, <2>1, <2>2, <2>4 DEF Carries, Grows
  <2> QED BY <1>1, <2>2, <2>3, <2>5, OperationStep
<1> QED BY <1>2, <1>3, <1>4 DEF Submit

\* A vote the router accepts decides the request when it is the second for its
\* digest, and changes no request that was decided.
LEMMA AcceptedVote ==
    ASSUME LiveInv, NEW e \in signed, Accepts(e), Vote(e), UNCHANGED <<opinion, signed>>
    PROVE  Grows
<1>1. /\ e \in Envelope /\ e.request \in Request /\ e.digest \in Digest
      /\ IsFiniteSet(votes)
  BY EnvelopeFields, FS_Subset DEF LiveInv, LiveTypes
<1>2. votes' = votes \cup {e} /\ votes' \subseteq signed' /\ IsFiniteSet(votes')
  BY <1>1, FS_AddElement DEF Vote, LiveInv, LiveTypes
<1>3. \A r, decision : Decided(r, decision) => Decided(r, decision)'
  BY <1>2, DecisionsStay
<1>4. status' \in [Request -> Status]
  BY DEF Vote, LiveInv, LiveTypes, Status
<1>5. StatusIsDecided'
  <2> SUFFICES ASSUME NEW r \in Request
               PROVE  /\ status'[r] \in {"Allowed", "Executed"} => Decided(r, "ALLOW")'
                      /\ status'[r] = "Denied" => Decided(r, "DENY")'
    BY DEF StatusIsDecided
  <2>1. CASE status'[r] = status[r]
    BY <1>3, <2>1 DEF LiveInv, StatusIsDecided
  <2>2. CASE status'[r] # status[r]
    <3>1. /\ r = e.request /\ Deciding(e) /\ ~Voted(e.request, e.machine)
          /\ status'[r] = IF e.digest = "ALLOW" THEN "Allowed" ELSE "Denied"
      BY <1>1, <2>2 DEF Vote, Accepts, LiveInv, LiveTypes
    <3>2. \E d \in Digest : SameVotes(r, d)' >= 2 /\ (d = "ALLOW") = (e.digest = "ALLOW")
      BY <1>1, <1>2, <3>1, SecondVoteDecides DEF LiveInv, Decided
    <3> QED BY <3>1, <3>2 DEF Decided
  <2> QED BY <2>1, <2>2
<1>6. SignedAtCheckpoint'
  <2>1. \A r, m : Evaluated(r, m, InitialDeposit)' = Evaluated(r, m, InitialDeposit)
    BY DEF Evaluated
  <2> QED BY <2>1 DEF LiveInv, SignedAtCheckpoint
<1> QED BY <1>2, <1>4, <1>5, <1>6 DEF LiveInv, LiveTypes, Grows

LEMMA WriteKeeps ==
    ASSUME LiveInv, NEW i \in DOMAIN operations, Write(i)
    PROVE  LiveInv'
<1> DEFINE e == First(operations[i].queue)
<1>1. /\ operations[i].at = "write" /\ operations[i].queue \subseteq signed
      /\ operations[i].queue # {} /\ signed \subseteq Envelope
  BY DEF LiveInv, LiveTypes, Carries, Write, At
<1>2. e \in signed
  BY <1>1, FirstIsQueued
<1>3. CASE ~Accepts(e) /\ Fail(i) /\ UNCHANGED chainVars
  <2>1. Grows
    BY <1>3, QuietStep DEF Write, chainVars
  <2> QED BY <1>3, <2>1, FailingOperation
<1>4. CASE Accepts(e) /\ Vote(e) /\ (GoTo(i, "reread") \/ Fail(i))
  <2>1. Grows
    BY <1>2, <1>4, AcceptedVote DEF Write
  <2> QED BY <1>1, <1>4, <2>1, FailingOperation, MovingOperation DEF Place
<1> QED BY <1>3, <1>4 DEF Write

LEMMA RereadKeeps ==
    ASSUME LiveInv, NEW i \in DOMAIN operations, Reread(i)
    PROVE  LiveInv'
<1> DEFINE queue == operations[i].queue
           place == IF status[operations[i].request] \in {"Allowed", "Denied"}
                    THEN "final" ELSE "submit"
           here == [operations[i] EXCEPT !.at = place]
           new == [here EXCEPT !.queue = Rest(queue)]
<1>1. /\ operations[i] \in Operation /\ queue \subseteq signed /\ Grows
      /\ operations[i].answer = "none" /\ signed \subseteq Envelope
  BY QuietStep DEF LiveInv, LiveTypes, Carries, Reread, At, chainVars
<1>2. /\ here \in Operation /\ here.at \in {"final", "submit"} /\ here.answer = "none"
  BY <1>1 DEF Operation, Place
<1>3. Rest(queue) \subseteq signed
  BY <1>1 DEF Rest
<1>4. /\ new \in Operation /\ new.at \in {"final", "submit"} /\ new.answer = "none"
      /\ new.queue = Rest(queue)
  <2>1. Rest(queue) \in SUBSET Envelope
    BY <1>1, <1>3
  <2> HIDE DEF here
  <2> QED BY <1>2, <2>1 DEF Operation
<1>5. operations' = [operations EXCEPT ![i] = new]
  BY DEF Reread
<1> HIDE DEF new
<1>6. operations'[i] = new
  BY <1>4, <1>5, EditedOperations DEF LiveInv, LiveTypes
<1>7. Carries(i)'
  BY <1>1, <1>3, <1>4, <1>6 DEF Carries, Grows
<1> QED BY <1>1, <1>4, <1>5, <1>7, OperationStep

\* The answer is given on the status read back, whatever was submitted.
LEMMA ConcludeKeeps ==
    ASSUME LiveInv, NEW i \in DOMAIN operations, Conclude(i)
    PROVE  LiveInv'
<1> DEFINE decision == operations[i].decision
           new == Over(operations[i], "threshold-submitted", decision)
<1>1. /\ operations[i] \in Operation /\ operations[i].request \in Request /\ Grows
      /\ UNCHANGED votes
  BY ResultsAreEnvelopes, QuietStep DEF LiveInv, Conclude, chainVars
<1>2. CASE Fail(i)
  BY <1>1, <1>2, FailingOperation
<1>3. CASE PostCondition(i) /\ Finish(i, "threshold-submitted", decision)
  <2>1. decision \in {"none", "ALLOW", "DENY"}
    BY <1>1 DEF Operation
  <2>2. /\ new \in Operation /\ new.at = "done" /\ new.request = operations[i].request
        /\ new.decision = decision
    BY <1>1, <2>1, OverOperation
  <2>3. operations' = [operations EXCEPT ![i] = new]
    BY <1>3 DEF Finish
  <2>4. Decided(operations[i].request, decision)
    <3>1. CASE decision = "ALLOW"
      BY <1>1, <1>3, <3>1 DEF PostCondition, LiveInv, StatusIsDecided
    <3>2. CASE decision # "ALLOW"
      <4>1. Decided(operations[i].request, "DENY")
        BY <1>1, <1>3, <3>2 DEF PostCondition, LiveInv, StatusIsDecided
      <4> QED BY <3>2, <4>1 DEF Decided
    <3> QED BY <3>1, <3>2
  <2>5. \A r, d : Decided(r, d) => Decided(r, d)'
    BY <1>1, UnchangedVotes
  <2> HIDE DEF new
  <2>6. operations'[i] = new
    BY <2>2, <2>3, EditedOperations DEF LiveInv, LiveTypes
  <2>7. Carries(i)'
    BY <2>2, <2>4, <2>5, <2>6 DEF Carries
  <2> QED BY <1>1, <2>2, <2>3, <2>7, OperationStep
<1> QED BY <1>2, <1>3 DEF Conclude

LEMMA StepKeeps ==
    ASSUME LiveInv, NEW i \in 1..MaxOperations, Step(i)
    PROVE  LiveInv'
<1>1. i \in DOMAIN operations
  BY DEF Step, At, ReadRequest, ReadSpendState, ReadAccounting, Dispatch, DispatchNothing,
         Poll, Submit, Write, Reread, Conclude
<1>2. CASE DispatchNothing(i)
  BY <1>1, <1>2, QuietStep, FailingOperation DEF DispatchNothing, chainVars
<1> QED BY <1>1, <1>2, ReadRequestKeeps, ReadSpendStateKeeps, ReadAccountingKeeps, DispatchKeeps,
           PollKeeps, SubmitKeeps, WriteKeeps, RereadKeeps, ConcludeKeeps DEF Step

LEMMA ExpireAuthorizationKeeps ==
    ASSUME LiveInv, NEW i \in DOMAIN operations, ExpireAuthorization(i)
    PROVE  LiveInv'
<1> DEFINE new == [operations[i] EXCEPT !.expired = TRUE]
<1>1. /\ operations[i] \in Operation /\ Grows /\ UNCHANGED <<votes, signed, opinion>>
  BY QuietStep DEF LiveInv, LiveTypes, ExpireAuthorization, chainVars
<1>2. /\ new \in Operation /\ new.at = operations[i].at /\ new.answer = operations[i].answer
      /\ new.available = operations[i].available /\ new.queue = operations[i].queue
      /\ new.request = operations[i].request /\ new.decision = operations[i].decision
  BY <1>1 DEF Operation
<1>3. operations' = [operations EXCEPT ![i] = new]
  BY DEF ExpireAuthorization
<1> HIDE DEF new
<1>4. operations'[i] = new
  BY <1>2, <1>3, EditedOperations DEF LiveInv, LiveTypes
<1>5. Results(i)' = Results(i)
  BY <1>1, <1>2, <1>4 DEF Results, Evaluated
<1>6. \A r, d : Decided(r, d) => Decided(r, d)'
  BY <1>1, UnchangedVotes
<1>7. Carries(i)
  BY DEF LiveInv
<1>8. Carries(i)'
  BY <1>1, <1>2, <1>4, <1>5, <1>6, <1>7 DEF Carries
<1> QED BY <1>1, <1>2, <1>3, <1>8, OperationStep

LEMMA EvaluateKeeps ==
    ASSUME LiveInv, NEW r \in Request, NEW c \in Requester, NEW valid \in BOOLEAN,
           Evaluate(r, c, valid)
    PROVE  LiveInv'
<1> DEFINE new == Started(r, c, valid)
<1>1. Grows
  BY QuietStep DEF Evaluate, chainVars
<1>2. CASE UNCHANGED operations
  BY <1>1, <1>2, ChainStep
<1>3. CASE operations' = Append(operations, new)
  <2>1. new \in Operation /\ new.at = "read" /\ new.answer = "none"
    BY DEF Started, Operation, Place
  <2> HIDE DEF new
  <2>2. /\ operations' \in Seq(Operation) /\ DOMAIN operations' = 1..(Len(operations) + 1)
        /\ DOMAIN operations = 1..Len(operations) /\ Len(operations) \in Nat
        /\ operations'[Len(operations) + 1] = new
        /\ \A j \in DOMAIN operations : operations'[j] = operations[j]
    BY <1>3, <2>1 DEF LiveInv, LiveTypes
  <2>3. IsFiniteSet(votes')
    BY <1>1, FS_Subset DEF Grows
  <2>4. \A j \in DOMAIN operations : Carries(j)'
    BY <1>1, <2>2, <2>3, OthersCarry DEF Grows
  <2>5. LiveTypes'
    BY <1>1, <2>2 DEF LiveInv, LiveTypes, Grows
  <2>6. \A j \in DOMAIN operations' : Carries(j)'
    <3> SUFFICES ASSUME NEW j \in DOMAIN operations' PROVE Carries(j)'
      OBVIOUS
    <3>1. CASE j \in DOMAIN operations
      BY <2>4, <3>1
    <3>2. CASE j = Len(operations) + 1
      <4>1. operations'[j].at = "read" /\ operations'[j].answer = "none"
        BY <2>1, <2>2, <3>2
      <4> QED BY <4>1 DEF Carries
    <3> QED BY <2>2, <3>1, <3>2
  <2> QED BY <1>1, <2>5, <2>6 DEF LiveInv, Grows
<1> QED BY <1>2, <1>3 DEF Evaluate

-----------------------------------------------------------------------------
(* The other users of the chain.                                            *)

LEMMA ChainNextKeeps ==
    ASSUME LiveInv, ChainNext
    PROVE  LiveInv'
<1>1. CASE Deposit \/ Withdraw
  BY <1>1, QuietStep, ChainStep DEF Deposit, Withdraw
<1>2. CASE \E e \in Envelope : Compete(e)
  BY <1>2, AcceptedVote, ChainStep DEF Compete
<1>3. CASE \E r \in Request : Execute(r) \/ Abandon(r)
  <2>1. PICK r \in Request : Execute(r) \/ Abandon(r)
    BY <1>3
  <2>2. UNCHANGED <<votes, signed, opinion, operations>>
    BY <2>1 DEF Execute, Abandon
  <2>3. PICK s \in {"Executed", "Expired", "Cancelled"} :
          /\ status' = [status EXCEPT ![r] = s]
          /\ s = "Executed" => status[r] = "Allowed"
    BY <2>1 DEF Execute, Abandon
  <2>4. status' \in [Request -> Status]
    BY <2>3 DEF LiveInv, LiveTypes, Status
  <2>5. \A a, d : Decided(a, d) => Decided(a, d)'
    BY <2>2, UnchangedVotes
  <2>6. StatusIsDecided'
    BY <2>3, <2>5 DEF LiveInv, LiveTypes, StatusIsDecided
  <2>7. SignedAtCheckpoint'
    <3>1. \A a, m : Evaluated(a, m, InitialDeposit)' = Evaluated(a, m, InitialDeposit)
      BY <2>2 DEF Evaluated
    <3> QED BY <2>2, <3>1 DEF LiveInv, SignedAtCheckpoint
  <2>8. Grows
    BY <2>2, <2>4, <2>6, <2>7 DEF LiveInv, LiveTypes, Grows
  <2> QED BY <2>2, <2>8, ChainStep
<1> QED BY <1>1, <1>2, <1>3 DEF ChainNext

-----------------------------------------------------------------------------
(* The theorems.                                                            *)

LEMMA LiveInvInit == Init => LiveInv
<1> SUFFICES ASSUME Init PROVE LiveInv
  OBVIOUS
<1>1. LiveTypes
  BY FS_EmptySet DEF Init, LiveTypes, Status
<1> QED BY <1>1 DEF Init, LiveInv, SignedAtCheckpoint, StatusIsDecided

LEMMA LiveInvNext == LiveInv /\ [Next]_vars => LiveInv'
<1> SUFFICES ASSUME LiveInv, [Next]_vars PROVE LiveInv'
  OBVIOUS
<1>1. CASE \E r \in Request, c \in Requester, valid \in BOOLEAN : Evaluate(r, c, valid)
  BY <1>1, EvaluateKeeps
<1>2. CASE \E i \in 1..MaxOperations : Step(i) \/ AwaitFails(i) \/ ExpireAuthorization(i)
  <2>1. PICK i \in 1..MaxOperations : Step(i) \/ AwaitFails(i) \/ ExpireAuthorization(i)
    BY <1>2
  <2>2. CASE Step(i)
    BY <2>2, StepKeeps
  <2>3. CASE AwaitFails(i)
    <3>1. i \in DOMAIN operations /\ Fail(i) /\ Grows
      BY <2>3, QuietStep DEF AwaitFails, chainVars
    <3> QED BY <3>1, FailingOperation
  <2>4. CASE ExpireAuthorization(i)
    BY <2>4, ExpireAuthorizationKeeps DEF ExpireAuthorization
  <2> QED BY <2>1, <2>2, <2>3, <2>4
<1>3. CASE ChainNext
  BY <1>3, ChainNextKeeps
<1>4. CASE UNCHANGED vars
  BY <1>4, QuietStep, ChainStep DEF vars
<1> QED BY <1>1, <1>2, <1>3, <1>4 DEF Next

\* An answer with a decision is the decision of the router: for any requests,
\* callers, opinions and deposits, and any number of operations, retries and
\* competing executors.
THEOREM AnswersAreDecisions == Spec => []AnswerIsDecision
<1>1. LiveInv => AnswerIsDecision
  BY DEF LiveInv, Carries, AnswerIsDecision
<1> QED BY <1>1, LiveInvInit, LiveInvNext, PTL DEF Spec

\* A machine signs one digest of a request, however often and by however many
\* operations it is dispatched, because every dispatch carries the accounting
\* the request froze.
THEOREM MachinesAgreeWithThemselves == Spec => []RetriesAgree
<1>1. LiveInv => RetriesAgree
  BY DEF LiveInv, SignedAtCheckpoint, RetriesAgree
<1> QED BY <1>1, LiveInvInit, LiveInvNext, PTL DEF Spec

-----------------------------------------------------------------------------
(* The memo.                                                                *)

\* The memo holds operations that were started.
MemoInv == LiveInv /\ evaluations \subseteq DOMAIN operations

\* What the property says of a step, and that the memo keeps to what started.
StaysMemoized ==
    \A i \in evaluations \ evaluations' :
        \/ operations[i].expired \/ operations'[i].answer = "error"
        \/ /\ Len(operations') > Len(operations) /\ Cardinality(evaluations) >= MaxCached
           /\ \A j \in evaluations : operations[j].expired \/ i <= j

MemoKept == evaluations' \subseteq DOMAIN operations' /\ StaysMemoized

LEMMA MemoUntouched ==
    ASSUME MemoInv, UNCHANGED evaluations, DOMAIN operations' = DOMAIN operations
    PROVE  MemoKept
BY DEF MemoInv, MemoKept, StaysMemoized

LEMMA MovingKeepsMemo ==
    ASSUME MemoInv, NEW i, NEW place, GoTo(i, place)
    PROVE  MemoKept
BY MemoUntouched DEF GoTo, MemoInv, LiveInv, LiveTypes

LEMMA FailingKeepsMemo ==
    ASSUME MemoInv, NEW i \in DOMAIN operations, NEW edited,
           operations' = [operations EXCEPT ![i] = edited], edited.answer = "error",
           evaluations' = Forget(i)
    PROVE  MemoKept
<1>1. DOMAIN operations' = DOMAIN operations /\ operations'[i] = edited
  BY DEF MemoInv, LiveInv, LiveTypes
<1> QED BY <1>1 DEF MemoInv, MemoKept, StaysMemoized, Forget

LEMMA FailureKeepsMemo ==
    ASSUME MemoInv, NEW i \in DOMAIN operations, Fail(i)
    PROVE  MemoKept
<1>1. Over(operations[i], "error", "none").answer = "error"
  BY DEF MemoInv, LiveInv, LiveTypes, Over, Operation
<1> QED BY <1>1, FailingKeepsMemo DEF Fail

LEMMA EvaluateKeepsMemo ==
    ASSUME MemoInv, NEW r \in Request, NEW c \in Requester, NEW valid \in BOOLEAN,
           Evaluate(r, c, valid)
    PROVE  MemoKept
<1>1. CASE evaluations' = Unexpired /\ UNCHANGED operations
  BY <1>1 DEF MemoInv, MemoKept, StaysMemoized, Unexpired
<1>2. CASE /\ operations' = Append(operations, Started(r, c, valid))
           /\ evaluations' = Evicted(Unexpired) \cup {Len(operations) + 1}
  <2>1. /\ Len(operations) \in Nat /\ DOMAIN operations = 1..Len(operations)
        /\ DOMAIN operations' = 1..(Len(operations) + 1) /\ Len(operations') = Len(operations) + 1
    BY <1>2 DEF MemoInv, LiveInv, LiveTypes
  <2>2. Unexpired \subseteq evaluations /\ Evicted(Unexpired) \subseteq Unexpired
    BY DEF Unexpired, Evicted
  <2>3. evaluations' \subseteq DOMAIN operations'
    BY <1>2, <2>1, <2>2 DEF MemoInv
  <2>4. IsFiniteSet(evaluations)
    <3>1. IsFiniteSet(1..Len(operations))
      BY <2>1, FS_Interval
    <3> QED BY <2>1, <3>1, FS_Subset DEF MemoInv
  <2>5. Cardinality(Unexpired) <= Cardinality(evaluations)
        /\ Cardinality(Unexpired) \in Nat /\ Cardinality(evaluations) \in Nat
    BY <2>2, <2>4, FS_Subset, FS_CardinalityType
  <2>6. ASSUME NEW i \in evaluations \ evaluations', ~ operations[i].expired
        PROVE  /\ Cardinality(evaluations) >= MaxCached
               /\ \A j \in evaluations : operations[j].expired \/ i <= j
    <3>1. i \in Unexpired /\ i \notin Evicted(Unexpired)
      BY <1>2, <2>6 DEF Unexpired
    <3>2. Cardinality(Unexpired) >= MaxCached /\ i \in Oldest(Unexpired)
      BY <3>1 DEF Evicted
    <3> QED BY <2>5, <3>2, LiveRelayAssumption DEF Oldest, Unexpired
  <2> QED BY <2>1, <2>3, <2>6 DEF MemoKept, StaysMemoized
<1> QED BY <1>1, <1>2 DEF Evaluate

LEMMA StepKeepsMemo ==
    ASSUME MemoInv, NEW i \in 1..MaxOperations, Step(i)
    PROVE  MemoKept
<1>1. i \in DOMAIN operations
  BY DEF Step, ReadRequest, ReadSpendState, ReadAccounting, Dispatch, DispatchNothing, Poll,
         Submit, Write, Reread, Conclude, At
<1>2. ASSUME Fail(i) PROVE MemoKept
  BY <1>1, <1>2, FailureKeepsMemo
<1>3. ASSUME NEW place, GoTo(i, place) PROVE MemoKept
  BY <1>3, MovingKeepsMemo
<1>4. ASSUME UNCHANGED evaluations, NEW f, operations' = [operations EXCEPT ![i] = f] PROVE MemoKept
  BY <1>4, MemoUntouched DEF MemoInv, LiveInv, LiveTypes
<1>5. CASE ReadRequest(i)
  BY <1>5, <1>2, <1>3, <1>4 DEF ReadRequest, Finish
<1>6. CASE ReadSpendState(i)
  BY <1>6, <1>2, <1>3 DEF ReadSpendState
<1>7. CASE ReadAccounting(i)
  <2>1. CASE Fail(i)
    BY <2>1, <1>2
  <2>2. CASE UNCHANGED evaluations /\ DOMAIN operations' = DOMAIN operations
    BY <2>2, MemoUntouched
  <2> QED BY <1>7, <2>1, <2>2 DEF ReadAccounting, MemoInv, LiveInv, LiveTypes
<1>8. CASE Dispatch(i)
  <2>1. CASE UNCHANGED evaluations /\ DOMAIN operations' = DOMAIN operations
    BY <2>1, MemoUntouched
  <2>2. CASE /\ operations' = [operations EXCEPT ![i] =
                  [Over(operations[i], "error", "none") EXCEPT !.dispatched = TRUE]]
             /\ evaluations' = Forget(i)
    <3>1. [Over(operations[i], "error", "none") EXCEPT !.dispatched = TRUE].answer = "error"
      BY <1>1 DEF MemoInv, LiveInv, LiveTypes, Over, Operation
    <3> QED BY <2>2, <3>1, <1>1, FailingKeepsMemo
  <2> QED BY <1>8, <2>1, <2>2 DEF Dispatch, MemoInv, LiveInv, LiveTypes
<1>9. CASE DispatchNothing(i)
  BY <1>9, <1>2 DEF DispatchNothing
<1>10. CASE Poll(i)
  <2>1. CASE Fail(i)
    BY <2>1, <1>2
  <2>2. CASE UNCHANGED evaluations /\ DOMAIN operations' = DOMAIN operations
    BY <2>2, MemoUntouched
  <2> QED BY <1>10, <2>1, <2>2 DEF Poll, MemoInv, LiveInv, LiveTypes
<1>11. CASE Submit(i)
  <2>1. CASE UNCHANGED evaluations /\ DOMAIN operations' = DOMAIN operations
    BY <2>1, MemoUntouched
  <2> QED BY <1>11, <1>3, <2>1 DEF Submit, MemoInv, LiveInv, LiveTypes
<1>12. CASE Write(i)
  BY <1>12, <1>2, <1>3 DEF Write
<1>13. CASE Reread(i)
  <2>1. UNCHANGED evaluations /\ DOMAIN operations' = DOMAIN operations
    BY <1>13 DEF Reread, MemoInv, LiveInv, LiveTypes
  <2> QED BY <2>1, MemoUntouched
<1>14. CASE Conclude(i)
  BY <1>14, <1>2, <1>4 DEF Conclude, Finish
<1> QED BY <1>5, <1>6, <1>7, <1>8, <1>9, <1>10, <1>11, <1>12, <1>13, <1>14 DEF Step

LEMMA NextKeepsMemo == MemoInv /\ [Next]_vars => MemoKept
<1> SUFFICES ASSUME MemoInv, [Next]_vars PROVE MemoKept
  OBVIOUS
<1>1. CASE \E r \in Request, c \in Requester, valid \in BOOLEAN : Evaluate(r, c, valid)
  BY <1>1, EvaluateKeepsMemo
<1>2. CASE \E i \in 1..MaxOperations : Step(i)
  BY <1>2, StepKeepsMemo
<1>3. CASE \E i \in 1..MaxOperations : AwaitFails(i)
  BY <1>3, FailureKeepsMemo DEF AwaitFails
<1>4. CASE \E i \in 1..MaxOperations : ExpireAuthorization(i)
  <2>1. UNCHANGED evaluations /\ DOMAIN operations' = DOMAIN operations
    BY <1>4 DEF ExpireAuthorization, MemoInv, LiveInv, LiveTypes
  <2> QED BY <2>1, MemoUntouched
<1>5. CASE ChainNext
  BY <1>5, MemoUntouched DEF ChainNext, Deposit, Withdraw, Execute, Abandon, Compete
<1>6. CASE UNCHANGED vars
  BY <1>6, MemoUntouched DEF vars
<1> QED BY <1>1, <1>2, <1>3, <1>4, <1>5, <1>6 DEF Next

\* A running operation leaves the memo only with its authorization, by its own
\* failure, or as the oldest of a full memo (live-runtime.ts:220-239).
THEOREM RunningOperationsStayMemoized == Spec => RunningStaysMemoized
<1>1. Init => MemoInv
  BY LiveInvInit DEF Init, MemoInv
<1>2. MemoInv /\ [Next]_vars => MemoInv' /\ [StaysMemoized]_vars
  BY NextKeepsMemo, LiveInvNext DEF MemoInv, MemoKept
<1> QED BY <1>1, <1>2, PTL DEF Spec, RunningStaysMemoized, StaysMemoized
=============================================================================
