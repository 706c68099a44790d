---------------------------- MODULE PolicyCustody ----------------------------
(***************************************************************************)
(* Policy custody, apps/fcc-extension/internal/ingress: FCC processes       *)
(* receive an owner's encrypted policy, sign a receipt for it and keep the  *)
(* ciphertext in a directory named after their TEE identity, from which     *)
(* they later evaluate requests.  Handlers of one process run concurrently; *)
(* Load takes no lock, Put takes the process's mutex; two processes that    *)
(* hold the same identity share a directory and no mutex; a process dies    *)
(* at any point and comes back with the same identity or with a new one.    *)
(*                                                                         *)
(* A policy stands for its commitment, which fixes its plaintext, its       *)
(* submission nonce and the binding with the three frozen machines.  The    *)
(* signature is deterministic (RFC 6979), so a submission determines its    *)
(* receipt and its stored record.  Directory entries survive the death of a *)
(* process; a power failure that keeps the TEE identity is left out.        *)
(***************************************************************************)
EXTENDS Naturals, FiniteSets

CONSTANTS
    Process,        \* FCC processes
    Thread,         \* concurrent ingress handlers
    Identity,       \* TEE identities: machine id and key fingerprint
    Policy,         \* policy commitments
    MachinesOf,     \* MachinesOf[p]: the three identities frozen in p's binding
    Ciphertext,     \* records [opens, salt]: what it decrypts to, if anything
    Window,         \* records [issuedAt, expiry]
    FutureSkew,     \* maxIngressFutureSkew
    Lifetime,       \* maxIngressLifetimeSeconds
    MaxTime,        \* bound on the clock
    MaxRestarts     \* bound on process deaths

ASSUME CustodyAssumption ==
    /\ MachinesOf \in [Policy -> SUBSET Identity]
    /\ \A p \in Policy : Cardinality(MachinesOf[p]) = 3
    /\ Window \subseteq [issuedAt: Nat, expiry: Nat]
    /\ {FutureSkew, Lifetime, MaxTime, MaxRestarts} \subseteq Nat

\* A submission as the owner authorized it: the authorization digest covers
\* the binding, the window, the ciphertext and the machine it is for.
Submission ==
    [policy: Policy, window: Window, ciphertext: Ciphertext,
     machine: Identity, authorizedByOwner: BOOLEAN]

Empty == [ciphertext |-> "none"]

VARIABLES
    identity,   \* identity[process]: the TEE identity discovered at start-up
    mutex,      \* mutex[process]: the thread in FilePolicyStore.Put, or "free"
    thread,     \* thread[t]: where a handler is
    store,      \* store[identity][policy]: the record linked in the directory
    receipts,   \* receipts returned to the owner
    registered, \* policies the registry has activated on three receipts
    evaluated,  \* evaluations signed: <<identity, policy>>
    restarts,   \* process deaths so far
    now

custodyVars == <<identity, mutex, thread, store, receipts, registered, evaluated, restarts, now>>

Idle == [at |-> "idle"]

Busy == [at: {"signed", "writing", "linked"}, process: Process, submission: Submission]

CustodyTypeOK ==
    /\ identity \in [Process -> Identity]
    /\ mutex \in [Process -> Thread \cup {"free"}]
    /\ thread \in [Thread -> Busy \cup {Idle}]
    /\ store \in [Identity -> [Policy -> Submission \cup {Empty}]]
    /\ receipts \subseteq Submission
    /\ registered \subseteq Policy
    /\ evaluated \subseteq Identity \X Policy
    /\ restarts \in 0..MaxRestarts
    /\ now \in 0..MaxTime

CustodyInit ==
    /\ identity \in [Process -> Identity]
    /\ mutex = [p \in Process |-> "free"]
    /\ thread = [t \in Thread |-> Idle]
    /\ store = [i \in Identity |-> [p \in Policy |-> Empty]]
    /\ receipts = {}
    /\ registered = {}
    /\ evaluated = {}
    /\ restarts = 0
    /\ now = 0

-----------------------------------------------------------------------------
(* handleMachineIngress, SubmitAuthorized, Machine.submit                   *)

\* handleMachineIngress: the window is current, and short.
WindowAccepted(w) ==
    /\ w.issuedAt # 0
    /\ w.issuedAt <= now + FutureSkew
    /\ w.expiry > now /\ w.expiry > w.issuedAt
    /\ w.expiry - w.issuedAt <= Lifetime

\* The owner authorized this machine, and the binding froze it.
Addressed(i, s) == s.authorizedByOwner /\ s.machine = i /\ i \in MachinesOf[s.policy]

\* The stored record answers a submission only if it is the very same one.
Matches(record, s) == record = s

Decrypts(s) == s.ciphertext.opens = s.policy

HandlerReturns(t) == thread' = [thread EXCEPT ![t] = Idle]

Return(s) == receipts' = receipts \cup {s}

\* The handler up to the end of the unlocked Load: a stored record is
\* returned, or refuses a different submission (no state changes then); an
\* empty slot is decrypted, checked and signed for.
Receive(t, p, s) ==
    LET i == identity[p] IN
    /\ thread[t] = Idle
    /\ WindowAccepted(s.window) /\ Addressed(i, s)
    /\ IF store[i][s.policy] # Empty
         THEN /\ Matches(store[i][s.policy], s)
              /\ Return(s)
              /\ UNCHANGED thread
         ELSE /\ Decrypts(s)
              /\ thread' = [thread EXCEPT ![t] =
                              [at |-> "signed", process |-> p, submission |-> s]]
              /\ UNCHANGED receipts
    /\ UNCHANGED <<identity, mutex, store, registered, evaluated, restarts, now>>

-----------------------------------------------------------------------------
(* FilePolicyStore.Put                                                      *)

ProcessOf(t) == thread[t].process
SubmissionOf(t) == thread[t].submission
SlotOf(t) == store[identity[ProcessOf(t)]][SubmissionOf(t).policy]

AdvanceTo(t, place) == thread' = [thread EXCEPT ![t].at = place]

\* (A mutant: the mutex stays locked.)
Unlock_Forgotten(t) == UNCHANGED mutex

\* The deferred unlock, on every way out of Put.
Unlock(t) == mutex' = [mutex EXCEPT ![ProcessOf(t)] = "free"]

\* What Put makes of a record it finds in the slot.
Found(t) ==
    /\ IF SlotOf(t) = SubmissionOf(t) THEN Return(SubmissionOf(t)) ELSE UNCHANGED receipts
    /\ HandlerReturns(t) /\ Unlock(t)

\* Take the mutex and look again; an empty slot gets a temporary file.
Lock(t) ==
    /\ thread[t].at = "signed"
    /\ mutex[ProcessOf(t)] = "free"
    /\ IF SlotOf(t) # Empty
         THEN Found(t)
         ELSE /\ mutex' = [mutex EXCEPT ![ProcessOf(t)] = t]
              /\ AdvanceTo(t, "writing")
              /\ UNCHANGED receipts
    /\ UNCHANGED <<identity, store, registered, evaluated, restarts, now>>

\* (A mutant: rename instead of link, so that a record is overwritten.)
LinkNew_Overwrites(t) == TRUE

LinkNew(t) == SlotOf(t) = Empty

\* os.Link commits the record without overwriting: if another process was
\* first, its record decides.
Link(t) ==
    /\ thread[t].at = "writing"
    /\ IF LinkNew(t)
         THEN /\ store' = [store EXCEPT
                    ![identity[ProcessOf(t)]][SubmissionOf(t).policy] = SubmissionOf(t)]
              /\ AdvanceTo(t, "linked")
              /\ UNCHANGED <<receipts, mutex>>
         ELSE Found(t) /\ UNCHANGED store
    /\ UNCHANGED <<identity, registered, evaluated, restarts, now>>

\* The directory is synced, the mutex released and the receipt returned.
Sync(t) ==
    /\ thread[t].at = "linked"
    /\ Return(SubmissionOf(t))
    /\ HandlerReturns(t) /\ Unlock(t)
    /\ UNCHANGED <<identity, store, registered, evaluated, restarts, now>>

\* Any file operation of Put fails: the handler answers an error, and after
\* the link the record stays although its receipt was not returned.
HandlerFails(t) ==
    /\ thread[t].at \in {"writing", "linked"}
    /\ HandlerReturns(t) /\ Unlock(t)
    /\ UNCHANGED <<identity, store, receipts, registered, evaluated, restarts, now>>

-----------------------------------------------------------------------------
(* The machine's other duty, its death, and the world around it.            *)

\* Machine.Evaluate: only from a record of this very identity.
EvaluatePolicy(p, policy) ==
    LET i == identity[p] IN
    /\ store[i][policy] # Empty
    /\ store[i][policy].machine = i
    /\ Decrypts(store[i][policy])
    /\ evaluated' = evaluated \cup {<<i, policy>>}
    /\ UNCHANGED <<identity, mutex, thread, store, receipts, registered, restarts, now>>

\* The process dies and is started again: its handlers and its mutex are gone,
\* and it opens the directory of the identity it then discovers.
Restart(p, new) ==
    /\ restarts < MaxRestarts
    /\ restarts' = restarts + 1
    /\ identity' = [identity EXCEPT ![p] = new]
    /\ mutex' = [mutex EXCEPT ![p] = "free"]
    /\ thread' = [t \in Thread |->
         IF thread[t] # Idle /\ ProcessOf(t) = p THEN Idle ELSE thread[t]]
    /\ UNCHANGED <<store, receipts, registered, evaluated, now>>

Current(s) == s.window.issuedAt <= now /\ now <= s.window.expiry

\* registerPolicy: all three frozen machines gave a receipt that is current.
Register(policy) ==
    /\ policy \notin registered
    /\ \A i \in MachinesOf[policy] :
         \E s \in receipts : s.policy = policy /\ s.machine = i /\ Current(s)
    /\ registered' = registered \cup {policy}
    /\ UNCHANGED <<identity, mutex, thread, store, receipts, evaluated, restarts, now>>

Tick ==
    /\ now < MaxTime
    /\ now' = now + 1
    /\ UNCHANGED <<identity, mutex, thread, store, receipts, registered, evaluated, restarts>>

Handle(t) == Lock(t) \/ Link(t) \/ Sync(t) \/ HandlerFails(t)

CustodyNext ==
    \/ \E t \in Thread, p \in Process, s \in Submission : Receive(t, p, s)
    \/ \E t \in Thread : Handle(t)
    \/ \E p \in Process, policy \in Policy : EvaluatePolicy(p, policy)
    \/ \E p \in Process, i \in Identity : Restart(p, i)
    \/ \E policy \in Policy : Register(policy)
    \/ Tick

CustodySpec == CustodyInit /\ [][CustodyNext]_custodyVars

\* A running handler is scheduled, and Go's mutex does not starve a waiter.
HandlersRun == \A t \in Thread : WF_custodyVars(Link(t)) /\ WF_custodyVars(Sync(t)) /\ SF_custodyVars(Lock(t))

FairCustodySpec == CustodySpec /\ HandlersRun

-----------------------------------------------------------------------------
(* Properties.                                                              *)

\* A receipt is a promise of custody: its exact record is in the directory of
\* the identity that signed it and stays there, so any process with that
\* identity can evaluate, and no machine ever gives two different receipts for
\* one policy, however many handlers, processes, retries and restarts; a policy the registry activated is held by all three of its machines.
ReceiptIsCustody ==
    /\ \A s \in receipts : store[s.machine][s.policy] = s
    /\ \A p \in registered : \A i \in MachinesOf[p] :
         store[i][p] # Empty /\ Decrypts(store[i][p])

\* An identity evaluates only policies that froze it: a replacement machine, a
\* rotated identity or a neighbour in the same process never does.
OnlyCustodiansEvaluate == \A e \in evaluated : e[1] \in MachinesOf[e[2]]

\* A policy is served by those machines, and only those, that hold it and that
\* it froze.
CustodyHolds == ReceiptIsCustody /\ OnlyCustodiansEvaluate

\* Every handler ends, whatever fails or dies around it: no way out of Put, no
\* conflict with another process and no restart leaves the mutex to nobody.
HandlersEnd == \A t \in Thread : (thread[t] # Idle) ~> (thread[t] = Idle)
=============================================================================
