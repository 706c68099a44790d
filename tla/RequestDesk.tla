------------------------------ MODULE RequestDesk ------------------------------
(***************************************************************************)
(* The lookup of a request on the page and the router transactions its         *)
(* controls send: a request is loaded from finalized state, an action is       *)
(* prepared on what was loaded, previewed, confirmed, executed and verified.   *)
(* The identifier can be edited and loaded again at any time in between.       *)
(***************************************************************************)
EXTENDS WebWallet

CONSTANTS
    Request,
    RequestOwner,   \* who made the requests there are, and owns their policy
    DeskOperation   \* slots for the transactions that run at the same time

ASSUME RequestOwnerAssumption == RequestOwner \in Account

VARIABLES
    router,                 \* status of every request, finalized
    parties,                \* its requester and the owner of its policy
    clock,                  \* time, seen from the expiry of the requests
    sent,                   \* the page's router transactions
    requestInput,
    requestState,           \* the request that is shown, with all that was read with it
    requestReadSequence,
    requestIntent,
    requestTransactionState,
    lookups,                \* the lookups on their way
    deskOperations

routerVars == <<router, parties, clock>>
lookupVars == <<requestInput, requestState, requestReadSequence, lookups>>
controlVars == <<requestIntent, requestTransactionState>>
deskVars == <<routerVars, sent, lookupVars, controlVars, deskOperations>>

Kind == {"EXECUTE", "EXPIRE", "CANCEL"}
Open == {"PENDING", "ALLOWED"}
Terminal == [EXECUTE |-> "EXECUTED", EXPIRE |-> "EXPIRED", CANCEL |-> "CANCELLED"]
Nothing == "nothing"
Unread == [id |-> Nothing]
NoTransaction == [at |-> "none"]
DeskState(status, tx) == [status |-> status, tx |-> tx]

\* A request, and its approval, last while the clock is 0.
expiry == 0
approvedExpiry == expiry

\* Page load looks up the reviewed request.
DeskInit ==
    /\ router \in [Request -> {"NONE", "PENDING", "ALLOWED"}]
    /\ parties = [r \in Request |-> IF router[r] = "NONE" THEN {} ELSE {RequestOwner}]
    /\ clock = 0
    /\ sent = <<>>
    /\ requestInput \in Request
    /\ requestState = Unread
    /\ requestReadSequence = 1
    /\ requestIntent = Nothing
    /\ requestTransactionState = DeskState("IDLE", 0)
    /\ lookups = {[sequence |-> 1, id |-> requestInput, snapshot |-> Unread]}
    /\ deskOperations = [o \in DeskOperation |-> NoTransaction]

-----------------------------------------------------------------------------
(* The router                                                               *)

RouterPermits(kind, r, account) ==
    CASE kind = "EXECUTE" -> router[r] = "ALLOWED" /\ clock <= approvedExpiry
      [] kind = "EXPIRE" -> router[r] \in Open /\ clock > expiry
      [] kind = "CANCEL" -> router[r] \in Open /\ account \in parties[r]

\* Results of the machines, and transactions of others.
RouterElsewhere ==
    /\ \E r \in Request, status \in {"ALLOWED", "DENIED", "EXECUTED", "EXPIRED", "CANCELLED"} :
          /\ \/ router[r] = "PENDING" /\ status \in {"ALLOWED", "DENIED"} /\ clock <= expiry
             \/ \E kind \in Kind, a \in Account :
                   RouterPermits(kind, r, a) /\ status = Terminal[kind]
          /\ router' = [router EXCEPT ![r] = status]
    /\ UNCHANGED <<parties, clock, sent, lookupVars, controlVars, deskOperations>>

TimePasses ==
    /\ clock <= expiry
    /\ clock' = clock + 1
    /\ UNCHANGED <<router, parties, sent, lookupVars, controlVars, deskOperations>>

MineSent ==
    /\ \E i \in DOMAIN sent :
          LET tx == sent[i] IN
          /\ tx.state = "pending"
          /\ IF RouterPermits(tx.kind, tx.id, tx.account)
             THEN /\ sent' = [sent EXCEPT ![i].state = "final"]
                  /\ router' = [router EXCEPT ![tx.id] = Terminal[tx.kind]]
             ELSE /\ sent' = [sent EXCEPT ![i].state = "reverted"]
                  /\ UNCHANGED router
    /\ UNCHANGED <<parties, clock, lookupVars, controlVars, deskOperations>>

\* What a finalized read of a request finds, with the time of its block.
loadCoston2PublicRequest(id) == [id |-> id, status |-> router[id], at |-> clock, parties |-> parties[id]]

-----------------------------------------------------------------------------
(* Looking a request up                                                     *)

NewLookup ==
    /\ requestReadSequence' = requestReadSequence + 1
    /\ requestState' = Unread
    /\ requestIntent' = Nothing
    /\ requestTransactionState' = DeskState("IDLE", 0)

refreshPublicRequest(id) ==
    /\ NewLookup
    /\ lookups' = lookups \cup {[sequence |-> requestReadSequence + 1, id |-> id, snapshot |-> Unread]}

\* requestLoading keeps the button from starting a second one.
LoadRequest ==
    /\ ~\E l \in lookups : l.sequence = requestReadSequence
    /\ refreshPublicRequest(requestInput)
    /\ UNCHANGED <<routerVars, sent, requestInput, deskOperations>>

\* Another example is chosen.
resetRequestLookup ==
    /\ requestInput' \in Request
    /\ NewLookup
    /\ UNCHANGED <<routerVars, sent, lookups, deskOperations>>

\* The identifier is typed: what is shown stays.
RequestTyped ==
    /\ requestInput' \in Request \ {requestInput}
    /\ requestIntent' = Nothing
    /\ requestTransactionState' = DeskState("IDLE", 0)
    /\ UNCHANGED <<routerVars, sent, requestState, requestReadSequence, lookups, deskOperations>>

LookupFinalized ==
    /\ \E l \in lookups :
          /\ l.snapshot = Unread
          /\ router[l.id] # "NONE"
          /\ lookups' = (lookups \ {l}) \cup {[l EXCEPT !.snapshot = loadCoston2PublicRequest(l.id)]}
    /\ UNCHANGED <<routerVars, sent, requestInput, requestState, requestReadSequence, controlVars, deskOperations>>

LookupArrives ==
    /\ \E l \in lookups :
          /\ l.snapshot # Unread
          /\ lookups' = lookups \ {l}
          /\ requestState' = IF l.sequence = requestReadSequence /\ l.id = requestInput
                             THEN l.snapshot ELSE requestState
    /\ UNCHANGED <<routerVars, sent, requestInput, requestReadSequence, controlVars, deskOperations>>

\* Not found, not valid or not read.
LookupFails ==
    /\ \E l \in lookups :
          /\ lookups' = lookups \ {l}
          /\ requestState' = IF l.sequence = requestReadSequence THEN Unread ELSE requestState
    /\ UNCHANGED <<routerVars, sent, requestInput, requestReadSequence, controlVars, deskOperations>>

-----------------------------------------------------------------------------
(* A router transaction                                                     *)

validateRequestTransaction(kind, account, snapshot) ==
    CASE kind = "EXECUTE" -> snapshot.status = "ALLOWED" /\ snapshot.at <= approvedExpiry
      [] kind = "EXPIRE" -> snapshot.status \in Open /\ snapshot.at > expiry
      [] kind = "CANCEL" -> snapshot.status \in Open /\ account \in snapshot.parties

\* The controls are there for an open request and while nothing is submitted;
\* the action is validated on the request that is shown.
prepareRequestTransaction(kind) ==
    /\ requestState # Unread
    /\ requestState.status \in Open
    /\ requestTransactionState.status # "SUBMITTING"
    /\ connectedAccount # NoAccount
    /\ validateRequestTransaction(kind, connectedAccount, requestState)
    /\ requestIntent' = kind
    /\ requestTransactionState' = DeskState("IDLE", 0)
    /\ UNCHANGED <<routerVars, sent, lookupVars, deskOperations>>

CancelIntent ==
    /\ requestIntent # Nothing
    /\ requestIntent' = Nothing
    /\ requestTransactionState' = DeskState("IDLE", 0)
    /\ UNCHANGED <<routerVars, sent, lookupVars, deskOperations>>

\* Confirmed: what is executed is the identifier in the field; shown is kept
\* with the operation only to state what the user confirmed.
submitRequestTransaction(o) ==
    /\ deskOperations[o] = NoTransaction
    /\ requestIntent # Nothing
    /\ requestState # Unread
    /\ requestTransactionState.status # "SUBMITTING"
    /\ IF Connected
       THEN /\ requestTransactionState' = DeskState("SUBMITTING", 0)
            /\ deskOperations' = [deskOperations EXCEPT
                  ![o] = [at |-> "before", kind |-> requestIntent, id |-> requestInput,
                          account |-> walletState.account, tx |-> 0, shown |-> requestState.id]]
            /\ UNCHANGED requestIntent
       ELSE /\ requestTransactionState' = DeskState("ERROR", 0)
            /\ requestIntent' = Nothing
            /\ UNCHANGED deskOperations
    /\ UNCHANGED <<routerVars, sent, lookupVars>>

\* executeRequestTransaction reads the request and validates the action again.
ReadRequestBefore(o) ==
    LET op == deskOperations[o] IN
    /\ op.at = "before"
    /\ validateRequestTransaction(op.kind, op.account, loadCoston2PublicRequest(op.id))
    /\ deskOperations' = [deskOperations EXCEPT ![o].at = "prompt"]
    /\ UNCHANGED <<routerVars, sent, lookupVars, controlVars>>

executeRequestTransaction(o) ==
    LET op == deskOperations[o] IN
    /\ op.at = "prompt"
    /\ provider.chain = "coston2"
    /\ RouterPermits(op.kind, op.id, op.account)
    /\ sent' = Append(sent, [kind |-> op.kind, id |-> op.id, account |-> op.account,
                             state |-> "pending"])
    /\ deskOperations' = [deskOperations EXCEPT ![o].at = "receipt", ![o].tx = Len(sent) + 1]
    /\ UNCHANGED <<routerVars, lookupVars, controlVars>>

\* A receipt of success, with the event of this action on this request.
verifyRequestReceiptEvent(op) ==
    /\ sent[op.tx].state = "final"
    /\ sent[op.tx].kind = op.kind
    /\ sent[op.tx].id = op.id

verifyRequestPostcondition(op, after) == after.status = Terminal[op.kind]

RequestVerified(o) ==
    LET op == deskOperations[o] IN
    /\ op.at = "receipt"
    /\ verifyRequestReceiptEvent(op)
    /\ verifyRequestPostcondition(op, loadCoston2PublicRequest(op.id))
    /\ connectedAccount = op.account
    /\ requestState' = loadCoston2PublicRequest(op.id)
    /\ requestIntent' = Nothing
    /\ requestTransactionState' = DeskState("SUCCESS", op.tx)
    /\ deskOperations' = [deskOperations EXCEPT ![o] = NoTransaction]
    /\ UNCHANGED <<routerVars, sent, requestInput, requestReadSequence, lookups>>

RequestFails(o) ==
    /\ deskOperations[o] # NoTransaction
    /\ deskOperations' = [deskOperations EXCEPT ![o] = NoTransaction]
    /\ requestIntent' = Nothing
    /\ requestTransactionState' = DeskState("ERROR", 0)
    /\ UNCHANGED <<routerVars, sent, lookupVars>>

\* The part of walletChanged that concerns these controls.
DeskReset ==
    /\ requestIntent' = Nothing
    /\ requestTransactionState' = DeskState("IDLE", 0)
    /\ UNCHANGED <<routerVars, sent, lookupVars, deskOperations>>

DeskStep ==
    \/ LoadRequest
    \/ resetRequestLookup
    \/ RequestTyped
    \/ LookupFinalized
    \/ LookupArrives
    \/ LookupFails
    \/ \E kind \in Kind : prepareRequestTransaction(kind)
    \/ CancelIntent
    \/ \E o \in DeskOperation :
          \/ submitRequestTransaction(o)
          \/ ReadRequestBefore(o)
          \/ executeRequestTransaction(o)
          \/ RequestVerified(o)
          \/ RequestFails(o)
    \/ RouterElsewhere
    \/ TimePasses
    \/ MineSent

-----------------------------------------------------------------------------
(* Properties                                                               *)

\* A success on the page names a transaction that is final and put the
\* request where it is, although others execute, expire or cancel the same
\* request while the page waits.
RequestSuccessIsFinal ==
    requestTransactionState.status = "SUCCESS" =>
        LET tx == sent[requestTransactionState.tx] IN
        tx.state = "final" /\ router[tx.id] = Terminal[tx.kind]

\* The call the user confirms is the one of the request in the preview.
PreviewIsExecuted ==
    \A o \in DeskOperation : deskOperations[o].at # "none" => deskOperations[o].id = deskOperations[o].shown
===============================================================================
