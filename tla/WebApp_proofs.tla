------------------------------ MODULE WebApp_proofs ------------------------------
(***************************************************************************)
(* Proofs about the page: for any accounts, requests, rules and amounts, any *)
(* number of operations at the same time and any order of answers, wallet     *)
(* events and transactions of others, the balances shown are those of the      *)
(* account shown, a success is one final transaction that did what it says,    *)
(* and what is shown with a policy or a request belongs to it.                  *)
(***************************************************************************)
EXTENDS MCWebApp, SequenceTheorems, TLAPS

AnyAccount == Account \cup {NoAccount}

-----------------------------------------------------------------------------
(* The wallet session.                                                      *)

\* What was read for an account is of that account, however late it arrives.
ReadsAreOfAccounts ==
    \A r \in reads :
        /\ r = [sequence |-> r.sequence, account |-> r.account, snapshot |-> r.snapshot]
        /\ r.account \in Account
        /\ r.snapshot = NoSnapshot \/ r.snapshot.account = r.account

WalletTalk == [kind : {"none", "restore", "connect"}, at : {"none", "accounts", "chain", "answer"},
               account : AnyAccount, chain : Network]

\* An account is granted before a session is begun with it.
ConversationsAreSound ==
    /\ conversations \in [Conversation -> WalletTalk]
    /\ \A c \in Conversation :
          conversations[c].kind = "connect" /\ conversations[c].at = "chain" =>
             conversations[c].account \in Account

SessionInv ==
    /\ provider \in [account : AnyAccount, chain : Network]
    /\ walletState.account \in AnyAccount
    /\ Connected => walletState.account \in Account
    /\ ConversationsAreSound
    /\ ReadsAreOfAccounts
    /\ SnapshotIsOfAccount

LEMMA TalkBegins ==
    /\ Quiet \in WalletTalk /\ Quiet.kind = "none"
    /\ [Quiet EXCEPT !.kind = "connect", !.at = "accounts"] \in WalletTalk
    /\ [Quiet EXCEPT !.kind = "connect", !.at = "accounts"].at = "accounts"
    /\ restoreWalletSession \in WalletTalk /\ restoreWalletSession.kind = "restore"
<1>1. ASSUME NEW talk \in WalletTalk, NEW kind \in {"restore", "connect"}
      PROVE  /\ [talk EXCEPT !.kind = kind, !.at = "accounts"] \in WalletTalk
             /\ [talk EXCEPT !.kind = kind, !.at = "accounts"].at = "accounts"
             /\ [talk EXCEPT !.kind = kind, !.at = "accounts"].kind = kind
  BY DEF WalletTalk
<1>2. Quiet \in WalletTalk /\ Quiet.kind = "none"
  BY DEF Quiet, WalletTalk, AnyAccount, Network
<1>3. restoreWalletSession = [Quiet EXCEPT !.kind = "restore", !.at = "accounts"]
  BY DEF restoreWalletSession
<1> QED BY <1>1, <1>2, <1>3

LEMMA SessionStarts == Init => SessionInv
<1> SUFFICES ASSUME Init PROVE SessionInv
  OBVIOUS
<1>1. CASE WalletInit
  BY <1>1, TalkBegins DEF WalletInit, SessionInv, ConversationsAreSound, ReadsAreOfAccounts,
       SnapshotIsOfAccount, liveSnapshot, ReadState, Session, Connected, AnyAccount
<1>2. CASE SessionReady(loadCoston2AccountSnapshot(RequestOwner))
  BY <1>2, TalkBegins, RequestOwnerAssumption DEF SessionReady, SessionInv, ConversationsAreSound,
       ReadsAreOfAccounts, SnapshotIsOfAccount, liveSnapshot, Session, Connected, AnyAccount,
       Network, loadCoston2AccountSnapshot, connectedAccount
<1> QED BY <1>1, <1>2 DEF Init

LEMMA ReadStarted ==
    ASSUME SessionInv, NEW account \in Account, StartRead(account)
    PROVE  ReadsAreOfAccounts' /\ ~liveSnapshot'
BY DEF SessionInv, StartRead, ReadsAreOfAccounts, ReadState, liveSnapshot

LEMMA ConnectKeepsSession ==
    ASSUME SessionInv, connectWallet
    PROVE  SessionInv'
<1> USE DEF SessionInv, connectWallet
<1>1. NoAccount \in AnyAccount
  BY DEF AnyAccount
<1>2. ConversationsAreSound'
  BY TalkBegins DEF ConversationsAreSound
<1>3. ReadsAreOfAccounts' /\ SnapshotIsOfAccount' /\ ~Connected'
  BY DEF ReadsAreOfAccounts, SnapshotIsOfAccount, liveSnapshot, ReadState, Session, Connected
<1> QED BY <1>1, <1>2, <1>3 DEF Session

LEMMA RefreshKeepsSession ==
    ASSUME SessionInv, refreshCoston2State
    PROVE  SessionInv'
<1>1. CASE Connected
  <2>1. walletState.account \in Account /\ StartRead(walletState.account)
        /\ UNCHANGED <<provider, walletState, conversations>>
    BY <1>1 DEF refreshCoston2State, SessionInv
  <2> QED BY <2>1, ReadStarted DEF SessionInv, ConversationsAreSound, SnapshotIsOfAccount,
               Connected
<1>2. CASE ~Connected
  BY <1>2, ConnectKeepsSession DEF refreshCoston2State
<1> QED BY <1>1, <1>2

LEMMA AnswersKeepSession ==
    ASSUME SessionInv, NEW r \in reads,
           SnapshotArrives(r) \/ ReadFails(r) \/ Finalized(r, loadCoston2AccountSnapshot(r.account))
    PROVE  SessionInv'
<1>0. UNCHANGED <<provider, walletState, conversations>>
  BY DEF SnapshotArrives, ReadFails, Finalized
<1>1. CASE SnapshotArrives(r)
  BY <1>0, <1>1 DEF SessionInv, SnapshotArrives, ReadsAreOfAccounts, ConversationsAreSound,
       SnapshotIsOfAccount, liveSnapshot, IsForSession, Connected, connectedAccount
<1>2. CASE ReadFails(r)
  BY <1>0, <1>2 DEF SessionInv, ReadFails, ReadsAreOfAccounts, ConversationsAreSound,
       SnapshotIsOfAccount, liveSnapshot, ReadState, Connected, connectedAccount
<1>3. CASE Finalized(r, loadCoston2AccountSnapshot(r.account))
  <2>1. loadCoston2AccountSnapshot(r.account).account = r.account
    BY DEF loadCoston2AccountSnapshot
  <2> DEFINE snapshot == loadCoston2AccountSnapshot(r.account)
  <2>2. [r EXCEPT !.snapshot = snapshot]
          = [sequence |-> r.sequence, account |-> r.account, snapshot |-> snapshot]
    BY DEF SessionInv, ReadsAreOfAccounts
  <2>3. reads' = (reads \ {r}) \cup {[r EXCEPT !.snapshot = snapshot]}
        /\ coston2State' = coston2State
    BY <1>3 DEF Finalized
  <2>4. ReadsAreOfAccounts'
    BY <2>1, <2>2, <2>3 DEF SessionInv, ReadsAreOfAccounts
  <2> QED BY <1>0, <2>3, <2>4 DEF SessionInv, ConversationsAreSound, SnapshotIsOfAccount,
               liveSnapshot, Connected, connectedAccount
<1> QED BY <1>1, <1>2, <1>3

LEMMA TalkKeepsSession ==
    ASSUME SessionInv, NEW c \in Conversation,
           \/ AccountGranted(c)
           \/ connectCoston2Wallet(c)
           \/ readWalletSession(c)
           \/ SessionRestored(c)
           \/ ConversationFails(c)
    PROVE  SessionInv'
<1>e. ASSUME Ends(c) PROVE ConversationsAreSound'
  BY <1>e, TalkBegins DEF Ends, SessionInv, ConversationsAreSound
<1>b. ASSUME NEW account \in Account, Begin(c, account), provider' \in [account : AnyAccount, chain : Network]
      PROVE SessionInv'
  <2>1. ConversationsAreSound' /\ ReadsAreOfAccounts' /\ ~liveSnapshot'
    BY <1>b, <1>e, ReadStarted DEF Begin
  <2> QED BY <1>b, <2>1 DEF SessionInv, Begin, Session, SnapshotIsOfAccount, AnyAccount, Connected
<1>1. CASE AccountGranted(c)
  <2>1. PICK a \in Account :
          /\ conversations' = [conversations EXCEPT ![c].at = "chain", ![c].account = a]
          /\ provider' = [provider EXCEPT !.account = a]
    BY <1>1 DEF AccountGranted, SessionInv, AnyAccount
  <2>2. UNCHANGED <<walletState, coston2State, reads>>
    BY <1>1 DEF AccountGranted
  <2> DEFINE granted == [conversations[c] EXCEPT !.at = "chain", !.account = a]
  <2>5. granted \in WalletTalk /\ granted.account = a
    BY DEF SessionInv, ConversationsAreSound, WalletTalk, AnyAccount
  <2>6. conversations' = [conversations EXCEPT ![c] = granted]
    BY <2>1 DEF SessionInv, ConversationsAreSound
  <2> HIDE DEF granted
  <2>3. ConversationsAreSound'
    BY <2>5, <2>6 DEF SessionInv, ConversationsAreSound
  <2>4. provider' \in [account : AnyAccount, chain : Network]
    BY <2>1 DEF SessionInv, AnyAccount
  <2> QED BY <2>2, <2>3, <2>4 DEF SessionInv, ReadsAreOfAccounts, SnapshotIsOfAccount, AnyAccount,
               liveSnapshot, Connected, connectedAccount
<1>2. CASE connectCoston2Wallet(c)
  <2>1. conversations[c].account \in Account /\ Begin(c, conversations[c].account)
        /\ provider' \in [account : AnyAccount, chain : Network]
    BY <1>2 DEF connectCoston2Wallet, SessionInv, ConversationsAreSound, Network
  <2> QED BY <2>1, <1>b
<1>3. CASE readWalletSession(c)
  <2>1. ConversationsAreSound'
    BY <1>3 DEF readWalletSession, SessionInv, ConversationsAreSound, WalletTalk
  <2> QED BY <1>3, <2>1 DEF readWalletSession, SessionInv, ReadsAreOfAccounts, SnapshotIsOfAccount,
               liveSnapshot, Connected, connectedAccount
<1>4. CASE SessionRestored(c)
  <2>0. provider' = provider /\ conversations[c].account \in AnyAccount
    BY <1>4 DEF SessionRestored, SessionInv, ConversationsAreSound, WalletTalk
  <2>1. CASE Ends(c) /\ UNCHANGED <<walletState, coston2State, reads>>
    BY <1>e, <2>0, <2>1 DEF SessionInv, ReadsAreOfAccounts, SnapshotIsOfAccount, liveSnapshot,
         Connected, connectedAccount
  <2>2. CASE /\ Ends(c) /\ UNCHANGED reads
             /\ walletState' = Session("WRONG_CHAIN", conversations[c].account)
             /\ coston2State' = ReadState("IDLE")
    BY <1>e, <2>0, <2>2 DEF SessionInv, ReadsAreOfAccounts, SnapshotIsOfAccount, liveSnapshot,
         Connected, Session, ReadState
  <2>3. CASE conversations[c].account # NoAccount /\ Begin(c, conversations[c].account)
    BY <1>b, <2>0, <2>3 DEF SessionInv, AnyAccount
  <2> QED BY <1>4, <2>1, <2>2, <2>3 DEF SessionRestored
<1>5. CASE ConversationFails(c)
  BY <1>5, <1>e DEF ConversationFails, SessionInv, ReadsAreOfAccounts, SnapshotIsOfAccount,
       liveSnapshot, Connected, Session, ReadState, AnyAccount
<1> QED BY <1>1, <1>2, <1>3, <1>4, <1>5

LEMMA WalletEventsKeepSession ==
    ASSUME SessionInv, SessionChanged \/ ProviderMoves \/ UNCHANGED walletVars
    PROVE  SessionInv'
<1>1. CASE SessionChanged
  <2>1. ConversationsAreSound'
    BY <1>1, TalkBegins DEF SessionChanged, SessionInv, ConversationsAreSound
  <2> QED BY <1>1, <2>1 DEF SessionChanged, SessionInv, ReadsAreOfAccounts, SnapshotIsOfAccount,
               liveSnapshot, Connected, Session, ReadState, AnyAccount
<1>2. CASE ProviderMoves
  BY <1>2 DEF ProviderMoves, SessionInv, ConversationsAreSound, ReadsAreOfAccounts, AnyAccount,
       SnapshotIsOfAccount, liveSnapshot, Connected, connectedAccount
<1>3. CASE UNCHANGED walletVars
  BY <1>3 DEF walletVars, SessionInv, ConversationsAreSound, ReadsAreOfAccounts,
       SnapshotIsOfAccount, liveSnapshot, Connected, connectedAccount
<1> QED BY <1>1, <1>2, <1>3

\* An operation that succeeds shows what it read of the account it is of.
LEMMA VerificationKeepsSession ==
    ASSUME SessionInv, NEW o \in Operation, Verified(o)
    PROVE  SessionInv'
<1>1. /\ coston2State' = [status |-> "READY",
                          snapshot |-> loadCoston2AccountSnapshot(operations[o].account)]
      /\ connectedAccount = operations[o].account
      /\ UNCHANGED <<provider, walletState, conversations, reads>>
  BY DEF Verified
<1> QED BY <1>1 DEF SessionInv, ConversationsAreSound, ReadsAreOfAccounts, SnapshotIsOfAccount,
             liveSnapshot, Connected, connectedAccount, loadCoston2AccountSnapshot

\* How a step of the page moves the session.
SessionMoves ==
    \/ SessionChanged \/ ProviderMoves \/ UNCHANGED walletVars
    \/ Talk
    \/ connectWallet
    \/ refreshCoston2State
    \/ \E r \in reads :
          SnapshotArrives(r) \/ ReadFails(r) \/ Finalized(r, loadCoston2AccountSnapshot(r.account))
    \/ \E o \in Operation : Verified(o)

LEMMA NextMovesSession == Next => SessionMoves
<1> SUFFICES ASSUME Next PROVE SessionMoves
  OBVIOUS
<1>1. CASE walletChanged
  BY <1>1 DEF walletChanged, SessionMoves
<1>2. CASE SessionStep
  BY <1>2 DEF SessionStep, SessionMoves, Connects, Answers
<1>3. CASE VaultStep
  <2>1. CASE AmountEdited \/ ((Elsewhere \/ MineSigned) /\ UNCHANGED walletVars)
    BY <2>1 DEF AmountEdited, SessionMoves
  <2>2. ASSUME NEW o \in Operation,
               \/ \E amount \in Amount, action \in {"DEPOSIT", "WITHDRAW"} :
                     prepareVaultTransaction(o, action, amount)
               \/ ReadBefore(o)
               \/ executeVaultTransaction(o)
               \/ Verified(o)
               \/ OperationFails(o)
        PROVE  SessionMoves
    BY <2>2 DEF prepareVaultTransaction, ReadBefore, executeVaultTransaction, OperationFails,
         SessionMoves
  <2>3. CASE \E o \in Operation :
                \/ \E amount \in Amount, action \in {"DEPOSIT", "WITHDRAW"} :
                      prepareVaultTransaction(o, action, amount)
                \/ ReadBefore(o)
                \/ executeVaultTransaction(o)
                \/ Verified(o)
                \/ OperationFails(o)
    BY <2>2, <2>3
  <2> QED BY <1>3, <2>1, <2>3 DEF VaultStep
<1>4. CASE UNCHANGED walletVars
  BY <1>4 DEF SessionMoves
<1>5. CASE Lifecycle
  BY <1>5 DEF Lifecycle, LiveWalletStep, PolicyReadBack, evaluateLiveRequest, executeLiveRequest,
       SessionMoves
<1> QED BY <1>1, <1>2, <1>3, <1>4, <1>5 DEF Next

LEMMA SessionKept == SessionInv /\ [Next]_webVars => SessionInv'
<1>1. ASSUME SessionInv, Next PROVE SessionInv'
  BY <1>1, NextMovesSession, WalletEventsKeepSession, TalkKeepsSession, ConnectKeepsSession,
     RefreshKeepsSession, AnswersKeepSession, VerificationKeepsSession DEF SessionMoves, Talk
<1>2. ASSUME SessionInv, UNCHANGED webVars PROVE SessionInv'
  BY <1>2, WalletEventsKeepSession DEF webVars
<1> QED BY <1>1, <1>2

\* SnapshotIsOfAccount: the balances on the page are those of the account it
\* says is connected, for any accounts, any number of conversations with the
\* wallet and of reads on their way, and any order in which they end.
THEOREM BalancesAreOfAccount == Spec => []SnapshotIsOfAccount
<1>1. SessionInv => SnapshotIsOfAccount
  BY DEF SessionInv
<1> QED BY <1>1, SessionStarts, SessionKept, PTL DEF Spec

-----------------------------------------------------------------------------
(* The router and the registry, moved from the page and from elsewhere.      *)

RouterStatus == {"NONE", "PENDING", "ALLOWED", "DENIED", "EXECUTED", "EXPIRED", "CANCELLED"}
TransactionState == {"pending", "final", "reverted"}

LiveKind == {"REGISTER", "REQUEST", "TRANSFER"} \cup DOMAIN Target
LiveTransaction == [kind : LiveKind, policy : Policy \cup {NoPolicy}, id : Request \cup {Nothing},
                    account : AnyAccount, state : TransactionState]
RouterTransaction == [kind : Kind, id : Request, account : Account, state : TransactionState]

ChainInv ==
    /\ router \in [Request -> RouterStatus]
    /\ registry \in [Policy -> {Unregistered, Active, Stopped, Revoked}]
    /\ sent \in Seq(RouterTransaction)
    /\ liveSigned \in Seq(LiveTransaction)

Decided(r) == router[r] \notin {"NONE", "PENDING"}

\* A request that has ended stays as it is; one that is allowed is not denied.
RequestsEnd ==
    \A r \in Request :
        /\ router[r] \in {"DENIED", "EXECUTED", "EXPIRED", "CANCELLED"} => router'[r] = router[r]
        /\ router[r] = "ALLOWED" => router'[r] \in RouterStatus \ {"NONE", "PENDING", "DENIED"}

\* A policy, once registered, is never unknown again.
PoliciesStay == \A p \in Policy : registry[p] # Unregistered => registry'[p] # Unregistered

SentIsFinal ==
    /\ Len(sent) <= Len(sent')
    /\ \A i \in 1 .. Len(sent) :
          /\ sent'[i].id = sent[i].id /\ sent'[i].kind = sent[i].kind
          /\ sent[i].state = "final" => sent'[i].state = "final"

ChainMoves == ChainInv' /\ RequestsEnd /\ PoliciesStay /\ SentIsFinal

Terminals == \A kind \in Kind : Terminal[kind] \in {"EXECUTED", "EXPIRED", "CANCELLED"}

LEMMA TerminalKinds == Terminals
BY DEF Terminals, Terminal, Kind

\* Transactions of the page's controls.
LEMMA SentMined ==
    ASSUME ChainInv, MineSent, UNCHANGED <<registry, liveSigned>>
    PROVE  ChainMoves
<1>1. PICK i \in DOMAIN sent :
        /\ sent[i].state = "pending"
        /\ IF RouterPermits(sent[i].kind, sent[i].id, sent[i].account)
           THEN /\ sent' = [sent EXCEPT ![i].state = "final"]
                /\ router' = [router EXCEPT ![sent[i].id] = Terminal[sent[i].kind]]
           ELSE /\ sent' = [sent EXCEPT ![i].state = "reverted"]
                /\ UNCHANGED router
  BY DEF MineSent
<1>2. sent[i] \in RouterTransaction /\ i \in 1 .. Len(sent) /\ sent \in Seq(RouterTransaction)
  BY DEF ChainInv
<1>3. PICK state \in {"final", "reverted"} : sent' = [sent EXCEPT ![i].state = state]
  BY <1>1
<1>4. sent' \in Seq(RouterTransaction) /\ SentIsFinal
  BY <1>1, <1>2, <1>3 DEF RouterTransaction, TransactionState, SentIsFinal
<1>5. CASE RouterPermits(sent[i].kind, sent[i].id, sent[i].account)
  <2>1. router[sent[i].id] \in {"PENDING", "ALLOWED"}
    BY <1>2, <1>5 DEF RouterPermits, RouterTransaction, Kind, Open
  <2>2. Terminal[sent[i].kind] \in {"EXECUTED", "EXPIRED", "CANCELLED"}
    BY <1>2, TerminalKinds DEF Terminals, RouterTransaction
  <2>3. router' \in [Request -> RouterStatus] /\ RequestsEnd
    BY <1>1, <1>5, <2>1, <2>2 DEF ChainInv, RequestsEnd, RouterStatus
  <2> QED BY <1>4, <2>3 DEF ChainMoves, ChainInv, PoliciesStay
<1>6. CASE ~RouterPermits(sent[i].kind, sent[i].id, sent[i].account)
  BY <1>1, <1>4, <1>6 DEF ChainMoves, ChainInv, PoliciesStay, RequestsEnd, RouterStatus
<1> QED BY <1>5, <1>6

LEMMA RouterMovesElsewhere ==
    ASSUME ChainInv, RouterElsewhere, UNCHANGED <<registry, liveSigned>>
    PROVE  ChainMoves
<1>1. PICK r \in Request, status \in {"ALLOWED", "DENIED", "EXECUTED", "EXPIRED", "CANCELLED"} :
        /\ \/ router[r] = "PENDING" /\ status \in {"ALLOWED", "DENIED"} /\ clock <= expiry
           \/ \E kind \in Kind, a \in Account :
                 RouterPermits(kind, r, a) /\ status = Terminal[kind]
        /\ router' = [router EXCEPT ![r] = status]
  BY DEF RouterElsewhere
<1>2. router[r] = "PENDING" \/ (router[r] = "ALLOWED" /\ status # "DENIED" /\ status # "NONE")
  <2>1. ASSUME NEW kind \in Kind, NEW a \in Account, RouterPermits(kind, r, a), status = Terminal[kind]
        PROVE  router[r] \in {"PENDING", "ALLOWED"} /\ status \notin {"DENIED", "NONE"}
    BY <2>1, TerminalKinds DEF RouterPermits, Kind, Open, Terminals
  <2> QED BY <1>1, <2>1
<1>3. UNCHANGED sent
  BY DEF RouterElsewhere
<1> QED BY <1>1, <1>2, <1>3 DEF ChainInv, ChainMoves, RequestsEnd, PoliciesStay, SentIsFinal, RouterStatus

LEMMA LiveMined ==
    ASSUME ChainInv, MineLive
    PROVE  ChainMoves
<1>1. PICK i \in DOMAIN liveSigned :
        IF LivePermits(liveSigned[i])
        THEN LiveHappens(liveSigned[i]) /\ liveSigned' = [liveSigned EXCEPT ![i].state = "final"]
        ELSE /\ liveSigned' = [liveSigned EXCEPT ![i].state = "reverted"]
             /\ UNCHANGED <<registry, router, parties>>
  BY DEF MineLive
<1> DEFINE tx == liveSigned[i]
<1>2. tx \in LiveTransaction /\ liveSigned \in Seq(LiveTransaction)
  BY DEF ChainInv
<1>3. PICK state \in {"final", "reverted"} : liveSigned' = [liveSigned EXCEPT ![i].state = state]
  BY <1>1
<1>4. liveSigned' \in Seq(LiveTransaction)
  BY <1>2, <1>3 DEF LiveTransaction, TransactionState
<1>5. UNCHANGED sent /\ SentIsFinal
  BY DEF MineLive, SentIsFinal, ChainInv
<1>6. CASE LivePermits(tx)
  <2> HIDE DEF tx
  <2>0. LivePermits(tx) /\ LiveHappens(tx) /\ tx.kind \in LiveKind
    BY <1>1, <1>2, <1>6 DEF LiveTransaction, tx
  <2>a. ASSUME NEW status \in {Active, Stopped, Revoked}, UNCHANGED router,
               registry' = [registry EXCEPT ![tx.policy] = status]
        PROVE  ChainMoves
    <3>1. RequestsEnd /\ router' \in [Request -> RouterStatus]
      BY <2>a DEF RequestsEnd, RouterStatus, ChainInv
    <3>2. Active # Unregistered /\ Stopped # Unregistered /\ Revoked # Unregistered
      BY DEF Active, Stopped, Revoked, Unregistered
    <3>3. PoliciesStay /\ registry' \in [Policy -> {Unregistered, Active, Stopped, Revoked}]
      BY <2>a, <3>2 DEF ChainInv, PoliciesStay
    <3> QED BY <1>4, <1>5, <3>1, <3>3 DEF ChainMoves, ChainInv
  <2>1. CASE tx.kind = "REGISTER"
    <3>1. registry' = [registry EXCEPT ![tx.policy] = Active] /\ UNCHANGED router
      BY <2>0, <2>1 DEF LiveHappens, Target
    <3> QED BY <3>1, <2>a
  <2>2. CASE tx.kind \in DOMAIN Target
    <3>1. Target[tx.kind] \in {Active, Stopped, Revoked} /\ tx.kind \in {"STOP", "RESUME", "REVOKE"}
      BY <2>2 DEF Target
    <3>2. registry' = [registry EXCEPT ![tx.policy] = Target[tx.kind]] /\ UNCHANGED router
      BY <2>0, <2>2, <3>1 DEF LiveHappens
    <3> QED BY <3>1, <3>2, <2>a
  <2>3. CASE tx.kind = "REQUEST"
    BY <2>0, <2>3, <1>4, <1>5 DEF LivePermits, LiveHappens, ChainMoves, ChainInv, RequestsEnd,
         PoliciesStay, RouterStatus, Target
  <2>4. CASE tx.kind = "TRANSFER"
    BY <2>0, <2>4, <1>4, <1>5 DEF LivePermits, LiveHappens, RouterPermits, ChainMoves, ChainInv,
         RequestsEnd, PoliciesStay, RouterStatus, Target
  <2> QED BY <2>0, <2>1, <2>2, <2>3, <2>4 DEF LiveKind
<1>7. CASE ~LivePermits(tx)
  BY <1>1, <1>4, <1>5, <1>7 DEF ChainMoves, ChainInv, RequestsEnd, PoliciesStay, RouterStatus
<1> QED BY <1>6, <1>7

LEMMA RelayMovesRouter ==
    ASSUME ChainInv, RelayEvaluates
    PROVE  ChainMoves
<1>1. PICK status \in RouterStatus :
        /\ \/ router[live.id] = "PENDING" /\ status \in {"ALLOWED", "DENIED"}
           \/ status = router[live.id]
        /\ router' = [router EXCEPT ![live.id] = status]
  BY DEF RelayEvaluates, RouterStatus
<1>2. UNCHANGED <<sent, registry, liveSigned>>
  BY DEF RelayEvaluates, liveChainVars
<1>3. router' \in [Request -> RouterStatus] /\ RequestsEnd
  BY <1>1 DEF ChainInv, RequestsEnd, RouterStatus
<1> QED BY <1>2, <1>3 DEF ChainInv, ChainMoves, PoliciesStay, SentIsFinal

-----------------------------------------------------------------------------
(* The studio.                                                              *)

PolicySide ==
    /\ studioDraft = NoPolicy \/ studioDraft \in [owner : AnyAccount, rules : Rules]
    /\ studioCompilation \in Policy \cup {NoPolicy}
    /\ liveFccSession \in Policy \cup {NoPolicy}
    /\ delegatedPolicyInput \in Policy \cup {NoPolicy}
    /\ delegatedPolicyRead.policy \in Policy \cup {NoPolicy}
    /\ RegisteredIsOnChain

\* What a decision says was decided for good when it was shown.
RequestSide ==
    /\ liveFccRequest \in Request \cup {Nothing}
    /\ liveFccRequest # Nothing /\ liveFccEvaluation # NotYet => Decided(liveFccRequest)
    /\ ResultsBelongToRequest

\* The handler that runs still belongs to what it was started for, or what it
\* was started for is gone.
HandlerInv ==
    live # Resting =>
        /\ live = [kind |-> live.kind, at |-> live.at, account |-> live.account,
                   policy |-> live.policy, id |-> live.id, tx |-> live.tx, shown |-> live.shown]
        /\ live.policy \in Policy \cup {NoPolicy}
        /\ live.id \in Request \cup {Nothing}
        /\ live.account \in AnyAccount
        /\ live.kind \in LiveKind \cup {"CUSTODY", "LOAD", "EVALUATE"}
        /\ live.kind = "CUSTODY" => live.policy \in Policy /\ liveFccSession = NoPolicy
        /\ live.kind = "REGISTER" => live.policy \in Policy /\ liveFccSession \in {live.policy, NoPolicy}
        /\ live.kind = "REQUEST" => live.id \in Request
        /\ live.kind \in {"EVALUATE", "TRANSFER"} =>
              live.id \in Request /\ liveFccRequest \in {live.id, Nothing}
        /\ live.kind = "EVALUATE" /\ live.at = "answer" => Decided(live.id)

-----------------------------------------------------------------------------
(* The requests' panel.                                                     *)

DeskTransactionsAreSound ==
    /\ deskOperations = [o \in DeskOperation |-> deskOperations[o]]
    /\ \A o \in DeskOperation : deskOperations[o] # NoTransaction =>
          LET op == deskOperations[o] IN
          /\ op = [at |-> op.at, kind |-> op.kind, id |-> op.id, account |-> op.account,
                   tx |-> op.tx, shown |-> op.shown]
          /\ op.kind \in Kind /\ op.id \in Request /\ op.account \in Account
          /\ op.at = "receipt" => op.tx \in DOMAIN sent

DeskInv ==
    /\ requestIntent \in Kind \cup {Nothing}
    /\ requestInput \in Request
    /\ DeskTransactionsAreSound
    /\ requestTransactionState.status = "SUCCESS" => requestTransactionState.tx \in DOMAIN sent
    /\ RequestSuccessIsFinal


LEMMA DeskStarts == Init => ChainInv /\ DeskInv
<1> SUFFICES ASSUME Init PROVE ChainInv /\ DeskInv
  OBVIOUS
<1>1. DeskInit /\ PolicyInit
  BY DEF Init
<1>2. ChainInv
  BY <1>1 DEF DeskInit, PolicyInit, ChainInv, RouterStatus
<1>3. DeskInv
  BY <1>1 DEF DeskInit, DeskInv, DeskTransactionsAreSound, DeskState, RequestSuccessIsFinal
<1> QED BY <1>2, <1>3

\* A success that was reported stays true, whatever happens to the request.
LEMMA SuccessStays ==
    ASSUME ChainInv, DeskInv, ChainMoves, UNCHANGED requestTransactionState
    PROVE  /\ RequestSuccessIsFinal'
           /\ (requestTransactionState.status = "SUCCESS" => requestTransactionState.tx \in DOMAIN sent)'
<1> SUFFICES ASSUME requestTransactionState.status = "SUCCESS"
             PROVE  /\ requestTransactionState.tx \in DOMAIN sent'
                    /\ sent'[requestTransactionState.tx].state = "final"
                    /\ router'[sent'[requestTransactionState.tx].id]
                         = Terminal[sent'[requestTransactionState.tx].kind]
  BY DEF RequestSuccessIsFinal
<1> DEFINE i == requestTransactionState.tx
<1>1. i \in 1 .. Len(sent) /\ i \in DOMAIN sent' /\ sent[i] \in RouterTransaction
  BY DEF DeskInv, ChainInv, ChainMoves, SentIsFinal
<1>2. sent[i].state = "final" /\ router[sent[i].id] = Terminal[sent[i].kind]
  BY DEF DeskInv, RequestSuccessIsFinal
<1>3. sent'[i].state = "final" /\ sent'[i].id = sent[i].id /\ sent'[i].kind = sent[i].kind
  BY <1>1, <1>2 DEF ChainMoves, SentIsFinal
<1>4. sent[i].id \in Request /\ router[sent[i].id] \in {"EXECUTED", "EXPIRED", "CANCELLED"}
  BY <1>1, <1>2, TerminalKinds DEF Terminals, RouterTransaction
<1>5. router'[sent[i].id] = router[sent[i].id]
  BY <1>4 DEF ChainMoves, RequestsEnd
<1> QED BY <1>1, <1>2, <1>3, <1>5

LEMMA TransactionsStay ==
    ASSUME ChainInv, DeskInv, ChainMoves, UNCHANGED deskOperations
    PROVE  DeskTransactionsAreSound'
<1>1. DOMAIN sent \subseteq DOMAIN sent'
  BY DEF ChainInv, ChainMoves, SentIsFinal
<1> QED BY <1>1 DEF DeskInv, DeskTransactionsAreSound

LEMMA DeskQuiet ==
    ASSUME ChainInv, DeskInv, ChainMoves, UNCHANGED deskOperations,
           requestIntent' \in Kind \cup {Nothing}, requestInput' \in Request,
           requestTransactionState'.status # "SUCCESS" \/ UNCHANGED requestTransactionState
    PROVE  DeskInv'
<1>1. DeskTransactionsAreSound'
  BY TransactionsStay
<1>2. CASE requestTransactionState'.status # "SUCCESS"
  BY <1>1, <1>2 DEF DeskInv, RequestSuccessIsFinal
<1>3. CASE UNCHANGED requestTransactionState
  BY <1>1, <1>3, SuccessStays DEF DeskInv
<1> QED BY <1>2, <1>3

\* An operation of the desk begins, goes on or ends.
LEMMA DeskOperationMoves ==
    ASSUME ChainInv, DeskInv, ChainMoves, NEW o \in DeskOperation, NEW op,
           deskOperations' = [deskOperations EXCEPT ![o] = op],
           \/ op = NoTransaction
           \/ /\ op = [at |-> op.at, kind |-> op.kind, id |-> op.id, account |-> op.account,
                       tx |-> op.tx, shown |-> op.shown]
              /\ op.kind \in Kind /\ op.id \in Request /\ op.account \in Account
              /\ op.at = "receipt" => op.tx \in DOMAIN sent'
    PROVE  DeskTransactionsAreSound'
<1>1. DOMAIN sent \subseteq DOMAIN sent'
  BY DEF ChainInv, ChainMoves, SentIsFinal
<1>2. \A q \in DeskOperation : deskOperations'[q] = IF q = o THEN op ELSE deskOperations[q]
  BY DEF DeskInv, DeskTransactionsAreSound
<1>3. deskOperations' = [q \in DeskOperation |-> deskOperations'[q]]
  BY DEF DeskInv, DeskTransactionsAreSound
<1> QED BY <1>1, <1>2, <1>3 DEF DeskInv, DeskTransactionsAreSound

Prompted(op) == [op EXCEPT !.at = "prompt"]
Broadcast(op, tx) == [op EXCEPT !.at = "receipt", !.tx = tx]

LEMMA BroadcastRecord ==
    ASSUME NEW op, NEW tx,
           op = [at |-> op.at, kind |-> op.kind, id |-> op.id, account |-> op.account,
                 tx |-> op.tx, shown |-> op.shown]
    PROVE  Broadcast(op, tx) = [at |-> "receipt", kind |-> op.kind, id |-> op.id,
                                account |-> op.account, tx |-> tx, shown |-> op.shown]
<1> DEFINE next == [op EXCEPT !.at = "receipt"]
<1>1. next = [at |-> "receipt", kind |-> op.kind, id |-> op.id, account |-> op.account,
              tx |-> op.tx, shown |-> op.shown]
  OBVIOUS
<1>2. Broadcast(op, tx) = [next EXCEPT !.tx = tx]
  BY DEF Broadcast
<1> HIDE DEF next
<1>3. [next EXCEPT !.tx = tx] = [at |-> next.at, kind |-> next.kind, id |-> next.id,
                                 account |-> next.account, tx |-> tx, shown |-> next.shown]
  BY <1>1
<1> QED BY <1>1, <1>2, <1>3

LEMMA DeskOperationsKeepDesk ==
    ASSUME SessionInv, ChainInv, DeskInv, ChainMoves, NEW o \in DeskOperation,
           \/ submitRequestTransaction(o)
           \/ ReadRequestBefore(o)
           \/ executeRequestTransaction(o)
           \/ RequestVerified(o)
           \/ RequestFails(o)
    PROVE  DeskInv'
<1> DEFINE op == deskOperations[o]
<1>0. op # NoTransaction =>
        /\ op = [at |-> op.at, kind |-> op.kind, id |-> op.id, account |-> op.account,
                 tx |-> op.tx, shown |-> op.shown]
        /\ op.kind \in Kind /\ op.id \in Request /\ op.account \in Account
        /\ op.at = "receipt" => op.tx \in DOMAIN sent
  BY DEF DeskInv, DeskTransactionsAreSound
<1>n. NoTransaction.at = "none"
  BY DEF NoTransaction
<1>1. CASE submitRequestTransaction(o)
  <2>1. CASE Connected
    <3> DEFINE new == [at |-> "before", kind |-> requestIntent, id |-> requestInput,
                       account |-> walletState.account, tx |-> 0, shown |-> requestState.id]
    <3>1. /\ deskOperations' = [deskOperations EXCEPT ![o] = new]
          /\ new.kind \in Kind /\ new.id \in Request /\ new.account \in Account
          /\ requestTransactionState'.status # "SUCCESS"
          /\ UNCHANGED <<requestIntent, requestInput>>
      BY <1>1, <2>1 DEF submitRequestTransaction, DeskInv, SessionInv, DeskState, lookupVars
    <3>2. DeskTransactionsAreSound'
      BY <3>1, DeskOperationMoves
    <3> QED BY <3>1, <3>2 DEF DeskInv, RequestSuccessIsFinal
  <2>2. CASE ~Connected
    BY <1>1, <2>2, DeskQuiet DEF submitRequestTransaction, DeskInv, DeskState, lookupVars
  <2> QED BY <2>1, <2>2
<1>2. CASE ReadRequestBefore(o)
  <2>1. op # NoTransaction /\ UNCHANGED <<sent, requestIntent, requestInput, requestTransactionState>>
    BY <1>2, <1>n DEF ReadRequestBefore, lookupVars, controlVars
  <2>2. deskOperations' = [deskOperations EXCEPT ![o] = Prompted(op)]
    BY <1>2 DEF ReadRequestBefore, Prompted, DeskInv, DeskTransactionsAreSound
  <2>4. Prompted(op) = [at |-> "prompt", kind |-> op.kind, id |-> op.id, account |-> op.account,
                        tx |-> op.tx, shown |-> op.shown]
    BY <1>0, <2>1 DEF Prompted
  <2>3. DeskTransactionsAreSound'
    BY <1>0, <2>1, <2>2, <2>4, DeskOperationMoves
  <2> QED BY <2>1, <2>3, SuccessStays DEF DeskInv
<1>3. CASE executeRequestTransaction(o)
  <2>1. op # NoTransaction /\ UNCHANGED <<requestIntent, requestInput, requestTransactionState>>
    BY <1>3, <1>n DEF executeRequestTransaction, lookupVars, controlVars
  <2>2. Len(sent) + 1 \in DOMAIN sent'
    BY <1>3 DEF executeRequestTransaction, ChainInv
  <2>3. deskOperations' = [deskOperations EXCEPT ![o] = Broadcast(op, Len(sent) + 1)]
    BY <1>3 DEF executeRequestTransaction, Broadcast, DeskInv, DeskTransactionsAreSound
  <2>5. Broadcast(op, Len(sent) + 1)
          = [at |-> "receipt", kind |-> op.kind, id |-> op.id, account |-> op.account,
             tx |-> Len(sent) + 1, shown |-> op.shown]
    BY <1>0, <2>1, BroadcastRecord
  <2>4. DeskTransactionsAreSound'
    BY <1>0, <2>1, <2>2, <2>3, <2>5, DeskOperationMoves
  <2> QED BY <2>1, <2>4, SuccessStays DEF DeskInv
<1>4. CASE RequestVerified(o)
  <2>1. /\ op # NoTransaction
        /\ UNCHANGED <<requestInput, sent, router>> /\ requestIntent' = Nothing
        /\ requestTransactionState' = [status |-> "SUCCESS", tx |-> op.tx]
        /\ deskOperations' = [deskOperations EXCEPT ![o] = NoTransaction]
        /\ op.at = "receipt"
    BY <1>4, <1>n DEF RequestVerified, DeskState, routerVars
  <2>2. /\ sent[op.tx].state = "final" /\ sent[op.tx].kind = op.kind /\ sent[op.tx].id = op.id
        /\ router[op.id] = Terminal[op.kind]
    BY <1>4 DEF RequestVerified, verifyRequestReceiptEvent, verifyRequestPostcondition,
         loadCoston2PublicRequest
  <2>3. RequestSuccessIsFinal'
    BY <2>1, <2>2 DEF RequestSuccessIsFinal
  <2>4. DeskTransactionsAreSound'
    BY <2>1, DeskOperationMoves
  <2> QED BY <1>0, <2>1, <2>3, <2>4 DEF DeskInv
<1>5. CASE RequestFails(o)
  <2>1. /\ UNCHANGED requestInput /\ requestIntent' = Nothing
        /\ requestTransactionState'.status # "SUCCESS"
        /\ deskOperations' = [deskOperations EXCEPT ![o] = NoTransaction]
    BY <1>5 DEF RequestFails, DeskState, lookupVars
  <2>2. DeskTransactionsAreSound'
    BY <2>1, DeskOperationMoves
  <2> QED BY <2>1, <2>2 DEF DeskInv, RequestSuccessIsFinal
<1> QED BY <1>1, <1>2, <1>3, <1>4, <1>5
LEMMA ChainQuiet ==
    ASSUME ChainInv, UNCHANGED <<router, registry, sent, liveSigned>>
    PROVE  ChainMoves
BY DEF ChainInv, ChainMoves, RequestsEnd, PoliciesStay, SentIsFinal, RouterStatus

LEMMA DeskBroadcasts ==
    ASSUME ChainInv, DeskInv, NEW o \in DeskOperation, executeRequestTransaction(o),
           UNCHANGED <<registry, liveSigned>>
    PROVE  ChainMoves
<1> DEFINE op == deskOperations[o]
           tx == [kind |-> op.kind, id |-> op.id, account |-> op.account, state |-> "pending"]
<1>1. op # NoTransaction
  BY DEF executeRequestTransaction, NoTransaction
<1>2. tx \in RouterTransaction
  BY <1>1 DEF DeskInv, DeskTransactionsAreSound, RouterTransaction, TransactionState
<1>3. sent' = Append(sent, tx) /\ UNCHANGED router
  BY DEF executeRequestTransaction, routerVars
<1> HIDE DEF tx
<1>4. sent' \in Seq(RouterTransaction) /\ SentIsFinal
  BY <1>2, <1>3 DEF ChainInv, SentIsFinal
<1> QED BY <1>3, <1>4 DEF ChainInv, ChainMoves, RequestsEnd, PoliciesStay, RouterStatus

LEMMA LiveBroadcasts ==
    ASSUME ChainInv, HandlerInv, LiveTransactionSigned, UNCHANGED <<router, sent>>
    PROVE  ChainMoves
<1> DEFINE tx == [kind |-> live.kind, policy |-> live.policy, id |-> live.id,
                  account |-> live.account, state |-> "pending"]
<1>1. live # Resting /\ live.kind \in LiveKind
  BY DEF LiveTransactionSigned, Transacting, LiveKind
<1>2. tx \in LiveTransaction
  BY <1>1 DEF HandlerInv, LiveTransaction, TransactionState
<1>3. liveSigned' = Append(liveSigned, tx) /\ UNCHANGED registry
  BY DEF LiveTransactionSigned
<1> HIDE DEF tx
<1>4. liveSigned' \in Seq(LiveTransaction)
  BY <1>2, <1>3 DEF ChainInv
<1> QED BY <1>3, <1>4 DEF ChainInv, ChainMoves, RequestsEnd, PoliciesStay, RouterStatus, SentIsFinal

\* How a step of the page moves the desk.
DeskMoves ==
    \/ DeskStep /\ UNCHANGED policyVars
    \/ DeskReset /\ UNCHANGED <<registry, liveSigned>>
    \/ UNCHANGED <<deskVars, registry, liveSigned>>
    \/ UNCHANGED deskVars /\ LiveTransactionSigned
    \/ LiveDeskStep

LEMMA NextMovesDesk == Next => DeskMoves
<1> SUFFICES ASSUME Next PROVE DeskMoves
  OBVIOUS
<1>1. CASE walletChanged
  BY <1>1 DEF walletChanged, StudioDiscarded, liveChainVars, DeskMoves
<1>2. CASE UNCHANGED deskVars /\ UNCHANGED policyVars
  BY <1>2 DEF policyVars, liveChainVars, DeskMoves
<1>3. CASE (DeskStep \/ TimePasses) /\ UNCHANGED policyVars
  BY <1>3 DEF DeskMoves, DeskStep
<1>4. CASE OwnerStep /\ UNCHANGED deskVars
  <2>1. UNCHANGED liveChainVars
    BY <1>4 DEF OwnerStep, selectTemplate, rebindStudioOwner, DraftEdited, advanceStudioRules,
         computeStudioAndActivate, submitLiveFccCustody, submitLiveFccPolicyRegistration,
         submitLiveFccGovernance, Starts, collectLiveCustody, registerLivePolicy, governLivePolicy,
         loadLivePolicyStatus
  <2> QED BY <1>4, <2>1 DEF DeskMoves, liveChainVars
<1>5. CASE RequesterStep /\ UNCHANGED deskVars
  <2>1. UNCHANGED liveChainVars
    BY <1>5 DEF RequesterStep, selectTemplate, openDelegatedPolicy, CommitmentTyped,
         loadDelegatedPolicyForRequest, loadLivePolicy, submitLiveFccRequest,
         submitLiveFccEvaluation, submitLiveFccExecution, Starts, resetLiveFccRequest
  <2> QED BY <1>5, <2>1 DEF DeskMoves, liveChainVars
<1>6. CASE Lifecycle
  <2>1. CASE LiveStep /\ UNCHANGED deskVars
    <3>1. LiveTransactionSigned \/ UNCHANGED liveChainVars
      BY <2>1 DEF LiveStep, Settled, LiveFails
    <3> QED BY <2>1, <3>1 DEF DeskMoves, liveChainVars
  <2>2. CASE LiveDeskStep
    BY <2>2 DEF DeskMoves
  <2>3. CASE LiveWalletStep /\ UNCHANGED deskVars
    <3>1. UNCHANGED liveChainVars
      BY <2>3 DEF LiveWalletStep, PolicyReadBack, evaluateLiveRequest, executeLiveRequest
    <3> QED BY <2>3, <3>1 DEF DeskMoves, liveChainVars
  <2> QED BY <1>6, <2>1, <2>2, <2>3 DEF Lifecycle
<1> QED BY <1>1, <1>2, <1>3, <1>4, <1>5, <1>6 DEF Next

LEMMA ChainKept ==
    ASSUME ChainInv, DeskInv, HandlerInv, DeskMoves
    PROVE  ChainMoves
<1>1. CASE DeskStep /\ UNCHANGED policyVars
  <2>0. UNCHANGED <<registry, liveSigned>>
    BY <1>1 DEF policyVars, liveChainVars
  <2>1. CASE MineSent \/ RouterElsewhere
    BY <2>0, <2>1, SentMined, RouterMovesElsewhere
  <2>2. CASE \E o \in DeskOperation : executeRequestTransaction(o)
    BY <2>0, <2>2, DeskBroadcasts
  <2>3. CASE UNCHANGED <<router, sent>>
    BY <2>0, <2>3, ChainQuiet
  <2>4. CASE \/ LoadRequest \/ resetRequestLookup \/ RequestTyped
             \/ LookupFinalized \/ LookupArrives \/ LookupFails \/ CancelIntent \/ TimePasses
             \/ \E kind \in Kind : prepareRequestTransaction(kind)
    BY <2>3, <2>4 DEF LoadRequest, resetRequestLookup, RequestTyped, LookupFinalized, LookupArrives,
         LookupFails, CancelIntent, TimePasses, prepareRequestTransaction, routerVars
  <2>5. ASSUME NEW o \in DeskOperation,
               \/ submitRequestTransaction(o) \/ ReadRequestBefore(o)
               \/ RequestVerified(o) \/ RequestFails(o)
        PROVE  UNCHANGED <<router, sent>>
    BY <2>5 DEF submitRequestTransaction, ReadRequestBefore, RequestVerified, RequestFails, routerVars
  <2> QED BY <1>1, <2>1, <2>2, <2>3, <2>4, <2>5 DEF DeskStep
<1>2. CASE DeskReset /\ UNCHANGED <<registry, liveSigned>>
  BY <1>2, ChainQuiet DEF DeskReset, routerVars
<1>3. CASE UNCHANGED <<deskVars, registry, liveSigned>>
  BY <1>3, ChainQuiet DEF deskVars, routerVars
<1>4. CASE UNCHANGED deskVars /\ LiveTransactionSigned
  BY <1>4, LiveBroadcasts DEF deskVars, routerVars
<1>5. CASE LiveDeskStep
  <2>1. CASE MineLive \/ RelayEvaluates
    BY <2>1, LiveMined, RelayMovesRouter
  <2>2. CASE createDelegatedLiveRequest \/ RequestReread
    BY <2>2, ChainQuiet DEF createDelegatedLiveRequest, RequestReread, routerVars, liveChainVars
  <2> QED BY <1>5, <2>1, <2>2 DEF LiveDeskStep
<1> QED BY <1>1, <1>2, <1>3, <1>4, <1>5 DEF DeskMoves

LEMMA DeskKept ==
    ASSUME SessionInv, ChainInv, DeskInv, HandlerInv, ChainMoves, DeskMoves
    PROVE  DeskInv'
<1>0. requestIntent \in Kind \cup {Nothing} /\ requestInput \in Request
  BY DEF DeskInv
<1>a. \A tx : DeskState("IDLE", tx).status # "SUCCESS"
  BY DEF DeskState
<1>1. CASE DeskStep
  <2>1. CASE LoadRequest \/ resetRequestLookup \/ RequestTyped \/ CancelIntent
    BY <1>0, <1>a, <2>1, DeskQuiet DEF LoadRequest, resetRequestLookup, RequestTyped, CancelIntent,
         NewLookup, refreshPublicRequest, lookupVars
  <2>2. CASE \/ LookupFinalized \/ LookupArrives \/ LookupFails
             \/ RouterElsewhere \/ TimePasses \/ MineSent
    BY <1>0, <2>2, DeskQuiet DEF LookupFinalized, LookupArrives, LookupFails, RouterElsewhere,
         TimePasses, MineSent, lookupVars, controlVars
  <2>3. ASSUME NEW kind \in Kind, prepareRequestTransaction(kind) PROVE DeskInv'
    BY <1>0, <1>a, <2>3, DeskQuiet DEF prepareRequestTransaction, lookupVars
  <2> QED BY <1>1, <2>1, <2>2, <2>3, DeskOperationsKeepDesk DEF DeskStep
<1>2. CASE DeskReset
  BY <1>0, <1>a, <1>2, DeskQuiet DEF DeskReset, lookupVars
<1>3. CASE UNCHANGED deskVars
  BY <1>0, <1>3, DeskQuiet DEF deskVars, lookupVars, controlVars
<1>4. CASE LiveDeskStep
  <2>1. CASE MineLive \/ RelayEvaluates
    BY <1>0, <2>1, DeskQuiet DEF MineLive, RelayEvaluates, lookupVars, controlVars
  <2>2. CASE RequestReread
    BY <1>0, <1>a, <2>2, DeskQuiet DEF RequestReread, refreshPublicRequest, NewLookup
  <2>3. CASE createDelegatedLiveRequest
    <3>1. live.id \in Request
      BY <2>3 DEF createDelegatedLiveRequest, Mined, HandlerInv
    <3> QED BY <1>0, <1>a, <2>3, <3>1, DeskQuiet DEF createDelegatedLiveRequest,
                 refreshPublicRequest, NewLookup
  <2> QED BY <1>4, <2>1, <2>2, <2>3 DEF LiveDeskStep
<1> QED BY <1>1, <1>2, <1>3, <1>4 DEF DeskMoves
-----------------------------------------------------------------------------
(* The studio's side of each step.                                          *)

StudioInv == PolicySide /\ RequestSide /\ HandlerInv

LEMMA StudioStarts == Init => StudioInv
BY DEF Init, PolicyInit, StudioInv, PolicySide, RequestSide, HandlerInv, RegisteredIsOnChain,
     ResultsBelongToRequest, NoRead

LEMMA DecisionsStay ==
    ASSUME ChainInv, ChainMoves, NEW r \in Request
    PROVE  /\ Decided(r) => Decided(r)' /\ (router[r] = "DENIED") = (router'[r] = "DENIED")
           /\ router[r] = "EXECUTED" => router'[r] = "EXECUTED"
BY DEF ChainInv, ChainMoves, RequestsEnd, Decided, RouterStatus

LEMMA PolicySideStays ==
    ASSUME ChainInv, ChainMoves, PolicySide,
           UNCHANGED <<studioDraft, studioCompilation, liveFccSession, liveFccPolicyRegistration,
                       delegatedPolicyInput, delegatedPolicyRead>>
    PROVE  PolicySide'
BY DEF PolicySide, RegisteredIsOnChain, ChainMoves, PoliciesStay

LEMMA RequestSideStays ==
    ASSUME ChainInv, ChainMoves, RequestSide,
           UNCHANGED <<liveFccRequest, liveFccEvaluation, liveFccExecution>>
    PROVE  RequestSide'
<1>1. CASE liveFccRequest = Nothing
  BY <1>1 DEF RequestSide, ResultsBelongToRequest
<1>2. CASE liveFccRequest # Nothing
  <2>1. liveFccRequest \in Request
    BY <1>2 DEF RequestSide
  <2>2. /\ Decided(liveFccRequest) =>
              /\ Decided(liveFccRequest)'
              /\ (router[liveFccRequest] = "DENIED") = (router'[liveFccRequest] = "DENIED")
        /\ router[liveFccRequest] = "EXECUTED" => router'[liveFccRequest] = "EXECUTED"
    BY <2>1, DecisionsStay DEF Decided
  <2> QED BY <1>2, <2>1, <2>2 DEF RequestSide, ResultsBelongToRequest, Decided
<1> QED BY <1>1, <1>2

LEMMA HandlerStays ==
    ASSUME ChainInv, ChainMoves, HandlerInv, UNCHANGED live,
           liveFccSession' \in {liveFccSession, NoPolicy},
           liveFccRequest' \in {liveFccRequest, Nothing}
    PROVE  HandlerInv'
<1> SUFFICES ASSUME live # Resting PROVE HandlerInv'
  BY DEF HandlerInv
<1>1. live.kind = "EVALUATE" /\ live.at = "answer" => Decided(live.id)'
  BY DecisionsStay DEF HandlerInv, Decided
<1> QED BY <1>1 DEF HandlerInv

LEMMA HandlerRests == live' = Resting => HandlerInv'
BY DEF HandlerInv

\* The running handler goes from one await to the next.
LEMMA HandlerContinues ==
    ASSUME ChainInv, ChainMoves, HandlerInv, live # Resting, NEW at, Continues(at),
           at = "answer" => live.kind = "EVALUATE" /\ Decided(live.id)',
           UNCHANGED liveFccSession,
           liveFccRequest' = live.id \/ UNCHANGED liveFccRequest
    PROVE  HandlerInv'
<1>1. live' = [kind |-> live.kind, at |-> at, account |-> live.account, policy |-> live.policy,
               id |-> live.id, tx |-> live.tx, shown |-> live.shown]
  BY DEF Continues, HandlerInv
<1> QED BY <1>1 DEF HandlerInv, Decided

\* Custody and its consequences are forgotten, whatever is on its way.
LEMMA ResetKeepsStudio ==
    ASSUME ChainInv, ChainMoves, StudioInv, resetLiveFccPolicySession, UNCHANGED <<live, delegatedVars>>,
           studioCompilation' = NoPolicy,
           studioDraft' = NoPolicy \/ studioDraft' \in [owner : AnyAccount, rules : Rules]
    PROVE  StudioInv'
<1>1. PolicySide'
  BY DEF StudioInv, PolicySide, RegisteredIsOnChain, resetLiveFccPolicySession, delegatedVars
<1>2. RequestSide'
  BY DEF RequestSide, ResultsBelongToRequest, resetLiveFccPolicySession
<1>3. HandlerInv'
  BY HandlerStays DEF StudioInv, resetLiveFccPolicySession
<1> QED BY <1>1, <1>2, <1>3 DEF StudioInv

LEMMA DraftsKeepStudio ==
    ASSUME SessionInv, ChainInv, ChainMoves, StudioInv,
           \/ selectTemplate \/ rebindStudioOwner \/ DraftEdited
           \/ advanceStudioRules \/ computeStudioAndActivate
    PROVE  StudioInv'
<1>0. connectedAccount \in AnyAccount
  BY DEF SessionInv, connectedAccount, AnyAccount
<1>1. CASE selectTemplate
  BY <1>0, <1>1, ResetKeepsStudio DEF selectTemplate, FreshDraft
<1>2. CASE rebindStudioOwner
  <2>1. [studioDraft EXCEPT !.owner = connectedAccount] \in [owner : AnyAccount, rules : Rules]
    BY <1>0, <1>2 DEF rebindStudioOwner, StudioInv, PolicySide
  <2> QED BY <1>2, <2>1, ResetKeepsStudio DEF rebindStudioOwner, FreshDraft
<1>3. CASE DraftEdited
  <2>1. studioDraft' \in [owner : AnyAccount, rules : Rules] /\ studioCompilation' = NoPolicy
        /\ UNCHANGED <<live, delegatedVars>>
    BY <1>3 DEF DraftEdited, StudioInv, PolicySide
  <2>2. CASE resetLiveFccPolicySession
    BY <2>1, <2>2, ResetKeepsStudio
  <2>3. CASE UNCHANGED <<sessionVars, resultVars>>
    <3>1. PolicySide'
      BY <2>1, <2>3 DEF StudioInv, PolicySide, RegisteredIsOnChain, sessionVars, delegatedVars,
           ChainMoves, PoliciesStay
    <3> QED BY <2>1, <2>3, <3>1, RequestSideStays, HandlerStays DEF StudioInv, sessionVars, resultVars
  <2> QED BY <1>3, <2>2, <2>3 DEF DraftEdited
<1>4. CASE advanceStudioRules \/ computeStudioAndActivate
  <2>1. UNCHANGED <<studioDraft, sessionVars, resultVars, delegatedVars, live>>
    BY <1>4 DEF advanceStudioRules, computeStudioAndActivate
  <2>2. studioCompilation' \in Policy \cup {NoPolicy}
    BY <1>4 DEF advanceStudioRules, computeStudioAndActivate, compileStudioDraft,
         validateStudioDraft, StudioInv, PolicySide, Policy, NoPolicy, AnyAccount
  <2>3. PolicySide'
    BY <2>1, <2>2 DEF StudioInv, PolicySide, RegisteredIsOnChain, sessionVars, delegatedVars,
         ChainMoves, PoliciesStay
  <2> QED BY <2>1, <2>3, RequestSideStays, HandlerStays DEF StudioInv, sessionVars, resultVars
<1> QED BY <1>1, <1>2, <1>3, <1>4

\* A handler starts: what it takes along is what the page shows then.
LEMMA StartsKeepStudio ==
    ASSUME SessionInv, ChainInv, ChainMoves, StudioInv,
           NEW kind \in LiveKind \cup {"CUSTODY", "LOAD", "EVALUATE"},
           NEW policy \in Policy \cup {NoPolicy}, NEW id \in Request \cup {Nothing}, NEW at, NEW account \in AnyAccount,
           NEW shown,
           live' = [kind |-> kind, at |-> at, account |-> account, policy |-> policy,
                    id |-> id, tx |-> 0, shown |-> shown],
           at # "answer",
           kind = "CUSTODY" => policy \in Policy /\ liveFccSession = NoPolicy,
           kind = "REGISTER" => policy \in Policy /\ liveFccSession = policy,
           kind = "REQUEST" => id \in Request,
           kind \in {"EVALUATE", "TRANSFER"} => id \in Request /\ liveFccRequest = id,
           UNCHANGED <<studioVars, sessionVars, resultVars, delegatedVars>>
    PROVE  StudioInv'
<1>1. PolicySide' /\ RequestSide'
  BY PolicySideStays, RequestSideStays DEF StudioInv, studioVars, sessionVars, resultVars, delegatedVars
<1>2. HandlerInv'
  BY DEF HandlerInv, sessionVars, resultVars
<1> QED BY <1>1, <1>2 DEF StudioInv
LEMMA HandlersStart ==
    ASSUME SessionInv, ChainInv, ChainMoves, StudioInv,
           \/ submitLiveFccCustody \/ submitLiveFccPolicyRegistration
           \/ \E action \in DOMAIN Target : submitLiveFccGovernance(action)
           \/ loadDelegatedPolicyForRequest \/ submitLiveFccRequest
           \/ submitLiveFccEvaluation \/ submitLiveFccExecution
    PROVE  StudioInv'
<1>0. connectedAccount \in AnyAccount /\ walletState.account \in AnyAccount
  BY DEF SessionInv, connectedAccount, AnyAccount
<1>s. ASSUME NEW kind \in LiveKind \cup {"CUSTODY", "EVALUATE"}, NEW policy \in Policy \cup {NoPolicy},
             NEW id \in Request \cup {Nothing}, NEW shown, Starts(kind, policy, id, shown),
             kind = "CUSTODY" => policy \in Policy /\ liveFccSession = NoPolicy,
             kind = "REGISTER" => policy \in Policy /\ liveFccSession = policy,
             kind = "REQUEST" => id \in Request,
             kind \in {"EVALUATE", "TRANSFER"} => id \in Request /\ liveFccRequest = id
      PROVE  StudioInv'
  BY <1>0, <1>s, StartsKeepStudio DEF Starts
<1>1. CASE submitLiveFccCustody
  BY <1>1, <1>s DEF submitLiveFccCustody, OwnerMatches, StudioInv, PolicySide
<1>2. CASE submitLiveFccPolicyRegistration
  BY <1>2, <1>s DEF submitLiveFccPolicyRegistration, StudioInv, PolicySide, LiveKind
<1>3. ASSUME NEW action \in DOMAIN Target, submitLiveFccGovernance(action) PROVE StudioInv'
  <2>1. action \in LiveKind /\ action \notin {"CUSTODY", "REGISTER", "REQUEST", "EVALUATE", "TRANSFER"}
    BY DEF LiveKind, Target
  <2> QED BY <1>3, <1>s, <2>1 DEF submitLiveFccGovernance, StudioInv, PolicySide
<1>4. CASE loadDelegatedPolicyForRequest
  <2>1. delegatedPolicyInput \in Policy \cup {NoPolicy}
    BY DEF StudioInv, PolicySide
  <2> QED BY <1>0, <1>4, <2>1, StartsKeepStudio DEF loadDelegatedPolicyForRequest
<1>5. CASE submitLiveFccRequest
  BY <1>5, <1>s DEF submitLiveFccRequest, StudioInv, PolicySide, LiveKind
<1>6. CASE submitLiveFccEvaluation
  BY <1>6, <1>s DEF submitLiveFccEvaluation, StudioInv, RequestSide
<1>7. CASE submitLiveFccExecution
  BY <1>7, <1>s DEF submitLiveFccExecution, StudioInv, RequestSide, LiveKind
<1> QED BY <1>1, <1>2, <1>3, <1>4, <1>5, <1>6, <1>7

\* Answers about policies.
LEMMA PolicyAnswersKeepStudio ==
    ASSUME ChainInv, ChainMoves, StudioInv,
           \/ collectLiveCustody \/ registerLivePolicy \/ PolicyReadBack
           \/ governLivePolicy \/ loadLivePolicyStatus \/ loadLivePolicy
    PROVE  StudioInv'
<1> USE DEF StudioInv
<1>0. Resting.kind = "none"
  BY DEF Resting
<1>1. CASE collectLiveCustody
  <2>1. live # Resting /\ live.policy \in Policy /\ live' = Resting
    BY <1>0, <1>1 DEF collectLiveCustody, HandlerInv
  <2>2. PolicySide'
    BY <1>1, <2>1 DEF collectLiveCustody, PolicySide, RegisteredIsOnChain, studioVars, delegatedVars
  <2>3. RequestSide'
    BY <1>1 DEF collectLiveCustody, RequestSide, ResultsBelongToRequest
  <2> QED BY <2>1, <2>2, <2>3, HandlerRests
<1>2. CASE registerLivePolicy
  <2>1. /\ live # Resting /\ live.policy \in Policy /\ liveFccSession \in {live.policy, NoPolicy}
        /\ registry[live.policy] = Active
        /\ UNCHANGED <<registry, studioDraft, studioCompilation, liveFccSession, liveFccRequest,
                       liveFccEvaluation, liveFccExecution, delegatedPolicyRead>>
    BY <1>2 DEF registerLivePolicy, Mined, HandlerInv, liveChainVars, studioVars, resultVars
  <2>2. RequestSide'
    BY <2>1, RequestSideStays
  <2>3. CASE liveFccSession # NoPolicy
    <3>1. liveFccPolicyRegistration' = live.policy /\ delegatedPolicyInput' = liveFccSession
          /\ Continues("read")
      BY <1>2, <2>3 DEF registerLivePolicy
    <3>2. PolicySide'
      BY <2>1, <2>3, <3>1 DEF PolicySide, RegisteredIsOnChain, Active, Unregistered
    <3> QED BY <2>1, <2>2, <3>1, <3>2, HandlerContinues
  <2>4. CASE liveFccSession = NoPolicy
    <3>1. liveFccPolicyRegistration' = NoPolicy /\ UNCHANGED delegatedPolicyInput /\ live' = Resting
      BY <1>2, <2>4 DEF registerLivePolicy
    <3>2. PolicySide'
      BY <2>1, <3>1 DEF PolicySide, RegisteredIsOnChain
    <3> QED BY <2>2, <3>1, <3>2, HandlerRests
  <2> QED BY <2>3, <2>4
<1>3. CASE PolicyReadBack
  <2>1. /\ live # Resting /\ live.policy \in Policy
        /\ delegatedPolicyRead'.policy = live.policy
        /\ UNCHANGED <<studioDraft, studioCompilation, liveFccSession, liveFccPolicyRegistration,
                       liveFccRequest, liveFccEvaluation, liveFccExecution, delegatedPolicyInput>>
    BY <1>0, <1>3 DEF PolicyReadBack, HandlerInv, studioVars, resultVars
  <2>2. PolicySide' /\ RequestSide'
    BY <2>1, RequestSideStays DEF PolicySide, RegisteredIsOnChain, ChainMoves, PoliciesStay
  <2>3. live' = Resting \/ Continues("settle")
    BY <1>3 DEF PolicyReadBack
  <2> QED BY <2>1, <2>2, <2>3, HandlerRests, HandlerContinues
<1>4. CASE governLivePolicy
  <2>1. /\ live # Resting /\ UNCHANGED <<studioVars, sessionVars, resultVars, delegatedVars>>
        /\ live' = Resting \/ Continues("read")
    BY <1>4 DEF governLivePolicy, Mined
  <2> QED BY <2>1, PolicySideStays, RequestSideStays, HandlerRests, HandlerContinues
           DEF studioVars, sessionVars, resultVars, delegatedVars
<1>5. CASE loadLivePolicyStatus
  <2>1. PolicySide' /\ RequestSide'
    BY <1>5, PolicySideStays, RequestSideStays DEF loadLivePolicyStatus, studioVars, resultVars, delegatedVars
  <2> QED BY <1>5, <2>1, HandlerRests DEF loadLivePolicyStatus
<1>6. CASE loadLivePolicy
  <2>1. live # Resting /\ live.policy \in Policy \cup {NoPolicy}
    BY <1>0, <1>6 DEF loadLivePolicy, HandlerInv
  <2>2. delegatedPolicyRead'.policy \in Policy \cup {NoPolicy}
    BY <1>6, <2>1 DEF loadLivePolicy, NoRead
  <2>3. PolicySide' /\ RequestSide'
    BY <1>6, <2>2, RequestSideStays DEF loadLivePolicy, PolicySide, RegisteredIsOnChain, ChainMoves,
         PoliciesStay, studioVars, sessionVars, resultVars
  <2> QED BY <1>6, <2>3, HandlerRests DEF loadLivePolicy
<1> QED BY <1>1, <1>2, <1>3, <1>4, <1>5, <1>6

\* The form of the request, and what follows from it.
LEMMA FormKeepsStudio ==
    ASSUME ChainInv, ChainMoves, StudioInv,
           openDelegatedPolicy \/ CommitmentTyped \/ resetLiveFccRequest
    PROVE  StudioInv'
<1> USE DEF StudioInv
<1>1. CASE openDelegatedPolicy \/ CommitmentTyped
  <2>1. /\ delegatedPolicyInput' \in Policy \cup {NoPolicy}
        /\ delegatedPolicyRead'.policy \in Policy \cup {NoPolicy}
        /\ UNCHANGED <<studioVars, sessionVars, resultVars, live>>
    BY <1>1 DEF openDelegatedPolicy, CommitmentTyped, PolicySide, NoRead
  <2>2. PolicySide'
    BY <2>1 DEF PolicySide, RegisteredIsOnChain, ChainMoves, PoliciesStay, studioVars, sessionVars
  <2> QED BY <2>1, <2>2, RequestSideStays, HandlerStays DEF sessionVars, resultVars
<1>2. CASE resetLiveFccRequest
  <2>1. PolicySide'
    BY <1>2, PolicySideStays DEF resetLiveFccRequest, studioVars, sessionVars, delegatedVars
  <2>2. RequestSide'
    BY <1>2 DEF resetLiveFccRequest, RequestSide, ResultsBelongToRequest
  <2> QED BY <1>2, <2>1, <2>2, HandlerRests DEF resetLiveFccRequest
<1> QED BY <1>1, <1>2

\* Answers about requests: each is attached to the request it was asked for,
\* unless that is gone.
LEMMA RequestAnswersKeepStudio ==
    ASSUME ChainInv, ChainMoves, StudioInv,
           \/ createDelegatedLiveRequest \/ evaluateLiveRequest \/ executeLiveRequest
           \/ RequestReread \/ RelayEvaluates
    PROVE  StudioInv'
<1> USE DEF StudioInv
<1>0. Resting.kind = "none"
  BY DEF Resting
<1>p. PolicySide'
  <2>1. UNCHANGED <<studioVars, sessionVars, delegatedVars>>
    BY DEF createDelegatedLiveRequest, evaluateLiveRequest, executeLiveRequest, RequestReread, RelayEvaluates
  <2> QED BY <2>1, PolicySideStays DEF studioVars, sessionVars, delegatedVars
<1>1. CASE createDelegatedLiveRequest
  <2>1. /\ live # Resting /\ live.id \in Request /\ liveFccRequest' = live.id
        /\ liveFccEvaluation' = NotYet /\ liveFccExecution' = Nothing
        /\ Continues("settle") /\ UNCHANGED liveFccSession
    BY <1>1 DEF createDelegatedLiveRequest, Mined, HandlerInv, ResultsCleared, sessionVars
  <2>2. RequestSide'
    BY <2>1 DEF RequestSide, ResultsBelongToRequest
  <2> QED BY <1>p, <2>1, <2>2, HandlerContinues
<1>2. CASE evaluateLiveRequest
  <2>1. /\ live # Resting /\ live.id \in Request /\ liveFccRequest \in {live.id, Nothing}
        /\ Decided(live.id)
        /\ liveFccEvaluation' = [id |-> live.id,
                                 decision |-> IF router[live.id] = "DENIED" THEN "DENY" ELSE "ALLOW"]
        /\ Continues("reread") /\ UNCHANGED <<liveFccSession, liveFccRequest, liveFccExecution>>
    BY <1>0, <1>2 DEF evaluateLiveRequest, HandlerInv, sessionVars
  <2>2. /\ router'[live.id] \notin {"NONE", "PENDING"}
        /\ (router[live.id] = "DENIED") = (router'[live.id] = "DENIED")
        /\ router[live.id] = "EXECUTED" => router'[live.id] = "EXECUTED"
    BY <2>1, DecisionsStay DEF Decided
  <2>3. RequestSide'
    BY <2>1, <2>2 DEF RequestSide, ResultsBelongToRequest, Decided
  <2> QED BY <1>p, <2>1, <2>3, HandlerContinues
<1>3. CASE executeLiveRequest
  <2>1. /\ live # Resting /\ live.id \in Request /\ liveFccRequest \in {live.id, Nothing}
        /\ router[live.id] = "EXECUTED" /\ liveFccExecution' = live.id
        /\ Continues("reread") /\ UNCHANGED <<liveFccSession, liveFccRequest, liveFccEvaluation>>
    BY <1>3 DEF executeLiveRequest, Mined, HandlerInv, sessionVars
  <2>2. /\ Decided(live.id) => /\ router'[live.id] \notin {"NONE", "PENDING"}
                               /\ (router[live.id] = "DENIED") = (router'[live.id] = "DENIED")
        /\ router'[live.id] = "EXECUTED"
    BY <2>1, DecisionsStay DEF Decided
  <2>3. RequestSide'
    BY <2>1, <2>2 DEF RequestSide, ResultsBelongToRequest, Decided
  <2> QED BY <1>p, <2>1, <2>3, HandlerContinues
<1>4. CASE RequestReread
  <2>1. live # Resting /\ Continues("settle") /\ UNCHANGED <<sessionVars, resultVars>>
    BY <1>4 DEF RequestReread
  <2> QED BY <1>p, <2>1, RequestSideStays, HandlerContinues DEF sessionVars, resultVars
<1>5. CASE RelayEvaluates
  <2>1. live # Resting /\ live.id \in Request /\ live.kind = "EVALUATE"
        /\ Continues("answer") /\ UNCHANGED <<sessionVars, resultVars>>
    BY <1>0, <1>5 DEF RelayEvaluates, HandlerInv
  <2>2. Decided(live.id)'
    <3>1. router'[live.id] \notin {"NONE", "PENDING"}
      BY <1>5, <2>1 DEF RelayEvaluates, ChainInv
    <3>2. live'.id = live.id
      BY <2>1 DEF Continues, HandlerInv
    <3> QED BY <3>1, <3>2 DEF Decided
  <2> QED BY <1>p, <2>1, <2>2, RequestSideStays, HandlerContinues DEF sessionVars, resultVars
<1> QED BY <1>1, <1>2, <1>3, <1>4, <1>5

LEMMA LifecycleKeepsStudio ==
    ASSUME ChainInv, ChainMoves, StudioInv, LiveStep \/ MineLive
    PROVE  StudioInv'
<1> USE DEF StudioInv
<1>1. CASE LiveTransactionSigned
  <2>1. /\ live # Resting /\ UNCHANGED <<studioVars, sessionVars, resultVars, delegatedVars>>
        /\ live' = [live EXCEPT !.at = "receipt", !.tx = Len(liveSigned) + 1]
    BY <1>1 DEF LiveTransactionSigned
  <2>3. HandlerInv'
    <3>1. [live EXCEPT !.at = "receipt"]
            = [kind |-> live.kind, at |-> "receipt", account |-> live.account, policy |-> live.policy,
               id |-> live.id, tx |-> live.tx, shown |-> live.shown]
      BY <2>1 DEF HandlerInv
    <3> DEFINE next == [live EXCEPT !.at = "receipt"]
    <3>2. live' = [next EXCEPT !.tx = Len(liveSigned) + 1]
      BY <2>1
    <3> HIDE DEF next
    <3>3. live' = [kind |-> live.kind, at |-> "receipt", account |-> live.account,
                   policy |-> live.policy, id |-> live.id, tx |-> Len(liveSigned) + 1,
                   shown |-> live.shown]
      BY <3>1, <3>2 DEF next
    <3> QED BY <2>1, <3>3 DEF HandlerInv, sessionVars, resultVars
  <2> QED BY <2>1, <2>3, PolicySideStays, RequestSideStays
           DEF studioVars, sessionVars, resultVars, delegatedVars
<1>2. CASE Settled
  BY <1>2, PolicySideStays, RequestSideStays, HandlerRests
     DEF Settled, studioVars, sessionVars, resultVars, delegatedVars
<1>3. CASE LiveFails
  <2>1. PolicySide'
    <3>1. /\ liveFccSession' \in {liveFccSession, NoPolicy}
          /\ liveFccPolicyRegistration' \in {liveFccPolicyRegistration, NoPolicy}
          /\ liveFccSession' # liveFccSession => liveFccSession = NoPolicy
          /\ delegatedPolicyRead'.policy \in Policy \cup {NoPolicy}
          /\ UNCHANGED <<studioDraft, studioCompilation, delegatedPolicyInput>>
      BY <1>3 DEF LiveFails, HandlerInv, PolicySide, NoRead, studioVars
    <3> QED BY <3>1 DEF PolicySide, RegisteredIsOnChain, ChainMoves, PoliciesStay
  <2>2. RequestSide'
    <3>1. CASE liveFccRequest' = Nothing
      BY <3>1 DEF RequestSide, ResultsBelongToRequest
    <3>2. CASE liveFccRequest' # Nothing
      <4>1. /\ liveFccRequest' = liveFccRequest /\ liveFccRequest \in Request
            /\ liveFccEvaluation' \in {liveFccEvaluation, NotYet}
            /\ liveFccExecution' \in {liveFccExecution, Nothing}
        BY <1>3, <3>2 DEF LiveFails, RequestSide
      <4>2. /\ Decided(liveFccRequest) =>
                  /\ Decided(liveFccRequest)'
                  /\ (router[liveFccRequest] = "DENIED") = (router'[liveFccRequest] = "DENIED")
            /\ router[liveFccRequest] = "EXECUTED" => router'[liveFccRequest] = "EXECUTED"
        BY <4>1, DecisionsStay DEF Decided
      <4> QED BY <3>2, <4>1, <4>2 DEF RequestSide, ResultsBelongToRequest, Decided
    <3> QED BY <3>1, <3>2
  <2> QED BY <1>3, <2>1, <2>2, HandlerRests DEF LiveFails
<1>4. CASE MineLive
  BY <1>4, PolicySideStays, RequestSideStays, HandlerStays
     DEF MineLive, studioVars, sessionVars, resultVars, delegatedVars
<1> QED BY <1>1, <1>2, <1>3, <1>4 DEF LiveStep

LEMMA StudioKept ==
    ASSUME SessionInv, ChainInv, StudioInv, ChainMoves, Next
    PROVE  StudioInv'
<1>1. CASE walletChanged
  BY <1>1, ResetKeepsStudio DEF walletChanged, StudioDiscarded, FreshDraft
<1>2. CASE UNCHANGED policyVars
  BY <1>2, PolicySideStays, RequestSideStays, HandlerStays
     DEF StudioInv, policyVars, studioVars, sessionVars, resultVars, delegatedVars
<1>3. CASE OwnerStep \/ RequesterStep
  BY <1>3, DraftsKeepStudio, HandlersStart, PolicyAnswersKeepStudio, FormKeepsStudio
     DEF OwnerStep, RequesterStep
<1>4. CASE Lifecycle
  BY <1>4, LifecycleKeepsStudio, RequestAnswersKeepStudio, PolicyAnswersKeepStudio
     DEF Lifecycle, LiveDeskStep, LiveWalletStep
<1> QED BY <1>1, <1>2, <1>3, <1>4 DEF Next
-----------------------------------------------------------------------------
(* The vault's panel: what a movement of money leaves behind.                *)

VaultKind == {"APPROVE", "DEPOSIT", "WITHDRAW", "SPEND"}
Money == [token : Int, allowance : Int, deposited : Int, available : Int, spent : Int, withdrawn : Int]
VaultTransaction == [account : Account, kind : VaultKind, amount : Amount, state : TransactionState]
Movement == [account : Account, kind : VaultKind, tx : Nat]
Entry == [kind : VaultKind, tx : Nat, from : Nat, to : Nat]

MoneyInv ==
    /\ vault \in [Account -> Money]
    /\ signed \in Seq(VaultTransaction)
    /\ history \in Seq(Movement)

\* Everything that ever left the account or came in: it only grows.
Total(v) == v.deposited + v.spent + v.withdrawn

MovesMoney(kind) == kind # "APPROVE"

LEMMA AmountsArePositive ==
    ASSUME NEW amount \in Amount
    PROVE  amount \in Int /\ amount > 0
BY AmountAssumption

LEMMA ChangedTotal ==
    ASSUME NEW v \in Money, NEW kind \in VaultKind, NEW amount \in Amount
    PROVE  /\ Changed(v, kind, amount) \in Money
           /\ Total(v) \in Int
           /\ Total(Changed(v, kind, amount)) = Total(v) + (IF MovesMoney(kind) THEN amount ELSE 0)
<1>0. amount \in Int
  BY AmountsArePositive
<1>1. CASE kind = "APPROVE"
  BY <1>0, <1>1 DEF Changed, Money, Total, MovesMoney
<1>2. CASE kind = "DEPOSIT"
  <2>1. Changed(v, kind, amount) = [token |-> v.token - amount, allowance |-> v.allowance - amount,
          deposited |-> v.deposited + amount, available |-> v.available + amount,
          spent |-> v.spent, withdrawn |-> v.withdrawn]
    BY <1>2 DEF Changed, Money
  <2> QED BY <1>0, <1>2, <2>1 DEF Money, Total, MovesMoney
<1>3. CASE kind = "WITHDRAW"
  <2>1. Changed(v, kind, amount) = [token |-> v.token + amount, allowance |-> v.allowance,
          deposited |-> v.deposited, available |-> v.available - amount,
          spent |-> v.spent, withdrawn |-> v.withdrawn + amount]
    BY <1>3 DEF Changed, Money
  <2> QED BY <1>0, <1>3, <2>1 DEF Money, Total, MovesMoney
<1>4. CASE kind = "SPEND"
  <2>1. Changed(v, kind, amount) = [token |-> v.token, allowance |-> v.allowance,
          deposited |-> v.deposited, available |-> v.available - amount,
          spent |-> v.spent + amount, withdrawn |-> v.withdrawn]
    BY <1>4 DEF Changed, Money
  <2> QED BY <1>0, <1>4, <2>1 DEF Money, Total, MovesMoney
<1> QED BY <1>1, <1>2, <1>3, <1>4 DEF VaultKind

\* A movement is added to the history, and what was there stays.
LEMMA HistoryGrows ==
    ASSUME MoneyInv, NEW movement \in Movement, history' = Append(history, movement),
           NEW account, NEW from \in 0 .. Len(history)
    PROVE  /\ \A to \in 0 .. Len(history) : Movements(account, from, to)' = Movements(account, from, to)
           /\ Movements(account, from, Len(history))'
                = Movements(account, from, Len(history))
                  \cup (IF movement.account = account /\ MovesMoney(movement.kind)
                        THEN {Len(history) + 1} ELSE {})
           /\ \A n \in 1 .. Len(history) : history'[n] = history[n]
           /\ history'[Len(history) + 1] = movement
           /\ Len(history') = Len(history) + 1
           /\ history' \in Seq(Movement)
<1>0. Len(history) \in Nat
  BY DEF MoneyInv
<1>1. /\ \A n \in 1 .. Len(history) : history'[n] = history[n]
      /\ history'[Len(history) + 1] = movement
      /\ Len(history') = Len(history) + 1
      /\ history' \in Seq(Movement)
  BY DEF MoneyInv
<1>2. \A to \in 0 .. Len(history) : Movements(account, from, to)' = Movements(account, from, to)
  BY <1>0, <1>1 DEF Movements
<1>3. from + 1 .. Len(history) + 1 = (from + 1 .. Len(history)) \cup {Len(history) + 1}
  BY <1>0
<1>4. Movements(account, from, Len(history))'
        = Movements(account, from, Len(history))
          \cup (IF movement.account = account /\ MovesMoney(movement.kind)
                THEN {Len(history) + 1} ELSE {})
  BY <1>0, <1>1, <1>3 DEF Movements, MovesMoney
<1> QED BY <1>1, <1>2, <1>4

\* An entry of what was done.
Listed(e) ==
    /\ e.tx \in DOMAIN signed
    /\ signed[e.tx].state = "final"
    /\ signed[e.tx].kind = e.kind
    /\ e.from \in 0 .. Len(history) /\ e.to \in 0 .. Len(history)
    /\ \A n \in Movements(signed[e.tx].account, e.from, e.to) : history[n].tx = e.tx

\* How the chain moves: what is final stays, what happened stays.
SignedStays ==
    /\ Len(signed) <= Len(signed')
    /\ \A i \in 1 .. Len(signed) :
          /\ signed'[i].account = signed[i].account /\ signed'[i].kind = signed[i].kind
          /\ signed'[i].amount = signed[i].amount
          /\ signed[i].state = "final" => signed'[i].state = "final"

HistoryStays ==
    \/ UNCHANGED history
    \/ \E movement \in Movement : history' = Append(history, movement)

LEMMA ListedStays ==
    ASSUME MoneyInv, MoneyInv', SignedStays, HistoryStays, NEW e, Listed(e)
    PROVE  Listed(e)'
<1>0. PICK account : account = signed[e.tx].account
  OBVIOUS
<1>1. /\ e.tx \in DOMAIN signed' /\ signed'[e.tx].state = "final" /\ signed'[e.tx].kind = e.kind
      /\ signed'[e.tx].account = account
  <2>1. DOMAIN signed = 1 .. Len(signed) /\ DOMAIN signed' = 1 .. Len(signed')
        /\ Len(signed) \in Nat /\ Len(signed') \in Nat
    BY DEF MoneyInv
  <2>2. e.tx \in 1 .. Len(signed) /\ signed[e.tx].state = "final" /\ signed[e.tx].kind = e.kind
    BY <2>1 DEF Listed
  <2> QED BY <1>0, <2>1, <2>2 DEF SignedStays
<1>2. /\ Len(history) \in Nat /\ e.from \in 0 .. Len(history) /\ e.to \in 0 .. Len(history)
      /\ \A n \in Movements(account, e.from, e.to) : history[n].tx = e.tx
  BY <1>0 DEF Listed, MoneyInv
<1>3. /\ e.from \in 0 .. Len(history') /\ e.to \in 0 .. Len(history')
      /\ \A n \in Movements(account, e.from, e.to)' : history'[n].tx = e.tx
  <2>1. CASE UNCHANGED history
    BY <1>2, <2>1 DEF Movements
  <2>2. ASSUME NEW movement \in Movement, history' = Append(history, movement)
        PROVE  /\ e.from \in 0 .. Len(history') /\ e.to \in 0 .. Len(history')
               /\ \A n \in Movements(account, e.from, e.to)' : history'[n].tx = e.tx
    <3>1. /\ Movements(account, e.from, e.to)' = Movements(account, e.from, e.to)
          /\ \A n \in 1 .. Len(history) : history'[n] = history[n]
          /\ Len(history') = Len(history) + 1
      BY <1>2, <2>2, HistoryGrows
    <3>2. Movements(account, e.from, e.to) \subseteq 1 .. Len(history)
      BY <1>2 DEF Movements
    <3> QED BY <1>2, <3>1, <3>2
  <2> QED BY <2>1, <2>2 DEF HistoryStays
<1> QED BY <1>1, <1>3 DEF Listed, Movements
-----------------------------------------------------------------------------
(* The vault's panel: an operation, between the two reads around its         *)
(* transaction.                                                             *)

Since(op) == Movements(op.account, op.before.block, Len(history))
Growth(op) == Total(vault[op.account]) - Total(op.before.money)

\* Every movement since the read shows in the account.
Watching(op) ==
    /\ Growth(op) >= 0
    /\ Since(op) # {} => Growth(op) > 0

\* So does what moved besides the operation's own transaction.
Done(op) ==
    /\ Growth(op) >= op.amount
    /\ (\E n \in Since(op) : history[n].tx # op.tx) => Growth(op) > op.amount

Watched(op) ==
    IF signed[op.tx].state = "final" /\ MovesMoney(Head(op.steps)) THEN Done(op) ELSE Watching(op)

HasRead(op) ==
    /\ op.account \in Account
    /\ op.amount \in Amount
    /\ op.before.money \in Money
    /\ op.before.block \in 0 .. Len(history)

\* One movement, of any account.
Moves(account, kind, amount, tx) ==
    /\ account \in Account /\ kind \in VaultKind /\ amount \in Amount /\ tx \in Nat
    /\ Finalize(account, kind, amount, tx)

LEMMA MoveRecord ==
    ASSUME MoneyInv, NEW account, NEW kind, NEW amount, NEW tx, Moves(account, kind, amount, tx)
    PROVE  /\ [account |-> account, kind |-> kind, tx |-> tx] \in Movement
           /\ history' = Append(history, [account |-> account, kind |-> kind, tx |-> tx])
           /\ vault' \in [Account -> Money]
           /\ \A a \in Account :
                /\ Total(vault[a]) \in Int
                /\ Total(vault'[a]) = Total(vault[a])
                     + (IF a = account /\ MovesMoney(kind) THEN amount ELSE 0)
<1>1. vault[account] \in Money /\ vault' = [vault EXCEPT ![account] = Changed(vault[account], kind, amount)]
  BY DEF Moves, Finalize, MoneyInv
<1>2. \A a \in Account : vault[a] \in Money
  BY DEF MoneyInv
<1>3. \A v \in Money : Total(v) \in Int
  BY DEF Money, Total
<1>4. /\ Changed(vault[account], kind, amount) \in Money
      /\ Total(Changed(vault[account], kind, amount))
           = Total(vault[account]) + (IF MovesMoney(kind) THEN amount ELSE 0)
  BY <1>1, ChangedTotal DEF Moves
<1>5. \A a \in Account : Total(vault'[a]) = Total(vault[a])
                           + (IF a = account /\ MovesMoney(kind) THEN amount ELSE 0)
  BY <1>1, <1>2, <1>3, <1>4 DEF MoneyInv
<1>6. vault' \in [Account -> Money]
  BY <1>1, <1>4 DEF MoneyInv
<1>7. /\ [account |-> account, kind |-> kind, tx |-> tx] \in Movement
      /\ history' = Append(history, [account |-> account, kind |-> kind, tx |-> tx])
  BY DEF Moves, Finalize, Movement
<1> QED BY <1>2, <1>3, <1>5, <1>6, <1>7

LEMMA MoveIsHistory ==
    ASSUME MoneyInv, NEW account, NEW kind, NEW amount, NEW tx, Moves(account, kind, amount, tx)
    PROVE  HistoryStays /\ vault' \in [Account -> Money] /\ history' \in Seq(Movement)
<1>1. PICK movement \in Movement : history' = Append(history, movement)
  BY MoveRecord
<1>2. history' \in Seq(Movement)
  BY <1>1 DEF MoneyInv
<1> QED BY <1>1, <1>2, MoveRecord DEF HistoryStays

\* What the move does to an operation that has read before it.
LEMMA MoveSeen ==
    ASSUME MoneyInv, NEW account, NEW kind, NEW amount, NEW tx, Moves(account, kind, amount, tx),
           NEW op, HasRead(op)
    PROVE  /\ HasRead(op)'
           /\ Growth(op) \in Int /\ amount \in Int /\ amount > 0 /\ op.amount \in Int
           /\ Since(op) \subseteq 1 .. Len(history) /\ Len(history) \in Nat
           /\ \A n \in 1 .. Len(history) : history'[n] = history[n]
           /\ history'[Len(history) + 1].tx = tx
           /\ op.account = account /\ MovesMoney(kind) =>
                Growth(op)' = Growth(op) + amount /\ Since(op)' = Since(op) \cup {Len(history) + 1}
           /\ ~(op.account = account /\ MovesMoney(kind)) =>
                Growth(op)' = Growth(op) /\ Since(op)' = Since(op)
<1> DEFINE movement == [account |-> account, kind |-> kind, tx |-> tx]
<1>1. movement \in Movement /\ history' = Append(history, movement)
  BY MoveRecord
<1> HIDE DEF movement
<1>2. /\ Movements(op.account, op.before.block, Len(history))'
           = Movements(op.account, op.before.block, Len(history))
             \cup (IF movement.account = op.account /\ MovesMoney(movement.kind)
                   THEN {Len(history) + 1} ELSE {})
      /\ \A n \in 1 .. Len(history) : history'[n] = history[n]
      /\ history'[Len(history) + 1] = movement
      /\ Len(history') = Len(history) + 1
  BY <1>1, HistoryGrows DEF HasRead
<1>3. movement.account = account /\ movement.kind = kind /\ movement.tx = tx
  BY DEF movement
<1>4. Total(vault[op.account]) \in Int /\ Total(op.before.money) \in Int
      /\ Total(vault'[op.account]) = Total(vault[op.account])
           + (IF op.account = account /\ MovesMoney(kind) THEN amount ELSE 0)
  <2>1. \A a \in Account :
          /\ Total(vault[a]) \in Int
          /\ Total(vault'[a]) = Total(vault[a])
               + (IF a = account /\ MovesMoney(kind) THEN amount ELSE 0)
    BY MoveRecord
  <2>2. op.before.money \in Money /\ op.account \in Account
    BY DEF HasRead
  <2>3. Total(op.before.money) \in Int
    BY <2>2 DEF Money, Total
  <2> QED BY <2>1, <2>2, <2>3
<1>5. amount \in Int /\ amount > 0 /\ op.amount \in Int
  BY AmountsArePositive DEF Moves, HasRead
<1>6. Since(op) \subseteq 1 .. Len(history) /\ Len(history) \in Nat
  BY DEF Since, Movements, MoneyInv, HasRead
<1>7. HasRead(op)'
  BY <1>2, <1>6 DEF HasRead
<1> QED BY <1>2, <1>3, <1>4, <1>5, <1>6, <1>7 DEF Growth, Since

LEMMA WatchingStays ==
    ASSUME MoneyInv, NEW account, NEW kind, NEW amount, NEW tx, Moves(account, kind, amount, tx),
           NEW op, HasRead(op), Watching(op)
    PROVE  Watching(op)'
BY MoveSeen DEF Watching

LEMMA DoneStays ==
    ASSUME MoneyInv, NEW account, NEW kind, NEW amount, NEW tx, Moves(account, kind, amount, tx),
           NEW op, HasRead(op), Done(op)
    PROVE  Done(op)'
<1>0. /\ Growth(op) \in Int /\ amount \in Int /\ amount > 0 /\ op.amount \in Int
      /\ Since(op) \subseteq 1 .. Len(history)
      /\ \A n \in 1 .. Len(history) : history'[n] = history[n]
  BY MoveSeen
<1>1. CASE op.account = account /\ MovesMoney(kind)
  <2>1. Growth(op)' = Growth(op) + amount
    BY <1>1, MoveSeen
  <2> QED BY <1>0, <2>1 DEF Done
<1>2. CASE ~(op.account = account /\ MovesMoney(kind))
  <2>1. Growth(op)' = Growth(op) /\ Since(op)' = Since(op)
    BY <1>2, MoveSeen
  <2> QED BY <1>0, <2>1 DEF Done
<1> QED BY <1>1, <1>2

\* The operation's own transaction becomes final.
LEMMA DoneBegins ==
    ASSUME MoneyInv, NEW op, HasRead(op), Watching(op), MovesMoney(Head(op.steps)),
           Moves(op.account, Head(op.steps), op.amount, op.tx)
    PROVE  Done(op)'
<1>1. /\ Growth(op)' = Growth(op) + op.amount /\ Since(op)' = Since(op) \cup {Len(history) + 1}
      /\ \A n \in 1 .. Len(history) : history'[n] = history[n]
      /\ history'[Len(history) + 1].tx = op.tx
      /\ Growth(op) \in Int /\ op.amount \in Int /\ Since(op) \subseteq 1 .. Len(history)
  BY MoveSeen
<1> QED BY <1>1 DEF Done, Watching

\* A success is verified: nothing else moved.
LEMMA VerifiedAlone ==
    ASSUME MoneyInv, NEW op, HasRead(op), Watched(op), Head(op.steps) \in VaultKind,
           signed[op.tx].state = "final",
           verifyVaultPostcondition(Head(op.steps), op.amount, op.before.money, vault[op.account])
    PROVE  \A n \in Since(op) : history[n].tx = op.tx
<1> DEFINE v == op.before.money
           w == vault[op.account]
<1>0. v \in Money /\ w \in Money /\ op.amount \in Int /\ op.amount > 0
  BY AmountsArePositive DEF HasRead, MoneyInv
<1>1. Total(v) \in Int /\ Total(w) \in Int
  BY <1>0 DEF Money, Total
<1> HIDE DEF v, w
<1>2. CASE Head(op.steps) = "APPROVE"
  <2>1. w = [v EXCEPT !.allowance = op.amount]
    BY <1>2 DEF verifyVaultPostcondition, v, w
  <2>2. Total(w) = Total(v)
    BY <1>0, <2>1 DEF Money, Total
  <2>3. Growth(op) = 0
    BY <1>1, <2>2 DEF Growth, v, w
  <2> QED BY <1>2, <2>3 DEF Watched, Watching, MovesMoney
<1>3. CASE Head(op.steps) # "APPROVE"
  <2> DEFINE x == Changed(v, Head(op.steps), op.amount)
  <2>1. x \in Money /\ Total(x) = Total(v) + op.amount
    BY <1>0, <1>3, ChangedTotal DEF MovesMoney, HasRead
  <2>2. [w EXCEPT !.allowance = 0] = [x EXCEPT !.allowance = 0]
    BY <1>3 DEF verifyVaultPostcondition, v, w
  <2> HIDE DEF x
  <2>3. w.deposited = x.deposited /\ w.spent = x.spent /\ w.withdrawn = x.withdrawn
    <3>1. \A y \in Money : /\ [y EXCEPT !.allowance = 0].deposited = y.deposited
                           /\ [y EXCEPT !.allowance = 0].spent = y.spent
                           /\ [y EXCEPT !.allowance = 0].withdrawn = y.withdrawn
      BY DEF Money
    <3> QED BY <1>0, <2>1, <2>2, <3>1
  <2>4. Growth(op) = op.amount
    BY <1>0, <1>1, <2>1, <2>3 DEF Growth, Total, v, w
  <2> QED BY <1>0, <1>3, <2>4 DEF Watched, Done, MovesMoney
<1> QED BY <1>2, <1>3
-----------------------------------------------------------------------------
(* The vault's panel: its invariant and its steps.                           *)

PlanStep == {"APPROVE", "DEPOSIT", "WITHDRAW"}

Record(op) == op = [at |-> op.at, account |-> op.account, amount |-> op.amount, steps |-> op.steps,
                    before |-> op.before, tx |-> op.tx, completed |-> op.completed]

Underway(op) ==
    /\ Record(op)
    /\ op.account \in Account
    /\ op.amount \in Amount
    /\ op.steps \in Seq(PlanStep) /\ op.steps # <<>>
    /\ op.completed \in Seq(Entry)
    /\ \A i \in DOMAIN op.completed : Listed(op.completed[i])
    /\ op.at \in {"prompt", "receipt"} => HasRead(op)
    /\ op.at = "prompt" => Watching(op)
    /\ op.at = "receipt" =>
          /\ op.tx \in DOMAIN signed
          /\ signed[op.tx].account = op.account
          /\ signed[op.tx].kind = Head(op.steps)
          /\ signed[op.tx].amount = op.amount
          /\ Watched(op)

VaultInv ==
    /\ MoneyInv
    /\ operations = [o \in Operation |-> operations[o]]
    /\ \A o \in Operation : operations[o] # NoOperation => Underway(operations[o])
    /\ vaultTransactionState.completed \in Seq(Entry)
    /\ \A i \in DOMAIN vaultTransactionState.completed : Listed(vaultTransactionState.completed[i])

LEMMA VaultStarts == Init => VaultInv
<1> SUFFICES ASSUME VaultInit PROVE VaultInv
  BY DEF Init
<1>1. MoneyInv
  BY AmountAssumption DEF VaultInit, MoneyInv, Money
<1>2. vaultTransactionState.completed = <<>>
  BY DEF VaultInit, VaultState
<1>3. DOMAIN vaultTransactionState.completed = {}
  BY <1>2
<1>4. vaultTransactionState.completed \in Seq(Entry)
  BY <1>2
<1>5. operations = [o \in Operation |-> NoOperation]
  BY DEF VaultInit
<1>6. /\ operations = [o \in Operation |-> operations[o]]
      /\ \A o \in Operation : operations[o] = NoOperation
  BY <1>5
<1> QED BY <1>1, <1>3, <1>4, <1>6 DEF VaultInv

\* An operation under way stays so when something moves, or a transaction
\* other than its own is signed or reverts.
LEMMA UnderwayStays ==
    ASSUME MoneyInv, MoneyInv', SignedStays, NEW op, Underway(op),
           \/ UNCHANGED <<vault, history>>
           \/ \E account, kind, amount, tx : Moves(account, kind, amount, tx),
           \/ op.at # "receipt"
           \/ signed'[op.tx].state = "final" => signed[op.tx].state = "final"
    PROVE  Underway(op)'
<1>1. HistoryStays
  BY MoveIsHistory DEF HistoryStays
<1>2. \A i \in DOMAIN op.completed : Listed(op.completed[i])'
  BY <1>1, ListedStays DEF Underway
<1>3. op.at \in {"prompt", "receipt"} => HasRead(op)'
  BY MoveSeen DEF Underway, HasRead
<1>4. op.at \in {"prompt", "receipt"} /\ Watching(op) => Watching(op)'
  BY WatchingStays DEF Underway, Watching, Growth, Since, Movements
<1>5. op.at \in {"prompt", "receipt"} /\ Done(op) => Done(op)'
  BY DoneStays DEF Underway, Done, Growth, Since, Movements
<1>6. ASSUME op.at = "receipt"
      PROVE  /\ op.tx \in DOMAIN signed' /\ Watched(op)'
             /\ signed'[op.tx].account = op.account
             /\ signed'[op.tx].kind = Head(op.steps)
             /\ signed'[op.tx].amount = op.amount
  <2>1. DOMAIN signed = 1 .. Len(signed) /\ DOMAIN signed' = 1 .. Len(signed')
        /\ Len(signed) \in Nat /\ Len(signed') \in Nat
    BY DEF MoneyInv
  <2>2. op.tx \in 1 .. Len(signed)
    BY <1>6, <2>1 DEF Underway
  <2>3. signed'[op.tx].state = "final" <=> signed[op.tx].state = "final"
    BY <1>6, <2>2 DEF SignedStays
  <2>4. Watched(op)'
    BY <1>4, <1>5, <1>6, <2>3 DEF Underway, Watched
  <2> QED BY <1>6, <2>1, <2>2, <2>4 DEF Underway, SignedStays
<1> QED BY <1>2, <1>3, <1>4, <1>6 DEF Underway, Record

\* What the chain does by itself, or is asked to do elsewhere.
LEMMA ChainKeepsVault ==
    ASSUME VaultInv, MoneyInv', SignedStays, UNCHANGED <<vaultTransactionState, operations>>,
           \A o \in Operation : operations[o] # NoOperation => Underway(operations[o])',
           HistoryStays
    PROVE  VaultInv'
<1>1. \A i \in DOMAIN vaultTransactionState.completed : Listed(vaultTransactionState.completed[i])'
  BY ListedStays DEF VaultInv
<1> QED BY <1>1 DEF VaultInv

LEMMA ElsewhereKeepsVault ==
    ASSUME VaultInv, Elsewhere
    PROVE  VaultInv'
<1>1. PICK o \in Operation, amount \in Amount, kind \in VaultKind :
        /\ operations[o] # NoOperation
        /\ Finalize(operations[o].account, kind, amount, 0)
  BY DEF Elsewhere, VaultKind
<1>2. PICK account \in Account : Moves(account, kind, amount, 0)
  BY <1>1 DEF VaultInv, Underway, Moves
<1>3. UNCHANGED <<signed, vaultTransactionState, operations>>
  BY DEF Elsewhere
<1>4. SignedStays /\ HistoryStays /\ MoneyInv'
  BY <1>2, <1>3, MoveIsHistory DEF VaultInv, MoneyInv, SignedStays
<1>5. \A q \in Operation : operations[q] # NoOperation => Underway(operations[q])'
  <2> SUFFICES ASSUME NEW q \in Operation, operations[q] # NoOperation
               PROVE  Underway(operations[q])'
    OBVIOUS
  <2>1. PICK op : op = operations[q]
    OBVIOUS
  <2>2. Underway(op)'
    BY <1>2, <1>3, <1>4, <2>1, UnderwayStays DEF VaultInv
  <2> QED BY <1>3, <2>1, <2>2
<1> QED BY <1>3, <1>4, <1>5, ChainKeepsVault

LEMMA MiningKeepsVault ==
    ASSUME VaultInv, MineSigned
    PROVE  VaultInv'
<1>1. PICK i \in DOMAIN signed :
        /\ signed[i].state = "pending"
        /\ \/ /\ signed' = [signed EXCEPT ![i].state = "final"]
              /\ Finalize(signed[i].account, signed[i].kind, signed[i].amount, i)
           \/ /\ signed' = [signed EXCEPT ![i].state = "reverted"]
              /\ UNCHANGED <<vault, history>>
  BY DEF MineSigned
<1>2. UNCHANGED <<vaultTransactionState, operations>>
  BY DEF MineSigned
<1>3. /\ i \in 1 .. Len(signed) /\ Len(signed) \in Nat /\ signed \in Seq(VaultTransaction)
      /\ signed[i] \in VaultTransaction
  BY DEF VaultInv, MoneyInv
<1>4. PICK state \in {"final", "reverted"} : signed' = [signed EXCEPT ![i].state = state]
  BY <1>1
<1>5. /\ signed' \in Seq(VaultTransaction) /\ Len(signed') = Len(signed)
      /\ \A j \in 1 .. Len(signed) :
           /\ signed'[j].account = signed[j].account /\ signed'[j].kind = signed[j].kind
           /\ signed'[j].amount = signed[j].amount
           /\ signed'[j].state = IF j = i THEN state ELSE signed[j].state
  BY <1>3, <1>4 DEF VaultTransaction, TransactionState
<1>6. SignedStays
  BY <1>1, <1>3, <1>5 DEF SignedStays
<1>7. CASE state = "reverted"
  <2>1. UNCHANGED <<vault, history>> /\ HistoryStays
    <3>1. signed'[i].state # "final"
      BY <1>3, <1>5, <1>7
    <3>2. signed' # [signed EXCEPT ![i].state = "final"]
      BY <1>3, <3>1 DEF VaultTransaction
    <3> QED BY <1>1, <3>2 DEF HistoryStays
  <2>2. MoneyInv'
    BY <1>5, <2>1 DEF VaultInv, MoneyInv
  <2>3. \A j \in 1 .. Len(signed) : signed'[j].state = "final" => signed[j].state = "final"
    BY <1>5, <1>7
  <2>4. ASSUME NEW q \in Operation, operations[q] # NoOperation PROVE Underway(operations[q])'
    <3>1. PICK op : op = operations[q]
      OBVIOUS
    <3>2. Underway(op) /\ (op.at = "receipt" => op.tx \in 1 .. Len(signed))
      BY <1>3, <2>4, <3>1 DEF VaultInv, Underway
    <3>3. Underway(op)'
      BY <1>6, <2>1, <2>2, <2>3, <3>2, UnderwayStays DEF VaultInv
    <3> QED BY <1>2, <3>1, <3>3
  <2> QED BY <1>2, <1>6, <2>1, <2>2, <2>4, ChainKeepsVault
<1>8. CASE state = "final"
  <2>1. Finalize(signed[i].account, signed[i].kind, signed[i].amount, i)
    <3>1. signed' # [signed EXCEPT ![i].state = "reverted"]
      BY <1>3, <1>5, <1>8 DEF VaultTransaction
    <3> QED BY <1>1, <3>1
  <2>2. PICK account \in Account, kind \in VaultKind, amount \in Amount :
          account = signed[i].account /\ kind = signed[i].kind /\ amount = signed[i].amount
    BY <1>3 DEF VaultTransaction
  <2>3. Moves(account, kind, amount, i)
    BY <1>3, <2>1, <2>2 DEF Moves
  <2>4. HistoryStays /\ MoneyInv'
    BY <1>5, <2>3, MoveIsHistory DEF VaultInv, MoneyInv
  <2>5. ASSUME NEW q \in Operation, operations[q] # NoOperation PROVE Underway(operations[q])'
    <3>1. PICK op : op = operations[q]
      OBVIOUS
    <3>2. Underway(op)
      BY <2>5, <3>1 DEF VaultInv
    <3>3. CASE op.at # "receipt" \/ op.tx # i
      <4>1. op.at = "receipt" => signed'[op.tx].state = signed[op.tx].state
        BY <1>3, <1>5, <3>2, <3>3 DEF Underway
      <4>2. Underway(op)'
        BY <1>6, <2>3, <2>4, <3>2, <4>1, UnderwayStays DEF VaultInv
      <4> QED BY <1>2, <3>1, <4>2
    <3>4. CASE op.at = "receipt" /\ op.tx = i
      <4>1. /\ HasRead(op) /\ Watching(op) /\ op.account = account /\ op.amount = amount
            /\ Head(op.steps) = kind
        BY <1>1, <2>2, <3>2, <3>4 DEF Underway, Watched
      <4>2. MovesMoney(kind) => Done(op)'
        BY <2>3, <3>4, <4>1, DoneBegins DEF VaultInv
      <4>3. Watching(op)' /\ HasRead(op)'
        BY <2>3, <4>1, WatchingStays, MoveSeen DEF VaultInv
      <4>4. Watched(op)'
        BY <4>1, <4>2, <4>3 DEF Watched
      <4>5. \A j \in DOMAIN op.completed : Listed(op.completed[j])'
        BY <1>6, <2>4, <3>2, ListedStays DEF VaultInv, Underway
      <4>6. Underway(op)'
        BY <1>3, <1>5, <3>2, <3>4, <4>3, <4>4, <4>5 DEF Underway, Record
      <4> QED BY <1>2, <3>1, <4>6
    <3> QED BY <3>3, <3>4
  <2> QED BY <1>2, <1>6, <2>4, <2>5, ChainKeepsVault
<1> QED BY <1>7, <1>8

\* An operation begins, goes on or ends; the others go on as they were.
LEMMA OperationMoves ==
    ASSUME VaultInv, MoneyInv', SignedStays, UNCHANGED <<vault, history>>,
           \A i \in 1 .. Len(signed) : signed'[i].state = "final" => signed[i].state = "final",
           NEW o \in Operation, NEW op,
           operations' = [operations EXCEPT ![o] = op],
           op = NoOperation \/ Underway(op)',
           vaultTransactionState'.completed \in Seq(Entry),
           (\A i \in DOMAIN vaultTransactionState.completed :
               Listed(vaultTransactionState.completed[i]))'
    PROVE  VaultInv'
<1>1. \A q \in Operation : operations'[q] = IF q = o THEN op ELSE operations[q]
  BY DEF VaultInv
<1>2. operations' = [q \in Operation |-> operations'[q]]
  BY DEF VaultInv
<1>3. ASSUME NEW q \in Operation, q # o, operations[q] # NoOperation PROVE Underway(operations[q])'
  <2>1. PICK op0 : op0 = operations[q]
    OBVIOUS
  <2>2. Underway(op0) /\ (op0.at = "receipt" => op0.tx \in 1 .. Len(signed))
    BY <1>3, <2>1 DEF VaultInv, Underway, MoneyInv
  <2>3. Underway(op0)'
    BY <2>2, UnderwayStays DEF VaultInv
  <2> QED BY <1>1, <1>3, <2>1, <2>3
<1>4. \A q \in Operation : operations'[q] # NoOperation => Underway(operations[q])'
  BY <1>1, <1>3
<1> QED BY <1>2, <1>4 DEF VaultInv

\* When the chain stands still, every entry stands.
LEMMA StillStands ==
    ASSUME VaultInv, UNCHANGED <<vault, history, signed>>
    PROVE  /\ MoneyInv' /\ SignedStays /\ HistoryStays
           /\ \A i \in 1 .. Len(signed) : signed'[i].state = "final" => signed[i].state = "final"
           /\ \A e : Listed(e) => Listed(e)'
           /\ \A op : Underway(op) => Underway(op)'
<1>1. MoneyInv' /\ SignedStays /\ HistoryStays
      /\ \A i \in 1 .. Len(signed) : signed'[i].state = "final" => signed[i].state = "final"
  BY DEF VaultInv, MoneyInv, SignedStays, HistoryStays
<1>2. \A e : Listed(e) => Listed(e)'
  BY <1>1, ListedStays DEF VaultInv
<1>3. ASSUME NEW op, Underway(op) PROVE Underway(op)'
  BY <1>1, <1>3, UnderwayStays DEF VaultInv
<1> QED BY <1>1, <1>2, <1>3

LEMMA StillKeepsVault ==
    ASSUME VaultInv, UNCHANGED <<vault, history, signed, operations>>,
           vaultTransactionState'.completed = <<>> \/ UNCHANGED vaultTransactionState
    PROVE  VaultInv'
<1>1. CASE UNCHANGED vaultTransactionState
  <2>1. \A o \in Operation : operations[o] # NoOperation => Underway(operations[o])'
    <3> SUFFICES ASSUME NEW o \in Operation, operations[o] # NoOperation PROVE Underway(operations[o])'
      OBVIOUS
    <3>1. PICK op : op = operations[o]
      OBVIOUS
    <3>2. Underway(op)'
      BY <3>1, StillStands DEF VaultInv
    <3> QED BY <3>1, <3>2
  <2> QED BY <1>1, <2>1, StillStands, ChainKeepsVault
<1>2. CASE vaultTransactionState'.completed = <<>>
  <2>1. \A o \in Operation : operations'[o] # NoOperation => Underway(operations[o])'
    <3> SUFFICES ASSUME NEW o \in Operation, operations[o] # NoOperation PROVE Underway(operations[o])'
      OBVIOUS
    <3>1. PICK op : op = operations[o]
      OBVIOUS
    <3>2. Underway(op)'
      BY <3>1, StillStands DEF VaultInv
    <3> QED BY <3>1, <3>2
  <2>2. /\ vaultTransactionState'.completed \in Seq(Entry)
        /\ DOMAIN vaultTransactionState'.completed = {}
    BY <1>2
  <2>3. operations' = [o \in Operation |-> operations'[o]]
    BY DEF VaultInv
  <2> QED BY <2>1, <2>2, <2>3, StillStands DEF VaultInv
<1> QED BY <1>1, <1>2

LEMMA PreparationKeepsVault ==
    ASSUME SessionInv, VaultInv, NEW o \in Operation, NEW action \in {"DEPOSIT", "WITHDRAW"},
           NEW amount \in Amount, prepareVaultTransaction(o, action, amount)
    PROVE  VaultInv'
<1>1. PICK plan : plan = planVaultUserAction(action, amount, coston2State.snapshot.money)
  OBVIOUS
<1>2. UNCHANGED <<vault, history, signed>> /\ vaultTransactionState'.completed = <<>>
  BY DEF prepareVaultTransaction, VaultState
<1>3. <<"WITHDRAW">> \in Seq(PlanStep) /\ <<"APPROVE", "DEPOSIT">> \in Seq(PlanStep)
      /\ <<"DEPOSIT">> \in Seq(PlanStep) /\ <<>> \in Seq(PlanStep)
  BY DEF PlanStep
<1>4. plan \in Seq(PlanStep)
  BY <1>1, <1>3 DEF planVaultUserAction
<1>5. CASE plan # <<>> /\ Connected
  <2>1. PICK op :
          op = [at |-> "before", account |-> walletState.account, amount |-> amount, steps |-> plan,
                before |-> NoSnapshot, tx |-> 0, completed |-> <<>>]
    OBVIOUS
  <2>2. operations' = [operations EXCEPT ![o] = op]
    BY <1>1, <1>5, <2>1 DEF prepareVaultTransaction
  <2>3. DOMAIN op.completed = {} /\ op.completed \in Seq(Entry) /\ op.account \in Account
    BY <1>5, <2>1 DEF SessionInv
  <2>4. Underway(op)'
    BY <1>4, <1>5, <2>1, <2>3 DEF Underway, Record
  <2>5. /\ vaultTransactionState'.completed \in Seq(Entry)
        /\ DOMAIN vaultTransactionState'.completed = {}
    BY <1>2
  <2> QED BY <1>2, <2>2, <2>4, <2>5, StillStands, OperationMoves
<1>6. CASE ~(plan # <<>> /\ Connected)
  BY <1>1, <1>2, <1>6, StillKeepsVault DEF prepareVaultTransaction
<1> QED BY <1>5, <1>6

LEMMA ReadingKeepsVault ==
    ASSUME VaultInv, NEW o \in Operation, ReadBefore(o)
    PROVE  VaultInv'
<1>1. PICK op : op = operations[o]
  OBVIOUS
<1>2. PICK before : before = loadCoston2AccountSnapshot(op.account)
  OBVIOUS
<1>3. /\ operations[o] # NoOperation /\ op.at = "before"
      /\ operations' = [operations EXCEPT ![o] = [op EXCEPT !.at = "prompt", !.before = before]]
      /\ UNCHANGED <<vault, history, signed, vaultTransactionState>>
  BY <1>1, <1>2 DEF ReadBefore, NoOperation
<1>4. Underway(op)
  BY <1>1, <1>3 DEF VaultInv
<1>5. PICK next : next = [at |-> "prompt", account |-> op.account, amount |-> op.amount,
                          steps |-> op.steps, before |-> before, tx |-> op.tx,
                          completed |-> op.completed]
  OBVIOUS
<1>6. [op EXCEPT !.at = "prompt", !.before = before] = next
  <2>1. PICK asked : asked = [op EXCEPT !.at = "prompt"]
    OBVIOUS
  <2>2. asked = [at |-> "prompt", account |-> op.account, amount |-> op.amount, steps |-> op.steps,
                 before |-> op.before, tx |-> op.tx, completed |-> op.completed]
    BY <1>4, <2>1 DEF Underway, Record
  <2>3. [asked EXCEPT !.before = before] = next
    BY <1>5, <2>2
  <2> QED BY <2>1, <2>3
<1>7. /\ before.money = vault[op.account] /\ before.block = Len(history)
      /\ before.money \in Money /\ Len(history) \in Nat
  BY <1>2, <1>4 DEF loadCoston2AccountSnapshot, VaultInv, MoneyInv, Underway
<1>8. HasRead(next)
  BY <1>4, <1>5, <1>7 DEF HasRead, Underway
<1>9. Watching(next)
  <2>1. Since(next) = {} /\ Growth(next) = 0
    BY <1>5, <1>7 DEF Since, Movements, Growth, Money, Total
  <2> QED BY <2>1 DEF Watching
<1>10. Underway(next)
  BY <1>4, <1>5, <1>8, <1>9 DEF Underway, Record
<1>11. Underway(next)' /\ VaultInv!4' /\ VaultInv!5'
  BY <1>3, <1>10, StillStands DEF VaultInv
<1> QED BY <1>3, <1>6, <1>11, StillStands, OperationMoves

LEMMA SigningKeepsVault ==
    ASSUME VaultInv, NEW o \in Operation, executeVaultTransaction(o)
    PROVE  VaultInv'
<1>1. PICK op : op = operations[o]
  OBVIOUS
<1>2. PICK tx : tx = [account |-> op.account, kind |-> Head(op.steps), amount |-> op.amount,
                      state |-> "pending"]
  OBVIOUS
<1>3. PICK i : i = Len(signed) + 1
  OBVIOUS
<1>4. /\ operations[o] # NoOperation /\ op.at = "prompt"
      /\ signed' = Append(signed, tx)
      /\ operations' = [operations EXCEPT ![o] = [op EXCEPT !.at = "receipt", !.tx = i]]
      /\ UNCHANGED <<vault, history, vaultTransactionState>>
  BY <1>1, <1>2, <1>3 DEF executeVaultTransaction, NoOperation
<1>5. Underway(op) /\ HasRead(op) /\ Watching(op)
  BY <1>1, <1>4 DEF VaultInv, Underway
<1>6. Head(op.steps) \in PlanStep /\ PlanStep \subseteq VaultKind
  BY <1>5 DEF Underway, PlanStep, VaultKind
<1>7. tx \in VaultTransaction
  BY <1>2, <1>5, <1>6 DEF VaultTransaction, TransactionState, Underway
<1>8. /\ signed' \in Seq(VaultTransaction) /\ Len(signed') = Len(signed) + 1
      /\ i \in 1 .. Len(signed') /\ signed'[i] = tx
      /\ \A j \in 1 .. Len(signed) : signed'[j] = signed[j]
  BY <1>3, <1>4, <1>7 DEF VaultInv, MoneyInv
<1>9. /\ MoneyInv' /\ SignedStays /\ HistoryStays
      /\ \A j \in 1 .. Len(signed) : signed'[j].state = "final" => signed[j].state = "final"
  BY <1>4, <1>8 DEF VaultInv, MoneyInv, SignedStays, HistoryStays
<1>10. PICK next : next = [at |-> "receipt", account |-> op.account, amount |-> op.amount,
                           steps |-> op.steps, before |-> op.before, tx |-> i,
                           completed |-> op.completed]
  OBVIOUS
<1>11. [op EXCEPT !.at = "receipt", !.tx = i] = next
  <2>1. PICK asked : asked = [op EXCEPT !.at = "receipt"]
    OBVIOUS
  <2>2. asked = [at |-> "receipt", account |-> op.account, amount |-> op.amount, steps |-> op.steps,
                 before |-> op.before, tx |-> op.tx, completed |-> op.completed]
    BY <1>5, <2>1 DEF Underway, Record
  <2>3. [asked EXCEPT !.tx = i] = next
    BY <1>10, <2>2
  <2> QED BY <2>1, <2>3
<1>12. \A e : Listed(e) => Listed(e)'
  BY <1>9, ListedStays DEF VaultInv
<1>13. HasRead(next)' /\ Watching(next)'
  BY <1>4, <1>5, <1>10 DEF HasRead, Watching, Growth, Since, Movements
<1>14. /\ i \in DOMAIN signed' /\ signed'[i].state # "final"
       /\ signed'[i].account = op.account /\ signed'[i].kind = Head(op.steps)
       /\ signed'[i].amount = op.amount
  BY <1>2, <1>8
<1>15. Underway(next)'
  BY <1>5, <1>10, <1>12, <1>13, <1>14 DEF Underway, Record, Watched
<1>16. VaultInv!4' /\ VaultInv!5'
  BY <1>4, <1>12 DEF VaultInv
<1> QED BY <1>4, <1>9, <1>11, <1>15, <1>16, OperationMoves

LEMMA TailOfLonger ==
    ASSUME NEW S, NEW s \in Seq(S), Len(s) > 1
    PROVE  Tail(s) \in Seq(S) /\ Tail(s) # <<>>
<1>1. PICK left : left = Tail(s)
  OBVIOUS
<1>2. s # <<>>
  BY EmptySeq
<1>3. left \in Seq(S) /\ Len(left) = Len(s) - 1 /\ Len(s) \in Nat
  BY <1>1, <1>2, HeadTailProperties
<1>4. Len(left) # 0
  BY <1>3, SMTT(30)
<1>5. left # <<>>
  BY <1>4, EmptySeq
<1> QED BY <1>1, <1>3, <1>5

LEMMA CompletedReplaced ==
    ASSUME NEW at, NEW account, NEW amount, NEW steps, NEW before, NEW tx, NEW completed, NEW done
    PROVE  [[at |-> at, account |-> account, amount |-> amount, steps |-> steps, before |-> before,
             tx |-> tx, completed |-> completed] EXCEPT !.completed = done] =
           [at |-> at, account |-> account, amount |-> amount, steps |-> steps, before |-> before,
            tx |-> tx, completed |-> done]
  OBVIOUS

LEMMA VerificationKeepsVault ==
    ASSUME VaultInv, NEW o \in Operation, Verified(o)
    PROVE  VaultInv'
<1>1. PICK op : op = operations[o]
  OBVIOUS
<1>2. PICK entry : entry = [kind |-> Head(op.steps), tx |-> op.tx, from |-> op.before.block,
                            to |-> Len(history)]
  OBVIOUS
<1>3. PICK done : done = Append(op.completed, entry)
  OBVIOUS
<1>4. /\ operations[o] # NoOperation /\ op.at = "receipt"
      /\ signed[op.tx].state = "final"
      /\ verifyVaultPostcondition(Head(op.steps), op.amount, op.before.money, vault[op.account])
      /\ vaultTransactionState'.completed = done
      /\ \/ Len(op.steps) > 1
            /\ operations' = [operations EXCEPT
                  ![o] = [op EXCEPT !.at = "before", !.steps = Tail(op.steps), !.completed = done]]
         \/ operations' = [operations EXCEPT ![o] = NoOperation]
      /\ UNCHANGED <<vault, history, signed>>
  BY <1>1, <1>2, <1>3 DEF Verified, VaultState, waitForFinalizedReceipt, NoOperation
<1>5. Underway(op) /\ HasRead(op) /\ Watched(op) /\ Head(op.steps) \in VaultKind
  BY <1>1, <1>4 DEF VaultInv, Underway, PlanStep, VaultKind
<1>6. entry \in Entry /\ Listed(entry)
  <2>1. \A n \in Since(op) : history[n].tx = op.tx
    BY <1>4, <1>5, VerifiedAlone DEF VaultInv
  <2>2. op.tx \in DOMAIN signed /\ signed[op.tx].account = op.account
        /\ signed[op.tx].kind = Head(op.steps)
    BY <1>4, <1>5 DEF Underway
  <2>3. op.tx \in Nat /\ Len(history) \in Nat /\ op.before.block \in 0 .. Len(history)
    BY <1>5, <2>2 DEF HasRead, VaultInv, MoneyInv
  <2> QED BY <1>2, <1>4, <1>5, <2>1, <2>2, <2>3 DEF Listed, Entry, Since
<1>7. done \in Seq(Entry) /\ \A i \in DOMAIN done : Listed(done[i])
  BY <1>3, <1>5, <1>6 DEF Underway
<1>8. (\A i \in DOMAIN vaultTransactionState.completed : Listed(vaultTransactionState.completed[i]))'
      /\ vaultTransactionState'.completed \in Seq(Entry)
  BY <1>4, <1>7, StillStands
<1>9. CASE operations' = [operations EXCEPT ![o] = NoOperation]
  BY <1>4, <1>8, <1>9, StillStands, OperationMoves
<1>10. CASE /\ Len(op.steps) > 1
            /\ operations' = [operations EXCEPT
                  ![o] = [op EXCEPT !.at = "before", !.steps = Tail(op.steps), !.completed = done]]
  <2>1. PICK next : next = [at |-> "before", account |-> op.account, amount |-> op.amount,
                            steps |-> Tail(op.steps), before |-> op.before, tx |-> op.tx,
                            completed |-> done]
    OBVIOUS
  <2>2. [op EXCEPT !.at = "before", !.steps = Tail(op.steps), !.completed = done] = next
    <3>1. PICK asked : asked = [op EXCEPT !.at = "before"]
      OBVIOUS
    <3>2. PICK rest : rest = [asked EXCEPT !.steps = Tail(op.steps)]
      OBVIOUS
    <3>3. asked = [at |-> "before", account |-> op.account, amount |-> op.amount,
                   steps |-> op.steps, before |-> op.before, tx |-> op.tx,
                   completed |-> op.completed]
      BY <1>5, <3>1 DEF Underway, Record
    <3>4. PICK left : left = Tail(op.steps)
      OBVIOUS
    <3>5. rest = [at |-> "before", account |-> op.account, amount |-> op.amount,
                  steps |-> left, before |-> op.before, tx |-> op.tx,
                  completed |-> op.completed]
      BY <3>2, <3>3, <3>4
    <3>6. next = [at |-> "before", account |-> op.account, amount |-> op.amount,
                  steps |-> left, before |-> op.before, tx |-> op.tx, completed |-> done]
      BY <2>1, <3>4
    <3>7. [rest EXCEPT !.completed = done] = next
      BY <3>5, <3>6, CompletedReplaced
    <3> QED BY <3>1, <3>2, <3>7
  <2>3. Tail(op.steps) \in Seq(PlanStep) /\ Tail(op.steps) # <<>>
    <3>1. op.steps \in Seq(PlanStep) /\ Len(op.steps) > 1
      BY <1>5, <1>10 DEF Underway
    <3> QED BY <3>1, TailOfLonger
  <2>4. Underway(next)
    BY <1>5, <1>7, <2>1, <2>3 DEF Underway, Record
  <2>5. Underway(next)'
    BY <1>4, <2>4, StillStands
  <2> QED BY <1>4, <1>8, <1>10, <2>2, <2>5, StillStands, OperationMoves
<1> QED BY <1>4, <1>9, <1>10

LEMMA FailureKeepsVault ==
    ASSUME VaultInv, NEW o \in Operation, OperationFails(o)
    PROVE  VaultInv'
<1>1. PICK op : op = operations[o]
  OBVIOUS
<1>2. /\ Underway(op)
      /\ operations' = [operations EXCEPT ![o] = NoOperation]
      /\ vaultTransactionState'.completed = op.completed
      /\ UNCHANGED <<vault, history, signed>>
  BY <1>1 DEF OperationFails, VaultState, VaultInv
<1>3. (\A i \in DOMAIN vaultTransactionState.completed : Listed(vaultTransactionState.completed[i]))'
      /\ vaultTransactionState'.completed \in Seq(Entry)
  BY <1>2, StillStands DEF Underway
<1> QED BY <1>2, <1>3, StillStands, OperationMoves

LEMMA VaultKept ==
    ASSUME SessionInv, VaultInv, [Next]_webVars
    PROVE  VaultInv'
<1>1. CASE UNCHANGED vaultWebVars
  BY <1>1, StillKeepsVault DEF vaultWebVars
<1>2. CASE UNCHANGED webVars
  BY <1>2, StillKeepsVault DEF webVars, vaultWebVars
<1>3. CASE walletChanged
  BY <1>3, StillKeepsVault DEF walletChanged, VaultPanelReset, VaultState
<1>4. CASE VaultStep
  <2>1. CASE AmountEdited
    BY <2>1, StillKeepsVault DEF AmountEdited, VaultState
  <2> QED BY <1>4, <2>1, ElsewhereKeepsVault, MiningKeepsVault, PreparationKeepsVault,
             ReadingKeepsVault, SigningKeepsVault, VerificationKeepsVault, FailureKeepsVault
          DEF VaultStep
<1> QED BY <1>1, <1>2, <1>3, <1>4 DEF Next

-----------------------------------------------------------------------------
(* The page.                                                                *)

WebInv == SessionInv /\ ChainInv /\ DeskInv /\ StudioInv /\ VaultInv

LEMMA PageStarts == Init => WebInv
BY SessionStarts, DeskStarts, StudioStarts, VaultStarts DEF WebInv

LEMMA PageKept == WebInv /\ [Next]_webVars => WebInv'
<1> SUFFICES ASSUME WebInv, [Next]_webVars PROVE WebInv'
  OBVIOUS
<1>1. SessionInv' /\ VaultInv'
  BY SessionKept, VaultKept DEF WebInv
<1>2. CASE Next
  <2>1. DeskMoves /\ HandlerInv
    BY <1>2, NextMovesDesk DEF WebInv, StudioInv
  <2>2. ChainMoves
    BY <2>1, ChainKept DEF WebInv
  <2>3. DeskInv' /\ StudioInv' /\ ChainInv'
    BY <1>2, <2>1, <2>2, DeskKept, StudioKept DEF WebInv, ChainMoves
  <2> QED BY <1>1, <2>3 DEF WebInv
<1>3. CASE UNCHANGED webVars
  <2>1. UNCHANGED <<deskVars, policyVars>>
    BY <1>3 DEF webVars
  <2>2. ChainMoves
    BY <2>1, ChainQuiet DEF WebInv, deskVars, policyVars, routerVars, liveChainVars
  <2>3. DeskInv'
    BY <2>1, <2>2, DeskQuiet DEF WebInv, DeskInv, deskVars, lookupVars, controlVars
  <2>4. StudioInv'
    BY <2>1, <2>2, PolicySideStays, RequestSideStays, HandlerStays
       DEF WebInv, StudioInv, policyVars, studioVars, sessionVars, resultVars, delegatedVars
  <2> QED BY <1>1, <2>2, <2>3, <2>4 DEF WebInv, ChainMoves
<1> QED BY <1>2, <1>3

\* SuccessesAreFinal: what the panels report as done is done, for any accounts
\* and amounts, any number of overlapping operations, transactions that arrive
\* after the page has given up on them, and movements from elsewhere.
THEOREM SuccessesStand == Spec => []SuccessesAreFinal
<1>1. WebInv => SuccessesAreFinal
  BY DEF WebInv, DeskInv, VaultInv, Listed, SuccessesAreFinal, SuccessIsOneMovement
<1> QED BY <1>1, PageStarts, PageKept, PTL DEF Spec

\* ResultsAreTheirOwn: a registration is shown only with the policy that is in
\* custody and on the chain, a decision and an execution only with the request
\* they are of and as the router has them, for any policies and requests and
\* any order of answers, resets and wallet events.
THEOREM ResultsBelong == Spec => []ResultsAreTheirOwn
<1>1. WebInv => ResultsAreTheirOwn
  BY DEF WebInv, StudioInv, PolicySide, RequestSide, ResultsAreTheirOwn
<1> QED BY <1>1, PageStarts, PageKept, PTL DEF Spec
===============================================================================
