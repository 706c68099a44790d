------------------------------- MODULE WebWallet -------------------------------
(***************************************************************************)
(* The wallet session of the web application (apps/web/src/main.ts and      *)
(* coston2.ts): the page's idea of which account is connected, and the       *)
(* finalized snapshot of that account it shows.  Conversations with the       *)
(* injected wallet and reads of the chain are asynchronous; what the page     *)
(* does at their end depends on what it finds then.                           *)
(***************************************************************************)
EXTENDS Integers, Sequences, FiniteSets

CONSTANTS
    Account,
    NoAccount,
    Conversation    \* slots for the conversations that run at the same time

ASSUME NoAccountAssumption == NoAccount \notin Account

VARIABLES
    provider,           \* the wallet: the account and the network it is on
    events,             \* accountsChanged and chainChanged not yet delivered
    moves,              \* how often the user changed account or network
    walletState,
    coston2State,
    liveReadSequence,
    conversations,
    reads               \* the snapshot reads on their way

walletVars == <<provider, events, moves, walletState, coston2State, liveReadSequence,
                conversations, reads>>

Network == {"coston2", "other"}
NoSnapshot == [account |-> NoAccount]
ReadState(status) == [status |-> status, snapshot |-> NoSnapshot]
Session(status, account) == [status |-> status, account |-> account]
Quiet == [kind |-> "none", at |-> "none", account |-> NoAccount, chain |-> "coston2"]
restoreWalletSession == [Quiet EXCEPT !.kind = "restore", !.at = "accounts"]

\* The page has just been opened, with the wallet in any state.
WalletInit ==
    /\ provider \in [account : Account \cup {NoAccount}, chain : Network]
    /\ events = 0
    /\ moves = 0
    /\ walletState = Session("DISCONNECTED", NoAccount)
    /\ coston2State = ReadState("IDLE")
    /\ liveReadSequence = 0
    /\ \E c \in Conversation :
          conversations = [d \in Conversation |-> IF d = c THEN restoreWalletSession ELSE Quiet]
    /\ reads = {}

\* Some time later: a session, its snapshot read, nothing on its way.
SessionReady(snapshot) ==
    /\ provider = [account |-> snapshot.account, chain |-> "coston2"]
    /\ events = 0
    /\ moves = 0
    /\ walletState = Session("CONNECTED", snapshot.account)
    /\ coston2State = [status |-> "READY", snapshot |-> snapshot]
    /\ liveReadSequence = 0
    /\ conversations = [c \in Conversation |-> Quiet]
    /\ reads = {}

connectedAccount ==
    IF walletState.status \in {"CONNECTED", "WRONG_CHAIN"} THEN walletState.account ELSE NoAccount
Connected == walletState.status = "CONNECTED"
liveSnapshot == coston2State.status = "READY"

-----------------------------------------------------------------------------
(* Reading the account's state                                              *)

\* The read is on its way; refreshCoston2State in a connected session.
StartRead(account) ==
    /\ liveReadSequence' = liveReadSequence + 1
    /\ coston2State' = ReadState("LOADING")
    /\ reads' = reads \cup {[sequence |-> liveReadSequence + 1, account |-> account,
                             snapshot |-> NoSnapshot]}

\* The conversation that a page without a connected session starts instead.
connectWallet ==
    /\ \E c \in Conversation :
          /\ conversations[c] = Quiet
          /\ conversations' = [conversations EXCEPT
                                  ![c] = [Quiet EXCEPT !.kind = "connect", !.at = "accounts"]]
    /\ walletState' = Session("CONNECTING", NoAccount)
    /\ coston2State' = ReadState("IDLE")
    /\ UNCHANGED <<provider, events, moves, liveReadSequence, reads>>

refreshCoston2State ==
    IF Connected
    THEN StartRead(walletState.account) /\ UNCHANGED <<provider, events, moves, walletState, conversations>>
    ELSE connectWallet

\* The node answers from its finalized block; the answer is not here yet.
Finalized(r, snapshot) ==
    /\ r \in reads
    /\ r.snapshot = NoSnapshot
    /\ reads' = (reads \ {r}) \cup {[r EXCEPT !.snapshot = snapshot]}
    /\ UNCHANGED <<provider, events, moves, walletState, coston2State, liveReadSequence, conversations>>

IsCurrent(r) == r.sequence = liveReadSequence
\* A mutant: whose answer it is, is not asked.
IsForSession_Unchecked(r) == TRUE

\* The answer is of the account that is connected now.
IsForSession(r) == connectedAccount = r.account

SnapshotArrives(r) ==
    /\ r \in reads
    /\ r.snapshot # NoSnapshot
    /\ reads' = reads \ {r}
    /\ coston2State' = IF IsCurrent(r) /\ IsForSession(r)
                       THEN [status |-> "READY", snapshot |-> r.snapshot]
                       ELSE coston2State
    /\ UNCHANGED <<provider, events, moves, walletState, liveReadSequence, conversations>>

ReadFails(r) ==
    /\ r \in reads
    /\ reads' = reads \ {r}
    /\ coston2State' = IF IsCurrent(r) THEN ReadState("UNAVAILABLE") ELSE coston2State
    /\ UNCHANGED <<provider, events, moves, walletState, liveReadSequence, conversations>>

-----------------------------------------------------------------------------
(* Conversations with the wallet                                            *)

Ends(c) == conversations' = [conversations EXCEPT ![c] = Quiet]

\* The session begins, and with it a read.
Begin(c, account) ==
    /\ Ends(c)
    /\ walletState' = Session("CONNECTED", account)
    /\ StartRead(account)

ConversationFails(c) ==
    /\ conversations[c] # Quiet
    /\ Ends(c)
    /\ walletState' = Session("ERROR", NoAccount)
    /\ coston2State' = ReadState("IDLE")
    /\ UNCHANGED <<provider, events, moves, liveReadSequence, reads>>

\* eth_requestAccounts: the user picks the account if the site has none.
AccountGranted(c) ==
    /\ conversations[c].kind = "connect"
    /\ conversations[c].at = "accounts"
    /\ \E a \in IF provider.account = NoAccount THEN Account ELSE {provider.account} :
          /\ conversations' = [conversations EXCEPT ![c].at = "chain", ![c].account = a]
          /\ events' = IF provider.account = a THEN events ELSE events + 1
          /\ provider' = [provider EXCEPT !.account = a]
    /\ UNCHANGED <<moves, walletState, coston2State, liveReadSequence, reads>>

\* The wallet is on Coston2, or the user lets it switch; the account is the
\* one that was granted before.
connectCoston2Wallet(c) ==
    /\ conversations[c].kind = "connect"
    /\ conversations[c].at = "chain"
    /\ events' = IF provider.chain = "coston2" THEN events ELSE events + 1
    /\ provider' = [provider EXCEPT !.chain = "coston2"]
    /\ Begin(c, conversations[c].account)
    /\ UNCHANGED moves

\* eth_accounts and eth_chainId, asked together.
readWalletSession(c) ==
    /\ conversations[c].kind = "restore"
    /\ conversations[c].at = "accounts"
    /\ conversations' = [conversations EXCEPT ![c] =
                            [@ EXCEPT !.at = "answer", !.account = provider.account,
                                      !.chain = provider.chain]]
    /\ UNCHANGED <<provider, events, moves, walletState, coston2State, liveReadSequence, reads>>

SessionRestored(c) ==
    /\ conversations[c].at = "answer"
    /\ \/ /\ conversations[c].account = NoAccount
          /\ Ends(c)
          /\ UNCHANGED <<walletState, coston2State, liveReadSequence, reads>>
       \/ /\ conversations[c].account # NoAccount
          /\ conversations[c].chain # "coston2"
          /\ Ends(c)
          /\ walletState' = Session("WRONG_CHAIN", conversations[c].account)
          /\ coston2State' = ReadState("IDLE")
          /\ UNCHANGED <<liveReadSequence, reads>>
       \/ /\ conversations[c].account # NoAccount
          /\ conversations[c].chain = "coston2"
          /\ Begin(c, conversations[c].account)
    /\ UNCHANGED <<provider, events, moves>>

\* The part of walletChanged that concerns the session.
SessionChanged ==
    /\ events > 0
    /\ events' = events - 1
    /\ liveReadSequence' = liveReadSequence + 1
    /\ walletState' = Session("DISCONNECTED", NoAccount)
    /\ coston2State' = ReadState("IDLE")
    /\ \E c \in Conversation :
          /\ conversations[c] = Quiet
          /\ conversations' = [conversations EXCEPT ![c] = restoreWalletSession]
    /\ UNCHANGED <<provider, moves, reads>>

\* The user turns to another account or network in the wallet.
ProviderMoves ==
    /\ moves' = moves + 1
    /\ events' = events + 1
    /\ \/ \E a \in (Account \cup {NoAccount}) \ {provider.account} :
             provider' = [provider EXCEPT !.account = a]
       \/ \E n \in Network \ {provider.chain} : provider' = [provider EXCEPT !.chain = n]
    /\ UNCHANGED <<walletState, coston2State, liveReadSequence, conversations, reads>>

\* The user's buttons.
Connects == connectWallet \/ refreshCoston2State

Answers == \E r \in reads : SnapshotArrives(r) \/ ReadFails(r)

Talk ==
    \E c \in Conversation :
       \/ AccountGranted(c)
       \/ connectCoston2Wallet(c)
       \/ readWalletSession(c)
       \/ SessionRestored(c)
       \/ ConversationFails(c)

WalletTypeOK ==
    /\ provider \in [account : Account \cup {NoAccount}, chain : Network]
    /\ events \in Nat
    /\ moves \in Nat
    /\ walletState.status \in {"DISCONNECTED", "CONNECTING", "WRONG_CHAIN", "CONNECTED", "ERROR"}
    /\ walletState.account \in Account \cup {NoAccount}
    /\ coston2State.status \in {"IDLE", "LOADING", "READY", "UNAVAILABLE"}
    /\ liveReadSequence \in Nat
    /\ \A r \in reads : r.sequence \in 1..liveReadSequence /\ r.account \in Account

-----------------------------------------------------------------------------
(* Properties                                                               *)

\* The balances on the page are those of the account it says is connected,
\* whatever the wallet, the conversations and the reads did in the meantime.
SnapshotIsOfAccount == liveSnapshot => coston2State.snapshot.account = connectedAccount
===============================================================================
