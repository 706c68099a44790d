-------------------------------- MODULE MCWebApp --------------------------------
(***************************************************************************)
(* The page: one wallet session under the vault panel, the request desk and  *)
(* the policy studio.  A change in the wallet resets all three and starts    *)
(* the session anew; what was on its way keeps going.  An instance exercises *)
(* the session alone, from the opening of the page, or one part of the page  *)
(* with a session that is ready: the vault, the request desk (looking        *)
(* requests up, or overlapping transactions on one), the studio of an owner  *)
(* or the live lifecycle of a requester.  Two accounts, one operation        *)
(* overlapping another.                                                      *)
(***************************************************************************)
EXTENDS WebVault, PolicyStudio, TLC

CONSTANT Panel  \* each with a part of the page and how far the counters go

Part == {"wallet", "vault", "desk", "overlap", "studio", "live"}

ASSUME PanelAssumption ==
    Panel \subseteq [part : Part, moves : Nat, reads : Nat, signed : Nat, history : Nat,
                     lookups : Nat, sent : Nat, live : Nat]

VARIABLE panel

webVars == <<panel, walletVars, vaultWebVars, deskVars, policyVars>>

Init ==
    /\ panel \in Panel
    /\ VaultInit
    /\ DeskInit
    /\ PolicyInit
    /\ IF panel.part = "wallet" THEN WalletInit
       ELSE SessionReady(loadCoston2AccountSnapshot(RequestOwner))
    /\ \A r \in Request :
          (router[r] # "NONE") = (panel.part = "desk" \/ (panel.part = "overlap" /\ r = requestInput))
    /\ \A p \in Policy : (registry[p] = Active) = (panel.part = "live" /\ p.owner = RequestOwner)

WithinLimit ==
    /\ moves' <= panel.moves
    /\ liveReadSequence' <= panel.reads
    /\ Len(signed') <= panel.signed
    /\ Len(history') <= panel.history
    /\ requestReadSequence' <= panel.lookups
    /\ Len(sent') <= panel.sent
    /\ Cardinality({o \in DeskOperation : deskOperations'[o] # NoTransaction}) <= panel.sent
    /\ Len(liveSigned') <= panel.live

walletChanged == SessionChanged /\ VaultPanelReset /\ DeskReset /\ StudioDiscarded

\* Nothing else on the page depends on how the account's balances are read.
SessionStep ==
    \/ Talk
    \/ ProviderMoves
    \/ panel.part = "wallet" /\ Connects
    \/ /\ panel.part \in {"wallet", "vault"}
       /\ \/ Answers
          \/ \E r \in reads : Finalized(r, loadCoston2AccountSnapshot(r.account))

Lifecycle ==
    \/ LiveStep /\ UNCHANGED <<walletVars, deskVars>>
    \/ LiveDeskStep /\ UNCHANGED walletVars
    \/ LiveWalletStep /\ UNCHANGED deskVars

Next ==
    /\ UNCHANGED panel
    /\ \/ walletChanged
       \/ SessionStep /\ UNCHANGED <<vaultWebVars, deskVars, policyVars>>
       \/ panel.part = "vault" /\ VaultStep /\ UNCHANGED <<deskVars, policyVars>>
       \/ /\ \/ panel.part = "desk" /\ DeskStep
             \/ panel.part = "overlap" /\ DeskStep /\ UNCHANGED requestInput
          /\ UNCHANGED <<walletVars, vaultWebVars, policyVars>>
       \/ panel.part = "studio" /\ OwnerStep /\ UNCHANGED <<walletVars, vaultWebVars, deskVars>>
       \/ panel.part = "live" /\ RequesterStep /\ UNCHANGED <<walletVars, vaultWebVars, deskVars>>
       \/ panel.part = "live" /\ TimePasses /\ UNCHANGED <<walletVars, vaultWebVars, policyVars>>
       \/ panel.part \in {"studio", "live"} /\ Lifecycle /\ UNCHANGED vaultWebVars
    /\ WithinLimit

Spec == Init /\ [][Next]_webVars

-----------------------------------------------------------------------------
\* What the page reports as done is done, on the vault's panel and on that of
\* the requests.
SuccessesAreFinal == SuccessIsOneMovement /\ RequestSuccessIsFinal

-----------------------------------------------------------------------------
(* The instance.                                                            *)

CONSTANTS alice, bob, r1, r2, c1, c2, o1, o2, strict, lax

Bounds(part) == [part |-> part, moves |-> 0, reads |-> 0, signed |-> 0, history |-> 0,
                 lookups |-> 1, sent |-> 0, live |-> 0]

Wallet == [Bounds("wallet") EXCEPT !.moves = 1, !.reads = 3]
Vault == [Bounds("vault") EXCEPT !.moves = 1, !.reads = 3, !.signed = 3, !.history = 3]
Desk == [Bounds("desk") EXCEPT !.lookups = 2, !.sent = 1]
Overlap == [Bounds("overlap") EXCEPT !.moves = 1, !.reads = 2, !.sent = 2]
Studio == [Bounds("studio") EXCEPT !.moves = 1, !.reads = 3, !.live = 2]
Live == [Bounds("live") EXCEPT !.reads = 4, !.lookups = 4, !.live = 2]
Interrupted == [Bounds("live") EXCEPT !.moves = 1, !.reads = 3, !.lookups = 2, !.live = 1]

Panels == {Wallet, Vault, Desk, Overlap, Studio, Live, Interrupted}
OnlyStudio == {Studio}

Slots == Permutations({c1, c2}) \cup Permutations({o1, o2})
         \cup Permutations({r1, r2}) \cup Permutations({strict, lax})
===============================================================================
