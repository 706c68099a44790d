---------------------------- MODULE PayGuardVault ----------------------------
(***************************************************************************)
(* The vault contract, packages/contracts/src/PayGuardVault.sol: public    *)
(* accounting per owner and asset, reservations keyed by request, and the  *)
(* ERC-20 tokens the contract really holds.                                *)
(*                                                                         *)
(* A call that reverts changes nothing, so an operation is one action whose *)
(* guard is the conjunction of the call's revert conditions.  The closing   *)
(* assertion of every call (_assertConservation) is not a guard here: it is *)
(* the invariant Conservation, so that checking it shows the revert behind  *)
(* it to be unreachable.                                                    *)
(***************************************************************************)
EXTENDS PayGuardTypes, FiniteSets, Functions

CONSTANTS
    Owner,          \* the addresses in whose favour deposits are made
    VaultAddress,   \* address(this) of the vault
    Amount,         \* amounts callers pass; 0 may be among them
    WalletSupply,   \* tokens of each asset an owner's wallet starts with
    MaxDeposited    \* bound: deposits of one owner in one asset stop here

\* An address has 20 bytes, a request identifier 32.
ASSUME VaultAssumption ==
    /\ Owner \subseteq Address
    /\ IsFiniteSet(Owner) /\ IsFiniteSet(RequestId)
    /\ VaultAddress \in Address \ Owner
    /\ Amount \subseteq Nat
    /\ WalletSupply \in Nat
    /\ MaxDeposited \in Nat

VARIABLES
    accounts,       \* accounts[owner][asset]: the Accounting struct
    reservations,   \* reservations[requestId]: the Reservation struct
    supportedAsset, \* the assets the administrator enabled
    vaultRouter,    \* the wired router, ZeroAddress before setRouter
    balance         \* balance[asset][holder]: the token contracts' own ledger

vaultVars == <<accounts, reservations, supportedAsset, vaultRouter, balance>>

Accounting == [deposited: Nat, available: Nat, reserved: Nat,
               spent: Nat, withdrawn: Nat, refunded: Nat]

NoAccounting == [deposited |-> 0, available |-> 0, reserved |-> 0,
                 spent |-> 0, withdrawn |-> 0, refunded |-> 0]

\* The zero value that `delete reservations[requestId]` leaves behind has
\* active = FALSE; its other fields are never read again.
Reservation == [owner: Address \cup {ZeroAddress}, asset: Asset \cup {ZeroAddress},
                amount: Nat, active: BOOLEAN]

NoReservation == [owner |-> ZeroAddress, asset |-> ZeroAddress,
                  amount |-> 0, active |-> FALSE]

VaultTypeOK ==
    /\ accounts \in [Owner -> [Asset -> Accounting]]
    /\ reservations \in [RequestId -> Reservation]
    /\ supportedAsset \subseteq Asset
    /\ vaultRouter \in Address \cup {ZeroAddress}
    /\ balance \in [Asset -> [Address -> Nat]]

\* A vault nobody has used yet, with these assets enabled and this router.
FreshVault(assets, router) ==
    /\ accounts = [o \in Owner |-> [a \in Asset |-> NoAccounting]]
    /\ reservations = [r \in RequestId |-> NoReservation]
    /\ supportedAsset = assets
    /\ vaultRouter = router
    /\ balance = [a \in Asset |->
                    [h \in Address |-> IF h \in Owner THEN WalletSupply ELSE 0]]

VaultInit == FreshVault({}, ZeroAddress)

-----------------------------------------------------------------------------
(* The token contract (external): an exact-amount ERC-20.                   *)

Transfer(asset, from, to, amount) ==
    /\ balance[asset][from] >= amount
    /\ balance' = IF from = to
                    THEN balance
                    ELSE [balance EXCEPT ![asset][from] = @ - amount,
                                         ![asset][to] = @ + amount]

\* The post-transfer check of deposit and execute: the receiver's balance
\* grew by exactly the amount, which a transfer to oneself never satisfies.
ReceivedExactly(asset, to, amount) ==
    balance'[asset][to] = balance[asset][to] + amount

-----------------------------------------------------------------------------
(* Accounting: each call moves an amount between two buckets of one account. *)

Covers(entry, n) == entry.available >= n

EntryDeposited(e, n) == [e EXCEPT !.deposited = @ + n, !.available = @ + n]

\* (A mutant: the withdrawal is recorded but not debited.)
EntryWithdrawn_NotDebited(e, n) == [e EXCEPT !.withdrawn = @ + n]

EntryWithdrawn(e, n) == [e EXCEPT !.available = @ - n, !.withdrawn = @ + n]
EntryReserved(e, n) == [e EXCEPT !.available = @ - n, !.reserved = @ + n]

EntryReleased(e, n) == [e EXCEPT !.reserved = @ - n, !.available = @ + n]

\* (A mutant: the reserved amount leaves no trace in the spent bucket.)
EntrySpent_Forgotten(e, n) == [e EXCEPT !.reserved = @ - n]

EntrySpent(e, n) == [e EXCEPT !.reserved = @ - n, !.spent = @ + n]

UpdateAccount(owner, asset, entry) ==
    accounts' = [accounts EXCEPT ![owner] = [@ EXCEPT ![asset] = entry]]

DeleteReservation(requestId) ==
    reservations' = [reservations EXCEPT ![requestId] = NoReservation]

-----------------------------------------------------------------------------
(* Administration.                                                          *)

\* onlyAdmin; enabling is idempotent and an enabled asset stays enabled.
SetSupportedAsset(asset) ==
    /\ supportedAsset' = supportedAsset \cup {asset}
    /\ UNCHANGED <<accounts, reservations, vaultRouter, balance>>

\* onlyAdmin; wired once.
SetRouter(router) ==
    /\ vaultRouter = ZeroAddress
    /\ router # ZeroAddress
    /\ vaultRouter' = router
    /\ UNCHANGED <<accounts, reservations, supportedAsset, balance>>

-----------------------------------------------------------------------------
(* Owners.                                                                  *)

Deposit(sender, asset, amount, beneficiary) ==
    /\ asset \in supportedAsset
    /\ amount # 0 /\ beneficiary # ZeroAddress
    /\ accounts[beneficiary][asset].deposited + amount <= MaxDeposited
    /\ Transfer(asset, sender, VaultAddress, amount)
    /\ ReceivedExactly(asset, VaultAddress, amount)
    /\ UpdateAccount(beneficiary, asset, EntryDeposited(accounts[beneficiary][asset], amount))
    /\ UNCHANGED <<reservations, supportedAsset, vaultRouter>>

\* `to` may be any non-zero address, the vault itself included.
Withdraw(owner, asset, amount, to) ==
    /\ asset \in supportedAsset
    /\ amount # 0 /\ to # ZeroAddress
    /\ Covers(accounts[owner][asset], amount)
    /\ UpdateAccount(owner, asset, EntryWithdrawn(accounts[owner][asset], amount))
    /\ Transfer(asset, VaultAddress, to, amount)
    /\ UNCHANGED <<reservations, supportedAsset, vaultRouter>>

-----------------------------------------------------------------------------
(* The router's three calls.                                                *)

OnlyRouter(caller) == caller = vaultRouter /\ vaultRouter # ZeroAddress

Reserve(caller, owner, asset, requestId, amount) ==
    /\ OnlyRouter(caller)
    /\ asset \in supportedAsset
    /\ owner # ZeroAddress /\ amount # 0
    /\ ~reservations[requestId].active
    /\ Covers(accounts[owner][asset], amount)
    /\ UpdateAccount(owner, asset, EntryReserved(accounts[owner][asset], amount))
    /\ reservations' = [reservations EXCEPT ![requestId] =
                          [owner |-> owner, asset |-> asset,
                           amount |-> amount, active |-> TRUE]]
    /\ UNCHANGED <<supportedAsset, vaultRouter, balance>>

\* Checked subtraction: a reserved total below the amount would revert.
Release(caller, requestId) ==
    LET r == reservations[requestId] IN
    /\ OnlyRouter(caller)
    /\ r.active
    /\ accounts[r.owner][r.asset].reserved >= r.amount
    /\ UpdateAccount(r.owner, r.asset, EntryReleased(accounts[r.owner][r.asset], r.amount))
    /\ DeleteReservation(requestId)
    /\ UNCHANGED <<supportedAsset, vaultRouter, balance>>

ExecuteReserved(caller, requestId, target) ==
    LET r == reservations[requestId] IN
    /\ OnlyRouter(caller)
    /\ r.active
    /\ target # ZeroAddress
    /\ accounts[r.owner][r.asset].reserved >= r.amount
    /\ UpdateAccount(r.owner, r.asset, EntrySpent(accounts[r.owner][r.asset], r.amount))
    /\ DeleteReservation(requestId)
    /\ Transfer(r.asset, VaultAddress, target, r.amount)
    /\ ReceivedExactly(r.asset, target, r.amount)
    /\ UNCHANGED <<supportedAsset, vaultRouter>>

-----------------------------------------------------------------------------
OwnerNext ==
    \E asset \in Asset, amount \in Amount, owner \in Owner,
       other \in Address \cup {ZeroAddress} :
        \/ other \in Owner \cup {ZeroAddress} /\ Deposit(owner, asset, amount, other)
        \/ Withdraw(owner, asset, amount, other)

AdminNext ==
    \/ \E asset \in Asset : SetSupportedAsset(asset)
    \/ \E router \in Address \cup {ZeroAddress} : SetRouter(router)

\* The vault on its own: any address may try the router's calls.
RouterCallNext ==
    \E caller \in Address, requestId \in RequestId :
        \/ \E owner \in Owner, asset \in Asset, amount \in Amount :
             Reserve(caller, owner, asset, requestId, amount)
        \/ Release(caller, requestId)
        \/ \E target \in Address : ExecuteReserved(caller, requestId, target)

VaultNext == OwnerNext \/ AdminNext \/ RouterCallNext

VaultSpec == VaultInit /\ [][VaultNext]_vaultVars

-----------------------------------------------------------------------------
(* Properties.                                                              *)

\* The equation _assertConservation compares after every update.
Conserves(entry) ==
    entry.deposited = entry.available + entry.reserved + entry.spent
                        + entry.withdrawn + entry.refunded

\* Every account conserves its deposits over its five buckets, so the revert
\* ConservationViolation that ends each vault call is unreachable.
Conservation == \A o \in Owner, a \in Asset : Conserves(accounts[o][a])

ActiveReservations(owner, asset) ==
    {r \in RequestId : /\ reservations[r].active
                       /\ reservations[r].owner = owner
                       /\ reservations[r].asset = asset}

ReservedMatchesReservations ==
    \A o \in Owner, a \in Asset :
        accounts[o][a].reserved =
            SumFunctionOnSet([r \in RequestId |-> reservations[r].amount], ActiveReservations(o, a))

HoldsWhatItOwes ==
    \A a \in Asset :
        balance[a][VaultAddress] >=
            SumFunction([o \in Owner |-> accounts[o][a].available + accounts[o][a].reserved])

\* An account's reserved bucket is exactly the sum of its live reservations, so
\* that no release or execution strands or steals another request's share; and
\* the tokens the vault really holds cover what it owes all owners together.
\* Reservations, accounts and token balances are three ledgers that nothing in
\* the contract compares outside the call that moves them.
Solvency == ReservedMatchesReservations /\ HoldsWhatItOwes

\* A reservation ends by moving its amount into exactly one bucket of the
\* account that made it, with nothing taken from any other account.
Ends(r) == reservations[r].active /\ ~reservations'[r].active

ReservationSettledOnce ==
    [][\A r \in RequestId : Ends(r) =>
        LET o == reservations[r].owner
            a == reservations[r].asset
            n == reservations[r].amount
        IN /\ accounts'[o][a].reserved = accounts[o][a].reserved - n
           /\ \/ /\ accounts'[o][a].available = accounts[o][a].available + n
                 /\ accounts'[o][a].spent = accounts[o][a].spent
              \/ /\ accounts'[o][a].available = accounts[o][a].available
                 /\ accounts'[o][a].spent = accounts[o][a].spent + n
           /\ \A p \in Owner \ {o}, b \in Asset : accounts'[p][b] = accounts[p][b]
      ]_vaultVars
=============================================================================
