-------------------- MODULE PayGuardVaultRegistry_proofs --------------------
(***************************************************************************)
(* Proofs about the vault and the registry, each on its own. Of the vault: *)
(* types, conservation, and how a reservation ends, for any owners, assets *)
(* and requests. Of the registry: types, what a registration froze, that a *)
(* pause can be lifted, and who makes a policy active again, for any       *)
(* bindings, receipts, machines and callers.                               *)
(***************************************************************************)
EXTENDS PayGuardVault, PayGuardPolicyRegistryV2, FiniteSetTheorems, Sums_proofs, TLAPS

\* The router's calls and the owners' calls, whoever makes them.  The lemmas
\* below are stated for single operations, so that the router's module, whose
\* steps contain these operations, can cite them too.
LEMMA VaultInitTypeOK == VaultInit => VaultTypeOK
BY VaultAssumption DEF VaultInit, FreshVault, VaultTypeOK, Accounting, NoAccounting,
   Reservation, NoReservation

LEMMA TransferTypeOK ==
    ASSUME NEW asset \in Asset, NEW from \in Address, NEW to \in Address,
           NEW amount \in Nat,
           balance \in [Asset -> [Address -> Nat]],
           Transfer(asset, from, to, amount)
    PROVE  balance' \in [Asset -> [Address -> Nat]]
<1>1. CASE from = to
  BY <1>1 DEF Transfer
<1>2. CASE from # to
  <2> DEFINE afterDebit == [balance[asset] EXCEPT ![from] = @ - amount]
  <2>1. afterDebit \in [Address -> Nat]
    BY DEF Transfer
  <2>2. [afterDebit EXCEPT ![to] = @ + amount] \in [Address -> Nat]
    BY <2>1
  <2>3. balance' = [balance EXCEPT ![asset] = [afterDebit EXCEPT ![to] = @ + amount]]
    BY <1>2 DEF Transfer
  <2> QED BY <2>2, <2>3
<1> QED BY <1>1, <1>2

LEMMA TwoFieldsTypeOK ==
    ASSUME NEW e \in Accounting, NEW x \in Nat, NEW y \in Nat
    PROVE  /\ [e EXCEPT !.deposited = x, !.available = y] \in Accounting
           /\ [e EXCEPT !.available = x, !.withdrawn = y] \in Accounting
           /\ [e EXCEPT !.available = x, !.reserved = y] \in Accounting
           /\ [e EXCEPT !.reserved = x, !.available = y] \in Accounting
           /\ [e EXCEPT !.reserved = x, !.spent = y] \in Accounting
BY DEF Accounting

\* One accounting entry after each kind of update is again an entry, and it
\* conserves if the old one did: the arithmetic of the five vault calls.
LEMMA EntryUpdates ==
    ASSUME NEW e \in Accounting, NEW n \in Nat
    PROVE  /\ EntryDeposited(e, n) \in Accounting
           /\ Covers(e, n) =>
                /\ EntryWithdrawn(e, n) \in Accounting
                /\ EntryReserved(e, n) \in Accounting
           /\ e.reserved >= n =>
                /\ EntryReleased(e, n) \in Accounting
                /\ EntrySpent(e, n) \in Accounting
<1>0. /\ e.deposited + n \in Nat /\ e.available + n \in Nat
      /\ e.reserved + n \in Nat /\ e.withdrawn + n \in Nat /\ e.spent + n \in Nat
  BY DEF Accounting
<1>1. EntryDeposited(e, n) \in Accounting
  BY <1>0, TwoFieldsTypeOK DEF EntryDeposited
<1>2. ASSUME Covers(e, n)
      PROVE  /\ EntryWithdrawn(e, n) \in Accounting
             /\ EntryReserved(e, n) \in Accounting
  <2>1. e.available - n \in Nat
    BY <1>2 DEF Accounting, Covers
  <2> QED BY <1>0, <2>1, TwoFieldsTypeOK
          DEF EntryWithdrawn, EntryReserved, EntryReleased, EntrySpent
<1>3. ASSUME e.reserved >= n
      PROVE  /\ EntryReleased(e, n) \in Accounting
             /\ EntrySpent(e, n) \in Accounting
  <2>1. e.reserved - n \in Nat
    BY <1>3 DEF Accounting
  <2> QED BY <1>0, <2>1, TwoFieldsTypeOK
          DEF EntryWithdrawn, EntryReserved, EntryReleased, EntrySpent
<1> QED BY <1>1, <1>2, <1>3

LEMMA EntryConserves ==
    ASSUME NEW e \in Accounting, NEW n \in Nat, Conserves(e)
    PROVE  /\ Conserves(EntryDeposited(e, n))
           /\ Conserves(EntryWithdrawn(e, n))
           /\ Conserves(EntryReserved(e, n))
           /\ Conserves(EntryReleased(e, n))
           /\ Conserves(EntrySpent(e, n))
BY DEF Accounting, Conserves, EntryDeposited, EntryWithdrawn, EntryReserved,
   EntryReleased, EntrySpent

-----------------------------------------------------------------------------
\* The inductive invariant.  Conservation is inductive by itself; the types
\* need that a live reservation names a real account, since release and
\* execute find the account they rewrite through the reservation.
ReservationsNameAccounts ==
    \A r \in RequestId : reservations[r].active =>
        reservations[r].owner \in Owner /\ reservations[r].asset \in Asset

VaultInv == VaultTypeOK /\ ReservationsNameAccounts /\ Conservation

\* Rewriting one account with a conserving entry keeps all accounts conserving.
LEMMA UpdateAccountConserves ==
    ASSUME NEW owner \in Owner, NEW asset \in Asset, NEW entry \in Accounting,
           accounts \in [Owner -> [Asset -> Accounting]], Conservation,
           UpdateAccount(owner, asset, entry), Conserves(entry)
    PROVE  accounts' \in [Owner -> [Asset -> Accounting]] /\ Conservation'
<1>1. accounts' \in [Owner -> [Asset -> Accounting]]
  BY DEF UpdateAccount
<1>2. ASSUME NEW o \in Owner, NEW a \in Asset
      PROVE  accounts'[o][a] = IF o = owner /\ a = asset THEN entry ELSE accounts[o][a]
  BY DEF UpdateAccount
<1>3. ASSUME NEW o \in Owner, NEW a \in Asset
      PROVE  Conserves(accounts'[o][a])
  BY <1>2, <1>3 DEF Conservation
<1> QED BY <1>1, <1>3 DEF Conservation, Conserves

LEMMA DepositInv ==
    ASSUME NEW sender \in Owner, NEW asset \in Asset, NEW amount \in Amount,
           NEW beneficiary \in Owner,
           VaultInv, Deposit(sender, asset, amount, beneficiary)
    PROVE  VaultInv'
<1> DEFINE e == accounts[beneficiary][asset]
<1> DEFINE f == EntryDeposited(e, amount)
<1>1. /\ e \in Accounting /\ amount \in Nat /\ Conserves(e)
      /\ sender \in Address /\ VaultAddress \in Address
  BY VaultAssumption DEF VaultInv, VaultTypeOK, Conservation
<1>2. f \in Accounting /\ Conserves(f)
  BY <1>1, EntryUpdates, EntryConserves
<1>3. UpdateAccount(beneficiary, asset, f)
  BY DEF Deposit
<1>4. accounts' \in [Owner -> [Asset -> Accounting]] /\ Conservation'
  BY <1>2, <1>3, UpdateAccountConserves DEF VaultInv, VaultTypeOK
<1>5. balance' \in [Asset -> [Address -> Nat]]
  BY <1>1, TransferTypeOK DEF VaultInv, VaultTypeOK, Deposit
<1> QED BY <1>4, <1>5 DEF VaultInv, VaultTypeOK, ReservationsNameAccounts, Deposit

LEMMA WithdrawInv ==
    ASSUME NEW owner \in Owner, NEW asset \in Asset, NEW amount \in Amount,
           NEW to \in Address \cup {ZeroAddress},
           VaultInv, Withdraw(owner, asset, amount, to)
    PROVE  VaultInv'
<1> DEFINE e == accounts[owner][asset]
<1> DEFINE f == EntryWithdrawn(e, amount)
<1>1. /\ e \in Accounting /\ amount \in Nat /\ Conserves(e) /\ Covers(e, amount)
      /\ to \in Address /\ VaultAddress \in Address
  BY VaultAssumption DEF VaultInv, VaultTypeOK, Conservation, Withdraw, Covers
<1>2. f \in Accounting /\ Conserves(f)
  BY <1>1, EntryUpdates, EntryConserves
<1>3. UpdateAccount(owner, asset, f)
  BY DEF Withdraw
<1>4. accounts' \in [Owner -> [Asset -> Accounting]] /\ Conservation'
  BY <1>2, <1>3, UpdateAccountConserves DEF VaultInv, VaultTypeOK
<1>5. balance' \in [Asset -> [Address -> Nat]]
  BY <1>1, TransferTypeOK DEF VaultInv, VaultTypeOK, Withdraw
<1> QED BY <1>4, <1>5 DEF VaultInv, VaultTypeOK, ReservationsNameAccounts, Withdraw

LEMMA ReserveInv ==
    ASSUME NEW caller, NEW owner \in Owner, NEW asset \in Asset,
           NEW requestId \in RequestId, NEW amount \in Nat,
           VaultInv, Reserve(caller, owner, asset, requestId, amount)
    PROVE  VaultInv'
<1> DEFINE e == accounts[owner][asset]
<1> DEFINE f == EntryReserved(e, amount)
<1>1. e \in Accounting /\ Conserves(e) /\ Covers(e, amount)
  BY DEF VaultInv, VaultTypeOK, Conservation, Reserve, Covers
<1>2. f \in Accounting /\ Conserves(f)
  BY <1>1, EntryUpdates, EntryConserves
<1>3. UpdateAccount(owner, asset, f)
  BY DEF Reserve
<1>4. accounts' \in [Owner -> [Asset -> Accounting]] /\ Conservation'
  BY <1>2, <1>3, UpdateAccountConserves DEF VaultInv, VaultTypeOK
<1>5. reservations' \in [RequestId -> Reservation] /\ ReservationsNameAccounts'
  BY VaultAssumption
     DEF VaultInv, VaultTypeOK, Reserve, Reservation, ReservationsNameAccounts
<1> QED BY <1>4, <1>5 DEF VaultInv, VaultTypeOK, Reserve

\* What release and execute have in common: the account is found through the
\* reservation, which is deleted.
LEMMA DeleteReservationInv ==
    ASSUME NEW requestId \in RequestId, VaultInv, reservations[requestId].active,
           DeleteReservation(requestId)
    PROVE  /\ reservations[requestId].owner \in Owner
           /\ reservations[requestId].asset \in Asset
           /\ reservations[requestId].amount \in Nat
           /\ reservations' \in [RequestId -> Reservation]
           /\ ReservationsNameAccounts'
BY DEF VaultInv, VaultTypeOK, Reservation, NoReservation, ReservationsNameAccounts,
   DeleteReservation

LEMMA ReleaseInv ==
    ASSUME NEW caller, NEW requestId \in RequestId,
           VaultInv, Release(caller, requestId)
    PROVE  VaultInv'
<1> DEFINE r == reservations[requestId]
<1> DEFINE e == accounts[r.owner][r.asset]
<1> DEFINE f == EntryReleased(e, r.amount)
<1>1. /\ r.owner \in Owner /\ r.asset \in Asset /\ r.amount \in Nat
      /\ reservations' \in [RequestId -> Reservation] /\ ReservationsNameAccounts'
  BY DeleteReservationInv DEF Release
<1>2. e \in Accounting /\ Conserves(e) /\ e.reserved >= r.amount
  BY <1>1 DEF VaultInv, VaultTypeOK, Conservation, Release
<1>3. f \in Accounting /\ Conserves(f)
  BY <1>1, <1>2, EntryUpdates, EntryConserves
<1>4. UpdateAccount(r.owner, r.asset, f)
  BY DEF Release
<1>5. accounts' \in [Owner -> [Asset -> Accounting]] /\ Conservation'
  BY <1>1, <1>3, <1>4, UpdateAccountConserves DEF VaultInv, VaultTypeOK
<1> QED BY <1>1, <1>5 DEF VaultInv, VaultTypeOK, Release

LEMMA ExecuteReservedInv ==
    ASSUME NEW caller, NEW requestId \in RequestId, NEW target \in Address,
           VaultInv, ExecuteReserved(caller, requestId, target)
    PROVE  VaultInv'
<1> DEFINE r == reservations[requestId]
<1> DEFINE e == accounts[r.owner][r.asset]
<1> DEFINE f == EntrySpent(e, r.amount)
<1>1. /\ r.owner \in Owner /\ r.asset \in Asset /\ r.amount \in Nat
      /\ reservations' \in [RequestId -> Reservation] /\ ReservationsNameAccounts'
  BY DeleteReservationInv DEF ExecuteReserved
<1>2. e \in Accounting /\ Conserves(e) /\ e.reserved >= r.amount
  BY <1>1 DEF VaultInv, VaultTypeOK, Conservation, ExecuteReserved
<1>3. f \in Accounting /\ Conserves(f)
  BY <1>1, <1>2, EntryUpdates, EntryConserves
<1>4. UpdateAccount(r.owner, r.asset, f)
  BY DEF ExecuteReserved
<1>5. accounts' \in [Owner -> [Asset -> Accounting]] /\ Conservation'
  BY <1>1, <1>3, <1>4, UpdateAccountConserves DEF VaultInv, VaultTypeOK
<1>6. balance' \in [Asset -> [Address -> Nat]]
  BY <1>1, VaultAssumption, TransferTypeOK DEF VaultInv, VaultTypeOK, ExecuteReserved
<1> QED BY <1>1, <1>5, <1>6 DEF VaultInv, VaultTypeOK, ExecuteReserved

-----------------------------------------------------------------------------
(* Solvency: two sums, over an account's live reservations and over all     *)
(* owners.  A call changes one summand of each, or none.                    *)

HeldAmounts == [r \in RequestId |-> reservations[r].amount]
Held(o, a) == SumFunctionOnSet(HeldAmounts, ActiveReservations(o, a))
OwedTo(a) == [o \in Owner |-> accounts[o][a].available + accounts[o][a].reserved]
Owed(a) == SumFunctionOnSet(OwedTo(a), Owner)

LEMMA SolvencyIs ==
    Solvency <=> /\ \A o \in Owner, a \in Asset : accounts[o][a].reserved = Held(o, a)
                 /\ \A a \in Asset : balance[a][VaultAddress] >= Owed(a)
BY Zenon DEF Solvency, ReservedMatchesReservations, HoldsWhatItOwes, Held, HeldAmounts, Owed, OwedTo,
   SumFunction

LEMMA HeldNumbers ==
    ASSUME VaultTypeOK
    PROVE  /\ IntegersOn(HeldAmounts, RequestId)
           /\ \A o, a : IsFiniteSet(ActiveReservations(o, a)) /\ IntegersOn(HeldAmounts, ActiveReservations(o, a))
<1>1. IntegersOn(HeldAmounts, RequestId)
  BY DEF VaultTypeOK, Reservation, HeldAmounts, IntegersOn
<1>2. ASSUME NEW o, NEW a
      PROVE  IsFiniteSet(ActiveReservations(o, a)) /\ IntegersOn(HeldAmounts, ActiveReservations(o, a))
  <2>1. ActiveReservations(o, a) \subseteq RequestId
    BY DEF ActiveReservations
  <2> QED BY <1>1, <2>1, VaultAssumption, FS_Subset DEF IntegersOn
<1> QED BY <1>1, <1>2

LEMMA OwedNumbers ==
    ASSUME accounts \in [Owner -> [Asset -> Accounting]], NEW a \in Asset
    PROVE  IntegersOn(OwedTo(a), Owner)
BY DEF Accounting, OwedTo, IntegersOn

\* What all owners of an asset are owed changes by what one account's entry does.
LEMMA OwedMoves ==
    ASSUME NEW owner \in Owner, NEW asset \in Asset, NEW entry \in Accounting,
           accounts \in [Owner -> [Asset -> Accounting]],
           UpdateAccount(owner, asset, entry), NEW a \in Asset, NEW was, was = accounts[owner][asset]
    PROVE  /\ Owed(a) \in Int
           /\ a = asset => Owed(a)' = Owed(a) + (entry.available + entry.reserved)
                                        - (was.available + was.reserved)
           /\ a # asset => Owed(a)' = Owed(a)
<1>1. accounts' \in [Owner -> [Asset -> Accounting]]
  BY DEF UpdateAccount
<1>2. \A o \in Owner, b \in Asset :
         accounts'[o][b] = IF o = owner /\ b = asset THEN entry ELSE accounts[o][b]
  BY DEF UpdateAccount
<1>3. IntegersOn(OwedTo(a), Owner)
  BY OwedNumbers
<1>4. IntegersOn(OwedTo(a)', Owner)
  BY <1>1 DEF Accounting, OwedTo, IntegersOn
<1>5. IsFiniteSet(Owner)
  BY VaultAssumption
<1>6. PICK f, e : f = OwedTo(a) /\ e = OwedTo(a)'
  OBVIOUS
<1>7. IntegersOn(f, Owner) /\ IntegersOn(e, Owner)
  BY <1>3, <1>4, <1>6, Zenon
<1>8. SumFunctionOnSet(f, Owner) = Owed(a) /\ SumFunctionOnSet(e, Owner) = Owed(a)'
  BY <1>6, Zenon DEF Owed
<1>9. Owed(a) \in Int /\ Owed(a)' \in Int
  BY <1>5, <1>7, <1>8, SumType
<1>10. CASE a = asset
  <2>1. \A o \in Owner \ {owner} : e[o] = f[o]
    BY <1>2, <1>6 DEF OwedTo
  <2>2. Owed(a)' - e[owner] = Owed(a) - f[owner]
    BY <1>5, <1>7, <1>8, <2>1, SumWhereOneDiffers
  <2>3. e[owner] = entry.available + entry.reserved /\ f[owner] = was.available + was.reserved
    BY <1>2, <1>6, <1>10 DEF OwedTo
  <2>4. e[owner] \in Int /\ f[owner] \in Int
    BY <1>7 DEF IntegersOn
  <2>5. PICK x, y : x = e[owner] /\ y = f[owner]
    OBVIOUS
  <2>6. Owed(a)' = Owed(a) + x - y
    BY <1>9, <2>2, <2>4, <2>5
  <2> QED BY <1>9, <1>10, <2>3, <2>5, <2>6
<1>11. CASE a # asset
  <2>1. e = f
    BY <1>2, <1>6, <1>11 DEF OwedTo
  <2> QED BY <1>8, <1>9, <1>11, <2>1
<1> QED BY <1>10, <1>11

\* A reservation is added to one account's sum, and to no other.
LEMMA HeldAfterReserving ==
    ASSUME VaultTypeOK, NEW requestId \in RequestId, NEW owner \in Owner, NEW asset \in Asset,
           NEW amount \in Nat, NEW caller, Reserve(caller, owner, asset, requestId, amount),
           NEW o \in Owner, NEW a \in Asset
    PROVE  Held(o, a)' = IF o = owner /\ a = asset THEN amount + Held(o, a) ELSE Held(o, a)
<1> DEFINE A == ActiveReservations(o, a)
<1>1. /\ \A r \in RequestId \ {requestId} : reservations'[r] = reservations[r]
      /\ reservations'[requestId] =
           [owner |-> owner, asset |-> asset, amount |-> amount, active |-> TRUE]
  BY DEF VaultTypeOK, Reserve
<1>2. requestId \notin A /\ A \subseteq RequestId
  BY DEF ActiveReservations, Reserve
<1>3. A' = IF o = owner /\ a = asset THEN A \cup {requestId} ELSE A
  BY <1>1, <1>2 DEF ActiveReservations
<1>4. AgreeOn(HeldAmounts', HeldAmounts, A) /\ HeldAmounts'[requestId] = amount
  BY <1>1, <1>2 DEF AgreeOn, HeldAmounts
<1>5. IsFiniteSet(A) /\ IntegersOn(HeldAmounts, A)
  BY HeldNumbers
<1>6. PICK f, e, T : f = HeldAmounts /\ e = HeldAmounts' /\ T = A
  OBVIOUS
<1>7. IsFiniteSet(T) /\ IntegersOn(f, T) /\ AgreeOn(e, f, T) /\ e[requestId] = amount
      /\ requestId \notin T
  BY <1>2, <1>4, <1>5, <1>6, Zenon
<1>8. SumFunctionOnSet(e, T) = SumFunctionOnSet(f, T)
  BY <1>7, SumSame
<1>9. IntegersOn(e, T)
  BY <1>7 DEF IntegersOn, AgreeOn
<1>10. SumFunctionOnSet(e, T \cup {requestId}) = amount + SumFunctionOnSet(e, T)
  BY <1>7, <1>9, SumAdd
<1>11. Held(o, a) = SumFunctionOnSet(f, T) /\ Held(o, a)' = SumFunctionOnSet(e, A')
  BY <1>6, Zenon DEF Held
<1> HIDE DEF A
<1> QED BY <1>3, <1>6, <1>8, <1>10, <1>11

\* A reservation that is deleted is taken from its own account's sum.
LEMMA HeldAfterDeleting ==
    ASSUME VaultTypeOK, NEW requestId \in RequestId, reservations[requestId].active,
           DeleteReservation(requestId), NEW o \in Owner, NEW a \in Asset,
           NEW was, was = reservations[requestId]
    PROVE  /\ Held(o, a) = IF o = was.owner /\ a = was.asset THEN was.amount + Held(o, a)'
                                                             ELSE Held(o, a)'
           /\ Held(o, a)' \in Int
<1> DEFINE A == ActiveReservations(o, a)
<1>1. /\ \A r \in RequestId \ {requestId} : reservations'[r] = reservations[r]
      /\ ~reservations'[requestId].active
  BY DEF VaultTypeOK, DeleteReservation, NoReservation
<1>2. A \subseteq RequestId /\ (requestId \in A <=> o = was.owner /\ a = was.asset)
  BY DEF ActiveReservations
<1>3. A' = A \ {requestId}
  BY <1>1 DEF ActiveReservations
<1>4. AgreeOn(HeldAmounts', HeldAmounts, A \ {requestId}) /\ HeldAmounts[requestId] = was.amount
  BY <1>1, <1>2 DEF AgreeOn, HeldAmounts
<1>5. IsFiniteSet(A) /\ IntegersOn(HeldAmounts, A)
  BY HeldNumbers
<1>6. PICK f, e, T : f = HeldAmounts /\ e = HeldAmounts' /\ T = A
  OBVIOUS
<1>7. /\ IsFiniteSet(T) /\ IntegersOn(f, T) /\ AgreeOn(e, f, T \ {requestId})
      /\ f[requestId] = was.amount
  BY <1>4, <1>5, <1>6, Zenon
<1>8. IsFiniteSet(T \ {requestId}) /\ IntegersOn(f, T \ {requestId})
  BY <1>7, FS_Subset DEF IntegersOn
<1>9. SumFunctionOnSet(e, T \ {requestId}) = SumFunctionOnSet(f, T \ {requestId})
  BY <1>7, <1>8, SumSame
<1>10. requestId \in T => SumFunctionOnSet(f, T) = was.amount + SumFunctionOnSet(f, T \ {requestId})
  BY <1>7, SumWithout
<1>11. Held(o, a) = SumFunctionOnSet(f, T) /\ Held(o, a)' = SumFunctionOnSet(e, A')
  BY <1>6, Zenon DEF Held
<1>12. requestId \notin T => T \ {requestId} = T
  OBVIOUS
<1>13. SumFunctionOnSet(f, T \ {requestId}) \in Int
  BY <1>8, SumType
<1> HIDE DEF A
<1> QED BY <1>2, <1>3, <1>6, <1>9, <1>10, <1>11, <1>12, <1>13

\* What a call has to keep: it rewrites one entry, moves the reservations'
\* sum of that account with its reserved bucket, and lets no token go that is
\* still owed.
LEMMA SolvencyKept ==
    ASSUME VaultInv, Solvency, NEW owner \in Owner, NEW asset \in Asset, NEW entry \in Accounting,
           NEW was, was = accounts[owner][asset], UpdateAccount(owner, asset, entry),
           \A o \in Owner, a \in Asset :
              Held(o, a)' = Held(o, a) + (IF o = owner /\ a = asset
                                            THEN entry.reserved - was.reserved ELSE 0),
           balance' \in [Asset -> [Address -> Nat]],
           \A a \in Asset \ {asset} : balance'[a] = balance[a],
           balance'[asset][VaultAddress] - balance[asset][VaultAddress]
             >= (entry.available + entry.reserved) - (was.available + was.reserved)
    PROVE  Solvency'
<1>1. /\ accounts \in [Owner -> [Asset -> Accounting]] /\ was \in Accounting
      /\ balance \in [Asset -> [Address -> Nat]] /\ VaultAddress \in Address
  BY VaultAssumption DEF VaultInv, VaultTypeOK
<1>2. \A o \in Owner, a \in Asset :
         accounts'[o][a] = IF o = owner /\ a = asset THEN entry ELSE accounts[o][a]
  BY <1>1 DEF UpdateAccount
<1>3. ASSUME NEW o \in Owner, NEW a \in Asset PROVE accounts'[o][a].reserved = Held(o, a)'
  <2>1. accounts[o][a].reserved = Held(o, a) /\ accounts[o][a].reserved \in Nat
    BY <1>1, SolvencyIs DEF Accounting
  <2>2. entry.reserved \in Nat /\ was.reserved \in Nat
    BY <1>1 DEF Accounting
  <2>3. CASE o = owner /\ a = asset
    BY <1>2, <2>1, <2>2, <2>3
  <2>4. CASE ~ (o = owner /\ a = asset)
    <3>1. Held(o, a)' = Held(o, a) + 0
      BY <2>4
    <3>2. accounts'[o][a] = accounts[o][a]
      BY <1>2, <2>4
    <3> QED BY <2>1, <3>1, <3>2
  <2> QED BY <2>3, <2>4
<1>4. ASSUME NEW a \in Asset PROVE balance'[a][VaultAddress] >= Owed(a)'
  <2>1. balance[a][VaultAddress] >= Owed(a)
    BY SolvencyIs
  <2>2. balance[a][VaultAddress] \in Nat /\ balance'[a][VaultAddress] \in Nat
    BY <1>1
  <2>3. /\ Owed(a) \in Int
        /\ a = asset => Owed(a)' = Owed(a) + (entry.available + entry.reserved)
                                     - (was.available + was.reserved)
        /\ a # asset => Owed(a)' = Owed(a)
    BY <1>1, OwedMoves
  <2>4. entry.available + entry.reserved \in Nat /\ was.available + was.reserved \in Nat
    BY <1>1 DEF Accounting
  <2>5. CASE a = asset
    <3>1. PICK x, y : x = entry.available + entry.reserved /\ y = was.available + was.reserved
      OBVIOUS
    <3>2. balance'[a][VaultAddress] - balance[a][VaultAddress] >= x - y
      BY <2>5, <3>1
    <3>3. Owed(a)' = Owed(a) + x - y /\ x \in Nat /\ y \in Nat
      BY <2>3, <2>4, <2>5, <3>1
    <3> QED BY <2>1, <2>2, <2>3, <3>2, <3>3
  <2>6. CASE a # asset
    BY <2>1, <2>3, <2>6
  <2> QED BY <2>5, <2>6
<1>5. /\ \A o \in Owner, a \in Asset : accounts'[o][a].reserved = Held(o, a)'
      /\ \A a \in Asset : balance'[a][VaultAddress] >= Owed(a)'
  BY <1>3, <1>4
<1> QED BY <1>5, Zenon DEF Solvency, ReservedMatchesReservations, HoldsWhatItOwes, Held, HeldAmounts,
      Owed, OwedTo, SumFunction

LEMMA HeldUnmoved ==
    ASSUME VaultInv, Solvency, UNCHANGED reservations, NEW o \in Owner, NEW a \in Asset
    PROVE  Held(o, a) \in Int /\ Held(o, a)' = Held(o, a) + 0
<1>1. Held(o, a)' = Held(o, a)
  BY DEF Held, HeldAmounts, ActiveReservations
<1>2. Held(o, a) \in Int
  BY SolvencyIs DEF VaultInv, VaultTypeOK, Accounting
<1> QED BY <1>1, <1>2

\* The tokens a transfer takes from the vault, or none; other assets stay.
LEMMA TransferFromVault ==
    ASSUME NEW asset \in Asset, NEW to \in Address, NEW amount \in Nat,
           balance \in [Asset -> [Address -> Nat]], Transfer(asset, VaultAddress, to, amount)
    PROVE  /\ balance' \in [Asset -> [Address -> Nat]]
           /\ \A a \in Asset \ {asset} : balance'[a] = balance[a]
           /\ balance'[asset][VaultAddress] - balance[asset][VaultAddress] >= 0 - amount
<1>1. VaultAddress \in Address
  BY VaultAssumption
<1>2. balance' \in [Asset -> [Address -> Nat]]
  BY <1>1, TransferTypeOK
<1>3. CASE VaultAddress = to
  <2>1. balance' = balance
    BY <1>3 DEF Transfer
  <2> QED BY <1>1, <1>2, <2>1
<1>4. CASE VaultAddress # to
  <2>1. balance' = [balance EXCEPT ![asset] =
           [[balance[asset] EXCEPT ![VaultAddress] = @ - amount] EXCEPT ![to] = @ + amount]]
    BY <1>4 DEF Transfer
  <2>2. balance'[asset][VaultAddress] = balance[asset][VaultAddress] - amount
    BY <1>1, <1>4, <2>1
  <2>3. \A a \in Asset \ {asset} : balance'[a] = balance[a]
    BY <2>1
  <2> QED BY <1>1, <1>2, <2>2, <2>3
<1> QED BY <1>3, <1>4

LEMMA TransferToVault ==
    ASSUME NEW asset \in Asset, NEW from \in Address, NEW amount \in Nat,
           balance \in [Asset -> [Address -> Nat]], Transfer(asset, from, VaultAddress, amount)
    PROVE  /\ balance' \in [Asset -> [Address -> Nat]]
           /\ \A a \in Asset \ {asset} : balance'[a] = balance[a]
<1>1. VaultAddress \in Address
  BY VaultAssumption
<1>2. balance' \in [Asset -> [Address -> Nat]]
  BY <1>1, TransferTypeOK
<1>3. balance' = balance
        \/ \E b : balance' = [balance EXCEPT ![asset] = b]
  BY DEF Transfer
<1> QED BY <1>2, <1>3

LEMMA DeletingHeld ==
    ASSUME VaultInv, Solvency, NEW requestId \in RequestId, NEW r, r = reservations[requestId],
           r.active, DeleteReservation(requestId), NEW o \in Owner, NEW a \in Asset,
           NEW after, NEW before, after = before - r.amount, before \in Nat, r.amount \in Nat
    PROVE  Held(o, a)' = Held(o, a) + (IF o = r.owner /\ a = r.asset THEN after - before ELSE 0)
<1>1. Held(o, a) = IF o = r.owner /\ a = r.asset THEN r.amount + Held(o, a)' ELSE Held(o, a)'
  BY HeldAfterDeleting DEF VaultInv
<1>2. Held(o, a) \in Int
  BY SolvencyIs DEF VaultInv, VaultTypeOK, Accounting
<1>3. Held(o, a)' \in Int
  BY HeldAfterDeleting DEF VaultInv
<1> QED BY <1>1, <1>2, <1>3

LEMMA DepositSolvent ==
    ASSUME NEW sender \in Owner, NEW asset \in Asset, NEW amount \in Amount,
           NEW beneficiary \in Owner,
           VaultInv, Solvency, Deposit(sender, asset, amount, beneficiary)
    PROVE  Solvency'
<1>1. PICK was, entry : was = accounts[beneficiary][asset] /\ entry = EntryDeposited(was, amount)
  OBVIOUS
<1>2. was \in Accounting /\ amount \in Nat /\ sender \in Address
      /\ balance \in [Asset -> [Address -> Nat]] /\ VaultAddress \in Address
  BY <1>1, VaultAssumption DEF VaultInv, VaultTypeOK
<1>3. entry \in Accounting
  BY <1>1, <1>2, EntryUpdates
<1>4. entry.reserved = was.reserved /\ entry.available = was.available + amount
      /\ was.available \in Nat /\ was.reserved \in Nat
  BY <1>1, <1>2 DEF EntryDeposited, Accounting
<1>5. UpdateAccount(beneficiary, asset, entry) /\ UNCHANGED reservations
  BY <1>1 DEF Deposit
<1>6. /\ balance' \in [Asset -> [Address -> Nat]]
      /\ \A a \in Asset \ {asset} : balance'[a] = balance[a]
      /\ balance'[asset][VaultAddress] = balance[asset][VaultAddress] + amount
  BY <1>2, TransferToVault DEF Deposit, ReceivedExactly
<1>7. balance[asset][VaultAddress] \in Nat
  BY <1>2
<1>8. balance'[asset][VaultAddress] - balance[asset][VaultAddress]
        >= (entry.available + entry.reserved) - (was.available + was.reserved)
  BY <1>2, <1>4, <1>6, <1>7
<1>9. \A o \in Owner, a \in Asset :
         Held(o, a)' = Held(o, a) + (IF o = beneficiary /\ a = asset
                                       THEN entry.reserved - was.reserved ELSE 0)
  <2>1. entry.reserved - was.reserved = 0
    BY <1>4
  <2> QED BY <1>5, <2>1, HeldUnmoved
<1> QED BY <1>1, <1>3, <1>5, <1>6, <1>8, <1>9, SolvencyKept

LEMMA WithdrawSolvent ==
    ASSUME NEW owner \in Owner, NEW asset \in Asset, NEW amount \in Amount,
           NEW to \in Address \cup {ZeroAddress},
           VaultInv, Solvency, Withdraw(owner, asset, amount, to)
    PROVE  Solvency'
<1>1. PICK was, entry : was = accounts[owner][asset] /\ entry = EntryWithdrawn(was, amount)
  OBVIOUS
<1>2. was \in Accounting /\ amount \in Nat /\ to \in Address
      /\ balance \in [Asset -> [Address -> Nat]] /\ Covers(was, amount)
  BY <1>1, VaultAssumption DEF VaultInv, VaultTypeOK, Withdraw
<1>3. entry \in Accounting
  BY <1>1, <1>2, EntryUpdates
<1>4. entry.reserved = was.reserved /\ entry.available = was.available - amount
      /\ was.available \in Nat /\ was.reserved \in Nat
  BY <1>1, <1>2 DEF EntryWithdrawn, Accounting
<1>5. UpdateAccount(owner, asset, entry) /\ UNCHANGED reservations
  BY <1>1 DEF Withdraw
<1>6. /\ balance' \in [Asset -> [Address -> Nat]]
      /\ \A a \in Asset \ {asset} : balance'[a] = balance[a]
      /\ balance'[asset][VaultAddress] - balance[asset][VaultAddress] >= 0 - amount
  BY <1>2, TransferFromVault DEF Withdraw
<1>7. (entry.available + entry.reserved) - (was.available + was.reserved) = 0 - amount
  BY <1>2, <1>4
<1>8. \A o \in Owner, a \in Asset :
         Held(o, a)' = Held(o, a) + (IF o = owner /\ a = asset
                                       THEN entry.reserved - was.reserved ELSE 0)
  <2>1. entry.reserved - was.reserved = 0
    BY <1>4
  <2> QED BY <1>5, <2>1, HeldUnmoved
<1> QED BY <1>1, <1>3, <1>5, <1>6, <1>7, <1>8, SolvencyKept

LEMMA ReserveSolvent ==
    ASSUME NEW caller, NEW owner \in Owner, NEW asset \in Asset,
           NEW requestId \in RequestId, NEW amount \in Nat,
           VaultInv, Solvency, Reserve(caller, owner, asset, requestId, amount)
    PROVE  Solvency'
<1>1. PICK was, entry : was = accounts[owner][asset] /\ entry = EntryReserved(was, amount)
  OBVIOUS
<1>2. was \in Accounting /\ Covers(was, amount) /\ balance \in [Asset -> [Address -> Nat]]
      /\ VaultAddress \in Address
  BY <1>1, VaultAssumption DEF VaultInv, VaultTypeOK, Reserve
<1>3. entry \in Accounting
  BY <1>1, <1>2, EntryUpdates
<1>4. entry.reserved = was.reserved + amount /\ entry.available = was.available - amount
      /\ was.available \in Nat /\ was.reserved \in Nat
  BY <1>1, <1>2 DEF EntryReserved, Accounting
<1>5. UpdateAccount(owner, asset, entry) /\ UNCHANGED balance
  BY <1>1 DEF Reserve
<1>6. balance' \in [Asset -> [Address -> Nat]] /\ balance'[asset][VaultAddress] \in Nat
      /\ balance[asset][VaultAddress] \in Nat
  BY <1>2, <1>5
<1>7. (entry.available + entry.reserved) - (was.available + was.reserved) = 0
  BY <1>4
<1>8. balance'[asset][VaultAddress] - balance[asset][VaultAddress] >= 0
  BY <1>5, <1>6
<1>9. ASSUME NEW o \in Owner, NEW a \in Asset
      PROVE  Held(o, a)' = Held(o, a) + (IF o = owner /\ a = asset
                                           THEN entry.reserved - was.reserved ELSE 0)
  <2>1. Held(o, a)' = IF o = owner /\ a = asset THEN amount + Held(o, a) ELSE Held(o, a)
    BY HeldAfterReserving DEF VaultInv
  <2>2. Held(o, a) \in Int
    BY SolvencyIs DEF VaultInv, VaultTypeOK, Accounting
  <2>3. entry.reserved - was.reserved = amount
    BY <1>4
  <2> QED BY <2>1, <2>2, <2>3
<1> QED BY <1>1, <1>3, <1>5, <1>6, <1>7, <1>8, <1>9, SolvencyKept

LEMMA ReleaseSolvent ==
    ASSUME NEW caller, NEW requestId \in RequestId,
           VaultInv, Solvency, Release(caller, requestId)
    PROVE  Solvency'
<1>1. PICK r : r = reservations[requestId]
  OBVIOUS
<1>2. PICK was, entry : was = accounts[r.owner][r.asset] /\ entry = EntryReleased(was, r.amount)
  OBVIOUS
<1>3. r.owner \in Owner /\ r.asset \in Asset /\ r.amount \in Nat /\ r.active /\ DeleteReservation(requestId)
  BY <1>1, DeleteReservationInv DEF Release
<1>4. was \in Accounting /\ was.reserved >= r.amount /\ balance \in [Asset -> [Address -> Nat]]
      /\ VaultAddress \in Address
  BY <1>1, <1>2, <1>3, VaultAssumption DEF VaultInv, VaultTypeOK, Release
<1>5. entry \in Accounting
  BY <1>2, <1>3, <1>4, EntryUpdates
<1>6. entry.reserved = was.reserved - r.amount /\ entry.available = was.available + r.amount
      /\ was.available \in Nat /\ was.reserved \in Nat
  BY <1>2, <1>4 DEF EntryReleased, Accounting
<1>7. UpdateAccount(r.owner, r.asset, entry) /\ UNCHANGED balance
  BY <1>1, <1>2 DEF Release
<1>8. balance' \in [Asset -> [Address -> Nat]] /\ balance'[r.asset][VaultAddress] \in Nat
      /\ balance[r.asset][VaultAddress] \in Nat
  BY <1>3, <1>4, <1>7
<1>9. (entry.available + entry.reserved) - (was.available + was.reserved) = 0
  BY <1>3, <1>6
<1>10. balance'[r.asset][VaultAddress] - balance[r.asset][VaultAddress] >= 0
  BY <1>7, <1>8
<1>11. ASSUME NEW o \in Owner, NEW a \in Asset
      PROVE  Held(o, a)' = Held(o, a) + (IF o = r.owner /\ a = r.asset
                                           THEN entry.reserved - was.reserved ELSE 0)
  BY <1>1, <1>3, <1>6, DeletingHeld
<1> QED BY <1>2, <1>3, <1>5, <1>7, <1>8, <1>9, <1>10, <1>11, SolvencyKept

LEMMA ExecuteSolvent ==
    ASSUME NEW caller, NEW requestId \in RequestId, NEW target \in Address,
           VaultInv, Solvency, ExecuteReserved(caller, requestId, target)
    PROVE  Solvency'
<1>1. PICK r : r = reservations[requestId]
  OBVIOUS
<1>2. PICK was, entry : was = accounts[r.owner][r.asset] /\ entry = EntrySpent(was, r.amount)
  OBVIOUS
<1>3. r.owner \in Owner /\ r.asset \in Asset /\ r.amount \in Nat /\ r.active /\ DeleteReservation(requestId)
  BY <1>1, DeleteReservationInv DEF ExecuteReserved
<1>4. was \in Accounting /\ was.reserved >= r.amount /\ balance \in [Asset -> [Address -> Nat]]
  BY <1>1, <1>2, <1>3 DEF VaultInv, VaultTypeOK, ExecuteReserved
<1>5. entry \in Accounting
  BY <1>2, <1>3, <1>4, EntryUpdates
<1>6. entry.reserved = was.reserved - r.amount /\ entry.available = was.available
      /\ was.available \in Nat /\ was.reserved \in Nat
  BY <1>2, <1>4 DEF EntrySpent, Accounting
<1>7. UpdateAccount(r.owner, r.asset, entry) /\ Transfer(r.asset, VaultAddress, target, r.amount)
  BY <1>1, <1>2 DEF ExecuteReserved
<1>8. /\ balance' \in [Asset -> [Address -> Nat]]
      /\ \A a \in Asset \ {r.asset} : balance'[a] = balance[a]
      /\ balance'[r.asset][VaultAddress] - balance[r.asset][VaultAddress] >= 0 - r.amount
  BY <1>3, <1>4, <1>7, TransferFromVault
<1>9. (entry.available + entry.reserved) - (was.available + was.reserved) = 0 - r.amount
  BY <1>3, <1>6
<1>10. ASSUME NEW o \in Owner, NEW a \in Asset
      PROVE  Held(o, a)' = Held(o, a) + (IF o = r.owner /\ a = r.asset
                                           THEN entry.reserved - was.reserved ELSE 0)
  BY <1>1, <1>3, <1>6, DeletingHeld
<1> QED BY <1>2, <1>3, <1>5, <1>7, <1>8, <1>9, <1>10, SolvencyKept

-----------------------------------------------------------------------------
LEMMA VaultInitInv == VaultInit => VaultInv
BY VaultAssumption DEF VaultInit, FreshVault, VaultInv, VaultTypeOK, ReservationsNameAccounts,
   Conservation, Conserves, Accounting, NoAccounting, Reservation, NoReservation

LEMMA OwnerNextInv == VaultInv /\ OwnerNext => VaultInv'
BY DepositInv, WithdrawInv DEF OwnerNext, Deposit

LEMMA AdminNextInv == VaultInv /\ AdminNext => VaultInv'
BY DEF AdminNext, SetSupportedAsset, SetRouter, VaultInv, VaultTypeOK,
   ReservationsNameAccounts, Conservation, Conserves

LEMMA RouterCallNextInv == VaultInv /\ RouterCallNext => VaultInv'
BY VaultAssumption, ReserveInv, ReleaseInv, ExecuteReservedInv DEF RouterCallNext

LEMMA VaultNextInv == VaultInv /\ [VaultNext]_vaultVars => VaultInv'
<1>1. CASE UNCHANGED vaultVars
  BY <1>1 DEF vaultVars, VaultInv, VaultTypeOK, ReservationsNameAccounts,
     Conservation, Conserves
<1> QED BY <1>1, OwnerNextInv, AdminNextInv, RouterCallNextInv DEF VaultNext

\* The vault's variables keep their types: no bucket and no token balance
\* ever goes negative, whatever the owners, the router and the payees do.
THEOREM VaultTypeCorrect == VaultSpec => []VaultTypeOK
<1>1. VaultInv => VaultTypeOK
  BY DEF VaultInv
<1> QED BY <1>1, VaultInitInv, VaultNextInv, PTL DEF VaultSpec

\* deposited = available + reserved + spent + withdrawn + refunded in every
\* account of every reachable state: _assertConservation never reverts.
THEOREM VaultConservation == VaultSpec => []Conservation
<1>1. VaultInv => Conservation
  BY DEF VaultInv
<1> QED BY <1>1, VaultInitInv, VaultNextInv, PTL DEF VaultSpec

-----------------------------------------------------------------------------
(* What a vault owes it has.                                                *)

LEMMA FreshVaultSolvent ==
    ASSUME NEW assets, NEW r, FreshVault(assets, r), VaultInv
    PROVE  Solvency
<1>1. ASSUME NEW o \in Owner, NEW a \in Asset PROVE accounts[o][a].reserved = Held(o, a)
  <2>1. ActiveReservations(o, a) = {}
    BY DEF FreshVault, ActiveReservations, NoReservation
  <2>2. Held(o, a) = 0
    BY <2>1, SumEmpty DEF Held
  <2> QED BY <2>2 DEF FreshVault, NoAccounting
<1>2. ASSUME NEW a \in Asset PROVE balance[a][VaultAddress] >= Owed(a)
  <2>1. \A o \in Owner : OwedTo(a)[o] = 0
    BY DEF FreshVault, OwedTo, NoAccounting
  <2>2. IsFiniteSet(Owner) /\ IntegersOn(OwedTo(a), Owner)
    BY <2>1, VaultAssumption DEF IntegersOn
  <2>3. Owed(a) = 0
    BY <2>1, <2>2, SumZero DEF Owed
  <2>4. balance[a][VaultAddress] \in Nat
    BY VaultAssumption DEF VaultInv, VaultTypeOK
  <2> QED BY <2>3, <2>4
<1> QED BY <1>1, <1>2, SolvencyIs

LEMMA QuietSolvent ==
    Solvency /\ UNCHANGED <<accounts, reservations, balance>> => Solvency'
<1> SUFFICES ASSUME Solvency, UNCHANGED <<accounts, reservations, balance>> PROVE Solvency'
  OBVIOUS
<1>1. \A o, a : ActiveReservations(o, a)' = ActiveReservations(o, a)
  BY DEF ActiveReservations
<1> QED BY <1>1 DEF Solvency, ReservedMatchesReservations, HoldsWhatItOwes

LEMMA VaultNextSolvent == VaultInv /\ Solvency /\ [VaultNext]_vaultVars => Solvency'
<1> SUFFICES ASSUME VaultInv, Solvency, [VaultNext]_vaultVars PROVE Solvency'
  OBVIOUS
<1>1. CASE OwnerNext
  BY <1>1, DepositSolvent, WithdrawSolvent DEF OwnerNext, Deposit
<1>2. CASE AdminNext
  BY <1>2, QuietSolvent DEF AdminNext, SetSupportedAsset, SetRouter
<1>3. CASE RouterCallNext
  BY <1>3, VaultAssumption, ReserveSolvent, ReleaseSolvent, ExecuteSolvent DEF RouterCallNext
<1>4. CASE UNCHANGED vaultVars
  BY <1>4, QuietSolvent DEF vaultVars
<1> QED BY <1>1, <1>2, <1>3, <1>4 DEF VaultNext

\* Whatever owners, routers and payees do, an account's reserved bucket is the
\* sum of its live reservations, and the vault holds at least what it owes all
\* owners of an asset together: no call of PayGuardVault.sol finds too little
\* reserved, or too few tokens, for what an account says can be taken.
THEOREM VaultSolvent == VaultSpec => []Solvency
<1>1. VaultInit => Solvency
  BY VaultInitInv, FreshVaultSolvent DEF VaultInit
<1> QED BY <1>1, VaultInitInv, VaultNextInv, VaultNextSolvent, PTL DEF VaultSpec

-----------------------------------------------------------------------------
(* How a reservation ends.                                                  *)

\* Only the router's two settling calls end a reservation, and each its own.
LEMMA OnlySettlingEnds ==
    ASSUME VaultInv, [VaultNext]_vaultVars, NEW r \in RequestId, Ends(r)
    PROVE  \E caller \in Address :
             Release(caller, r) \/ \E target \in Address : ExecuteReserved(caller, r, target)
<1>1. reservations \in [RequestId -> Reservation]
  BY DEF VaultInv, VaultTypeOK
<1>2. reservations' # reservations
  BY DEF Ends
<1>3. RouterCallNext
  BY <1>2 DEF VaultNext, OwnerNext, Deposit, Withdraw, AdminNext, SetSupportedAsset,
     SetRouter, vaultVars
<1>4. PICK caller \in Address, q \in RequestId :
        \/ \E owner \in Owner, asset \in Asset, amount \in Amount :
             Reserve(caller, owner, asset, q, amount)
        \/ Release(caller, q)
        \/ \E target \in Address : ExecuteReserved(caller, q, target)
  BY <1>3 DEF RouterCallNext
<1>5. ASSUME NEW owner, NEW asset, NEW amount, Reserve(caller, owner, asset, q, amount)
      PROVE  FALSE
  <2>1. /\ ~reservations[q].active
        /\ reservations' = [reservations EXCEPT ![q] =
             [owner |-> owner, asset |-> asset, amount |-> amount, active |-> TRUE]]
    BY <1>5 DEF Reserve
  <2>2. r # q
    BY <2>1 DEF Ends
  <2> QED BY <1>1, <2>1, <2>2 DEF Ends
<1>6. CASE Release(caller, q) \/ \E target \in Address : ExecuteReserved(caller, q, target)
  <2>1. reservations' = [reservations EXCEPT ![q] = NoReservation]
    BY <1>6 DEF Release, ExecuteReserved, DeleteReservation
  <2>2. r = q
    BY <1>1, <2>1 DEF Ends
  <2> QED BY <1>6, <2>2
<1> QED BY <1>4, <1>5, <1>6

\* What the settling calls write into the account.
LEMMA SettlingWrites ==
    ASSUME VaultInv, NEW r \in RequestId, NEW caller, NEW o, NEW a, NEW n,
           o = reservations[r].owner, a = reservations[r].asset, n = reservations[r].amount,
           Release(caller, r) \/ \E target \in Address : ExecuteReserved(caller, r, target)
    PROVE  /\ accounts'[o][a].reserved = accounts[o][a].reserved - n
           /\ \/ /\ accounts'[o][a].available = accounts[o][a].available + n
                 /\ accounts'[o][a].spent = accounts[o][a].spent
              \/ /\ accounts'[o][a].available = accounts[o][a].available
                 /\ accounts'[o][a].spent = accounts[o][a].spent + n
           /\ \A p \in Owner \ {o}, b \in Asset : accounts'[p][b] = accounts[p][b]
<1>1. /\ reservations[r].active /\ DeleteReservation(r)
      /\ \/ UpdateAccount(o, a, EntryReleased(accounts[o][a], n))
         \/ UpdateAccount(o, a, EntrySpent(accounts[o][a], n))
  BY DEF Release, ExecuteReserved
<1>2. o \in Owner /\ a \in Asset /\ n \in Nat
  BY <1>1, DeleteReservationInv
<1>3. accounts \in [Owner -> [Asset -> Accounting]] /\ accounts[o][a] \in Accounting
  BY <1>2 DEF VaultInv, VaultTypeOK
<1>4. PICK entry : /\ UpdateAccount(o, a, entry)
                   /\ \/ entry = EntryReleased(accounts[o][a], n)
                      \/ entry = EntrySpent(accounts[o][a], n)
  BY <1>1
<1>5. /\ accounts'[o][a] = entry
      /\ \A p \in Owner \ {o}, b \in Asset : accounts'[p][b] = accounts[p][b]
  BY <1>2, <1>3, <1>4 DEF UpdateAccount
<1>6. /\ entry.reserved = accounts[o][a].reserved - n
      /\ \/ /\ entry.available = accounts[o][a].available + n
            /\ entry.spent = accounts[o][a].spent
         \/ /\ entry.available = accounts[o][a].available
            /\ entry.spent = accounts[o][a].spent + n
  BY <1>3, <1>4 DEF EntryReleased, EntrySpent, Accounting
<1> QED BY <1>5, <1>6

\* A live reservation ends only in release or execute, which move its whole
\* amount to exactly one bucket of the account it was taken from.
THEOREM SettledOnce == VaultSpec => ReservationSettledOnce
<1>1. VaultInv /\ [VaultNext]_vaultVars =>
        [\A r \in RequestId : Ends(r) =>
          LET o == reservations[r].owner
              a == reservations[r].asset
              n == reservations[r].amount
          IN /\ accounts'[o][a].reserved = accounts[o][a].reserved - n
             /\ \/ /\ accounts'[o][a].available = accounts[o][a].available + n
                   /\ accounts'[o][a].spent = accounts[o][a].spent
                \/ /\ accounts'[o][a].available = accounts[o][a].available
                   /\ accounts'[o][a].spent = accounts[o][a].spent + n
             /\ \A p \in Owner \ {o}, b \in Asset : accounts'[p][b] = accounts[p][b]
        ]_vaultVars
  BY OnlySettlingEnds, SettlingWrites
<1> QED BY <1>1, VaultInitInv, VaultNextInv, PTL DEF VaultSpec, ReservationSettledOnce

-----------------------------------------------------------------------------
(* Types and bindings: a registered policy stays registered, under the     *)
(* binding it was registered with.                                         *)

BindingsAreFinal ==
    \A p \in Policy : Registered(p) =>
        Registered(p)' /\ policies'[p].binding = policies[p].binding

LEMMA RegistrationStep ==
    ASSUME RegistryTypeOK, RegistrationNext
    PROVE  RegistryTypeOK' /\ BindingsAreFinal
<1>1. PICK b \in Binding : \E receipts \in [Slot -> Receipt] : RegisterPolicy(b, receipts)
  BY DEF RegistrationNext
<1>2. b \in BindingType /\ b.commitment \in Policy
  BY RegistryAssumption DEF BindingType
<1>3. /\ ~Registered(b.commitment)
      /\ policies' = [policies EXCEPT ![b.commitment] = [status |-> "Active", binding |-> b]]
      /\ UNCHANGED <<admin, globallyPaused, official, now>>
  BY <1>1 DEF RegisterPolicy
<1>4. [status |-> "Active", binding |-> b] \in PolicyRecord
  BY <1>2 DEF PolicyRecord, StoredStatus
<1>5. /\ policies' \in [Policy -> PolicyRecord]
      /\ \A p \in Policy : Registered(p)' => policies'[p].binding \in Binding
  BY <1>2, <1>3, <1>4 DEF RegistryTypeOK, Registered
<1> QED BY <1>2, <1>3, <1>5 DEF RegistryTypeOK, BindingsAreFinal, Registered

LEMMA SetStatusStep ==
    ASSUME RegistryTypeOK, NEW p \in Policy, Registered(p),
           NEW status \in StoredStatus \ {"Unregistered"}, SetStatus(p, status)
    PROVE  RegistryTypeOK' /\ BindingsAreFinal
<1>1. /\ policies \in [Policy -> PolicyRecord]
      /\ policies' = [policies EXCEPT ![p] = [policies[p] EXCEPT !.status = status]]
      /\ UNCHANGED <<admin, globallyPaused, official, now>>
  BY DEF SetStatus, RegistryTypeOK
<1>2. /\ [policies[p] EXCEPT !.status = status] \in PolicyRecord
      /\ [policies[p] EXCEPT !.status = status].status = status
      /\ [policies[p] EXCEPT !.status = status].binding = policies[p].binding
  BY <1>1 DEF PolicyRecord
<1>3. \A q \in Policy : q # p => policies'[q] = policies[q]
  BY <1>1
<1>4. policies'[p] = [policies[p] EXCEPT !.status = status]
  BY <1>1
<1>5. policies' \in [Policy -> PolicyRecord]
  BY <1>1, <1>2
<1>6. BindingsAreFinal
  BY <1>2, <1>3, <1>4 DEF BindingsAreFinal, Registered
<1>7. \A q \in Policy : Registered(q)' => policies'[q].binding \in Binding
  BY <1>2, <1>3, <1>4 DEF RegistryTypeOK, Registered
<1> QED BY <1>1, <1>5, <1>6, <1>7 DEF RegistryTypeOK

LEMMA RegistryStep ==
    ASSUME RegistryTypeOK, RegistryNext
    PROVE  RegistryTypeOK' /\ BindingsAreFinal
<1>1. CASE RegistrationNext
  BY <1>1, RegistrationStep
<1>2. CASE LifecycleNext
  <2>1. PICK p \in Policy, caller \in Address :
          StopPolicy(p, caller) \/ ResumePolicy(p, caller) \/ RevokePolicy(p, caller)
    BY <1>2 DEF LifecycleNext
  <2>2. /\ Registered(p)
        /\ \E status \in {"Active", "Stopped", "Revoked"} : SetStatus(p, status)
    BY <2>1 DEF StopPolicy, ResumePolicy, RevokePolicy, Owned
  <2> QED BY <2>2, SetStatusStep DEF StoredStatus
<1>3. CASE GovernanceNext
  <2>1. /\ policies' = policies
        /\ admin' \in {admin, ZeroAddress} /\ globallyPaused' \in BOOLEAN
        /\ UNCHANGED <<official, now>>
    BY <1>3 DEF GovernanceNext, SetGlobalPause, RenounceAdmin, RegistryTypeOK
  <2> QED BY <2>1 DEF RegistryTypeOK, BindingsAreFinal, Registered
<1>4. ASSUME NEW machine \in Machine, ManagerDrift(machine)
      PROVE  RegistryTypeOK' /\ BindingsAreFinal
  BY <1>4 DEF ManagerDrift, RegistryTypeOK, BindingsAreFinal, Registered
<1>5. CASE Tick
  BY <1>5, RegistryAssumption DEF Tick, RegistryTypeOK, BindingsAreFinal, Registered
<1> QED BY <1>1, <1>2, <1>3, <1>4, <1>5 DEF RegistryNext

LEMMA QuietRegistry ==
    ASSUME RegistryTypeOK, UNCHANGED registryVars
    PROVE  RegistryTypeOK' /\ BindingsAreFinal
BY DEF registryVars, RegistryTypeOK, BindingsAreFinal, Registered

LEMMA RegistryInitTyped == RegistryInit => RegistryTypeOK
<1> SUFFICES ASSUME RegistryInit PROVE RegistryTypeOK
  OBVIOUS
<1>1. [status |-> "Unregistered", binding |-> NoBinding] \in PolicyRecord
  BY DEF PolicyRecord, StoredStatus
<1>2. policies \in [Policy -> PolicyRecord]
  BY <1>1 DEF RegistryInit
<1>3. \A p \in Policy : ~Registered(p)
  BY DEF RegistryInit, Registered
<1>4. /\ admin \in {Admin, ZeroAddress} /\ globallyPaused \in BOOLEAN
      /\ official \subseteq Machine
  BY ZenonT(30) DEF RegistryInit
<1>5. now \in 0..MaxTime
  <2>1. now = 0 /\ MaxTime \in Nat
    BY RegistryAssumption DEF RegistryInit
  <2> QED BY <2>1
<1> QED BY <1>2, <1>3, <1>4, <1>5 DEF RegistryTypeOK

-----------------------------------------------------------------------------
(* The registry's own promises.                                            *)

LEMMA RegistryTyped == RegistrySpec => []RegistryTypeOK
<1>1. RegistryTypeOK /\ [RegistryNext]_registryVars => RegistryTypeOK'
  BY RegistryStep, QuietRegistry
<1> QED BY <1>1, RegistryInitTyped, PTL DEF RegistrySpec

\* A pause can be lifted in every reachable state: only the administrator
\* pauses, and leaves only when nothing is paused.
THEOREM PausesAreLiftable == RegistrySpec => []PauseIsRecoverable
<1> DEFINE Inv == admin \in {Admin, ZeroAddress} /\ PauseIsRecoverable
<1>1. RegistryInit => Inv
  BY DEF RegistryInit, PauseIsRecoverable
<1>2. Inv /\ [RegistryNext]_registryVars => Inv'
  <2> SUFFICES ASSUME Inv, [RegistryNext]_registryVars PROVE Inv'
    OBVIOUS
  <2>1. CASE UNCHANGED <<admin, globallyPaused>>
    BY <2>1 DEF PauseIsRecoverable
  <2>2. ASSUME NEW caller \in Address, NEW paused \in BOOLEAN, SetGlobalPause(paused, caller)
        PROVE  Inv'
    <3>1. caller = admin /\ admin' = admin
      BY <2>2 DEF SetGlobalPause
    <3>2. admin = Admin
      BY <3>1, ZeroAddressAssumption
    <3> QED BY <3>1, <3>2 DEF PauseIsRecoverable
  <2>3. ASSUME NEW caller \in Address, RenounceAdmin(caller)
        PROVE  Inv'
    BY <2>3 DEF RenounceAdmin, PauseIsRecoverable
  <2>4. ASSUME ~UNCHANGED <<admin, globallyPaused>>
        PROVE  GovernanceNext
    BY <2>4 DEF RegistryNext, registryVars, RegistrationNext, RegisterPolicy, LifecycleNext,
       StopPolicy, ResumePolicy, RevokePolicy, SetStatus, ManagerDrift, Tick
  <2> QED BY <2>1, <2>2, <2>3, <2>4 DEF GovernanceNext
<1>3. Inv => PauseIsRecoverable
  OBVIOUS
<1> HIDE DEF Inv
<1> QED BY <1>1, <1>2, <1>3, PTL DEF RegistrySpec

\* One step at a time: a policy turns active only by its owner's resume, or
\* because the pause that hid it is lifted.
LEMMA ReactivationStep ==
    ASSUME RegistryTypeOK, [RegistryNext]_registryVars, NEW p \in Policy, Registered(p),
           effectiveStatus(p) # "Active", effectiveStatus(p)' = "Active"
    PROVE  \/ policies[p].status = "Stopped" /\ globallyPaused' = globallyPaused
           \/ policies[p].status = "Active" /\ globallyPaused /\ ~globallyPaused'
<1> USE DEF effectiveStatus
<1>1. CASE UNCHANGED <<policies, globallyPaused>>
  BY <1>1
<1>2. CASE RegistrationNext
  <2>1. PICK b \in Binding : ~Registered(b.commitment) /\ globallyPaused' = globallyPaused
              /\ policies' = [policies EXCEPT ![b.commitment] =
                                [status |-> "Active", binding |-> b]]
    BY <1>2 DEF RegistrationNext, RegisterPolicy
  <2>2. b.commitment # p
    BY <2>1
  <2>3. policies'[p] = policies[p]
    BY <2>1, <2>2 DEF RegistryTypeOK
  <2> QED BY <2>1, <2>3
<1>3. CASE LifecycleNext
  <2>1. PICK q \in Policy, caller \in Address :
          StopPolicy(q, caller) \/ ResumePolicy(q, caller) \/ RevokePolicy(q, caller)
    BY <1>3 DEF LifecycleNext
  <2>2. policies \in [Policy -> PolicyRecord] /\ globallyPaused' = globallyPaused
    BY <2>1 DEF RegistryTypeOK, StopPolicy, ResumePolicy, RevokePolicy, SetStatus
  <2>3. CASE q # p
    <3>1. policies'[p] = policies[p]
      BY <2>1, <2>2, <2>3 DEF StopPolicy, ResumePolicy, RevokePolicy, SetStatus
    <3> QED BY <2>2, <3>1
  <2>4. CASE q = p /\ ResumePolicy(q, caller)
    BY <2>2, <2>4 DEF ResumePolicy
  <2>5. CASE q = p /\ (StopPolicy(q, caller) \/ RevokePolicy(q, caller))
    <3>1. policies'[p].status \in {"Stopped", "Revoked"}
      BY <2>2, <2>5 DEF StopPolicy, RevokePolicy, SetStatus, PolicyRecord
    <3> QED BY <3>1
  <2> QED BY <2>1, <2>3, <2>4, <2>5
<1>4. CASE GovernanceNext
  <2>1. policies' = policies /\ globallyPaused' \in BOOLEAN /\ globallyPaused \in BOOLEAN
    BY <1>4 DEF GovernanceNext, SetGlobalPause, RenounceAdmin, RegistryTypeOK
  <2> QED BY <2>1
<1> QED BY <1>1, <1>2, <1>3, <1>4 DEF RegistryNext, ManagerDrift, Tick, registryVars

\* Registration freezes a binding for good, and no governance, no manager and
\* no second registration makes a policy active that its owner had not left so.
THEOREM OwnersReactivate == RegistrySpec => OnlyOwnersReactivate
<1>1. RegistryTypeOK /\ [RegistryNext]_registryVars =>
        [\A p \in Policy : Registered(p) =>
          /\ policies'[p].binding = policies[p].binding
          /\ (effectiveStatus(p) # "Active" /\ effectiveStatus(p)' = "Active") =>
             \/ policies[p].status = "Stopped" /\ globallyPaused' = globallyPaused
             \/ policies[p].status = "Active" /\ globallyPaused /\ ~globallyPaused'
        ]_registryVars
  <2> SUFFICES ASSUME RegistryTypeOK, [RegistryNext]_registryVars,
                      NEW p \in Policy, Registered(p)
               PROVE  /\ policies'[p].binding = policies[p].binding
                      /\ (effectiveStatus(p) # "Active" /\ effectiveStatus(p)' = "Active") =>
                         \/ policies[p].status = "Stopped" /\ globallyPaused' = globallyPaused
                         \/ policies[p].status = "Active" /\ globallyPaused /\ ~globallyPaused'
    OBVIOUS
  <2>1. BindingsAreFinal
    BY RegistryStep, QuietRegistry
  <2>2. policies'[p].binding = policies[p].binding
    BY <2>1 DEF BindingsAreFinal
  <2> QED BY <2>2, ReactivationStep
<1> QED BY <1>1, RegistryTyped, PTL DEF RegistrySpec, OnlyOwnersReactivate

-----------------------------------------------------------------------------
(* The accepted signers.                                                   *)

\* What RegisterPolicy checked of a binding before it froze it.
Receipted(p) ==
    /\ policies[p].binding.commitment = p /\ policies[p].binding.owner # ZeroAddress
    /\ Distinct(policies[p].binding.machines) /\ Distinct(policies[p].binding.keys)
    /\ \A i \in Slot : \E r \in Receipt :
         /\ r.machine = policies[p].binding.machines[i]
         /\ r.key = policies[p].binding.keys[i]
         /\ r.binding.commitment = p

BindingsReceipted == \A p \in Policy : Registered(p) => Receipted(p)

\* Only a registration makes a policy registered.
LEMMA OnlyRegistrationRegisters ==
    ASSUME RegistryTypeOK, [RegistryNext]_registryVars, ~RegistrationNext,
           NEW p \in Policy, Registered(p)'
    PROVE  Registered(p)
<1>1. CASE LifecycleNext
  <2>1. PICK q \in Policy : Registered(q) /\ \E status \in StoredStatus : SetStatus(q, status)
    BY <1>1 DEF LifecycleNext, StopPolicy, ResumePolicy, RevokePolicy, Owned, StoredStatus
  <2>2. CASE q = p
    BY <2>1, <2>2
  <2>3. CASE q # p
    <3>1. policies'[p] = policies[p]
      BY <2>1, <2>3 DEF SetStatus, RegistryTypeOK
    <3> QED BY <3>1 DEF Registered
  <2> QED BY <2>2, <2>3
<1>2. CASE UNCHANGED policies
  BY <1>2 DEF Registered
<1> QED BY <1>1, <1>2 DEF RegistryNext, registryVars, GovernanceNext, SetGlobalPause,
        RenounceAdmin, ManagerDrift, Tick

LEMMA ReceiptedStep ==
    ASSUME RegistryTypeOK, BindingsReceipted, [RegistryNext]_registryVars
    PROVE  BindingsReceipted'
<1>1. BindingsAreFinal
  BY RegistryStep, QuietRegistry
<1>2. ASSUME NEW p \in Policy, Registered(p)
      PROVE  Receipted(p)'
  <2>1. policies'[p].binding = policies[p].binding
    BY <1>1, <1>2 DEF BindingsAreFinal
  <2> QED BY <1>2, <2>1 DEF BindingsReceipted, Receipted
<1>3. ASSUME NEW p \in Policy, ~Registered(p), Registered(p)', RegistrationNext
      PROVE  Receipted(p)'
  <2>1. PICK b \in Binding : \E receipts \in [Slot -> Receipt] : RegisterPolicy(b, receipts)
    BY <1>3 DEF RegistrationNext
  <2>2. PICK receipts \in [Slot -> Receipt] : RegisterPolicy(b, receipts)
    BY <2>1
  <2>3. /\ policies' = [policies EXCEPT ![b.commitment] =
                          [status |-> "Active", binding |-> b]]
        /\ Distinct(b.machines) /\ Distinct(b.keys) /\ b.owner # ZeroAddress
        /\ \A i \in Slot : ReceiptAccepted(b, receipts, i)
    BY <2>2 DEF RegisterPolicy
  <2>4. b.commitment = p
    <3>1. CASE b.commitment # p
      <4>1. policies'[p] = policies[p]
        BY <2>3, <3>1 DEF RegistryTypeOK
      <4> QED BY <1>3, <4>1 DEF Registered
    <3> QED BY <3>1
  <2>5. policies'[p].binding = b
    BY <2>3, <2>4 DEF RegistryTypeOK
  <2>6. \A i \in Slot : /\ receipts[i] \in Receipt
                        /\ receipts[i].machine = b.machines[i]
                        /\ receipts[i].key = b.keys[i]
                        /\ receipts[i].binding.commitment = p
    BY <2>3, <2>4 DEF ReceiptAccepted
  <2> QED BY <2>3, <2>4, <2>5, <2>6 DEF Receipted
<1> QED BY <1>2, <1>3, OnlyRegistrationRegisters DEF BindingsReceipted

LEMMA AtMostThree ==
    ASSUME NEW a, NEW b, NEW c, NEW S \in SUBSET {a, b, c}
    PROVE  Cardinality(S) <= 3
<1> DEFINE two == {a} \cup {b}
<1> DEFINE three == two \cup {c}
<1>1. IsFiniteSet({a}) /\ Cardinality({a}) = 1
  BY FS_Singleton
<1>2. /\ IsFiniteSet(two)
      /\ Cardinality(two) = Cardinality({a}) \/ Cardinality(two) = Cardinality({a}) + 1
  BY <1>1, FS_AddElement
<1>3. Cardinality(two) \in Nat /\ Cardinality(two) <= 2
  BY <1>1, <1>2
<1>4. /\ IsFiniteSet(three)
      /\ Cardinality(three) = Cardinality(two) \/ Cardinality(three) = Cardinality(two) + 1
  <2> HIDE DEF two
  <2> QED BY <1>2, FS_AddElement
<1>5. Cardinality(three) \in Nat /\ Cardinality(three) <= 3
  BY <1>3, <1>4
<1>6. S \subseteq three
  OBVIOUS
<1> HIDE DEF three
<1>7. Cardinality(S) \in Nat /\ Cardinality(S) <= Cardinality(three)
  BY <1>4, <1>6, FS_Subset, FS_CardinalityType
<1> QED BY <1>5, <1>7

LEMMA SignersBound ==
    ASSUME NEW p \in Policy, Registered(p) => Receipted(p)
    PROVE  /\ Cardinality(Signers(p)) <= 3
           /\ \A s, t \in Signers(p) : s[1] = t[1] <=> s[2] = t[2]
           /\ \A s \in Signers(p) : \E r \in Receipt :
                r.machine = s[1] /\ r.key = s[2] /\ r.binding.commitment = p
<1> DEFINE binding == policies[p].binding
<1> DEFINE pair(i) == <<binding.machines[i], binding.keys[i]>>
<1>1. \A s \in Signers(p) :
        /\ Registered(p) /\ s[2].tee = s[1]
        /\ \E i \in Slot : s = pair(i) /\ binding.machines[i] = s[1] /\ binding.keys[i] = s[2]
  BY DEF Signers, isFrozenSigner
<1>2. Cardinality(Signers(p)) <= 3
  <2>1. Signers(p) \subseteq {pair(1), pair(2), pair(3)}
    BY <1>1 DEF Slot
  <2> HIDE DEF pair
  <2> QED BY <2>1, AtMostThree
<1>3. ASSUME NEW s \in Signers(p), NEW t \in Signers(p)
      PROVE  s[1] = t[1] <=> s[2] = t[2]
  <2>1. PICK i \in Slot : binding.machines[i] = s[1] /\ binding.keys[i] = s[2]
    BY <1>1, <1>3
  <2>2. PICK j \in Slot : binding.machines[j] = t[1] /\ binding.keys[j] = t[2]
    BY <1>1, <1>3
  <2>3. s[1] = t[1] => i = j
    BY <1>1, <1>3, <2>1, <2>2 DEF Receipted, Distinct
  <2> QED BY <1>1, <1>3, <2>1, <2>2, <2>3
<1>4. ASSUME NEW s \in Signers(p)
      PROVE  \E r \in Receipt : r.machine = s[1] /\ r.key = s[2] /\ r.binding.commitment = p
  BY <1>1, <1>4 DEF Receipted
<1> QED BY <1>2, <1>3, <1>4

\* Whoever may vote under a policy gave a receipt for it: at most three
\* machines, one key each, whatever the manager drops and admits again.
THEOREM SignersGaveReceipts == RegistrySpec => []SignersAreReceipted
<1>1. RegistryInit => BindingsReceipted
  BY DEF RegistryInit, BindingsReceipted, Registered
<1>2. RegistryTypeOK /\ BindingsReceipted /\ [RegistryNext]_registryVars => BindingsReceipted'
  BY ReceiptedStep
<1>3. BindingsReceipted => SignersAreReceipted
  BY SignersBound DEF BindingsReceipted, SignersAreReceipted
<1> QED BY <1>1, <1>2, <1>3, RegistryTyped, PTL DEF RegistrySpec
=============================================================================
