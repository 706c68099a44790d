---------------------------- MODULE PayGuardTypes ----------------------------
(***************************************************************************)
(* The values the contracts share, packages/contracts/src/PayGuardTypes.sol.*)
(* Hashes are ideal: two values have the same hash only when they are the   *)
(* same value, so a hash is modelled by what it commits to.                 *)
(***************************************************************************)
EXTENDS Integers, Sequences

CONSTANTS
    Address,        \* the non-zero addresses that call, own, hold or receive
    ZeroAddress,
    Asset,          \* ERC-20 tokens
    Policy,         \* policy commitments
    RequestId

ASSUME ZeroAddressAssumption == ZeroAddress \notin Address

\* A spend checkpoint is the hash chain of the payments a policy made: the
\* policy's genesis, extended at each payment by the request and by the time
\* its evaluation was accounted at.
Payment == [requestId: RequestId, accountedAt: Nat]
Checkpoint == [policy: Policy, history: Seq(Payment)]

genesisSpendCheckpoint(policy) == [policy |-> policy, history |-> <<>>]

\* The request's own checkpoint, hash, amount and occurrence, and the time.
nextSpendCheckpoint(request, accountedAt) ==
    [request.spendCheckpoint EXCEPT !.history =
        Append(@, [requestId |-> request.requestId, accountedAt |-> accountedAt])]

\* A frozen request.  Its deployment fields (chain, registry, vault, router,
\* policy identifier and version, action type) have one accepted value, its
\* oracle and balance commitments and its attempt are only ever compared as
\* part of the hash, and its grace deadline lies between the two times.
ActionRequest ==
    [policyCommitment: Policy, requestId: RequestId, requestNonce: Nat,
     requester: Address, target: Address, asset: Asset, amount: Nat,
     occurrence: Nat, spendCheckpoint: Checkpoint, createdAt: Nat, expiry: Nat]

\* What a machine signs about a request, without the machine's own identity:
\* the value evaluationDigest commits to.  The embedded request, nonce,
\* attempt and expiry are accepted only when they repeat the request's own.
EvaluationResult ==
    [decision: {"ALLOW", "DENY"}, publicReasonClass: Nat, reservedAmount: Nat,
     resultingCheckpoint: Checkpoint, issuedAt: Nat]
=============================================================================
