------------------------------ MODULE DirectMint ------------------------------
(***************************************************************************)
(* Funding the vault from the XRP Ledger, and the two scripts that tell of *)
(* it.  A payer reads the fees of the asset manager, the payment address   *)
(* and the nonce of its personal account                                   *)
(* (packages/integrations/src/fassets-direct-mint.ts, smart-account.ts),   *)
(* and pays the quoted total with a memo that commits to an operation; an  *)
(* executor confirms the payment (xrpl-public.ts) and presents its proof   *)
(* (fassets-direct-mint-call.ts).  The asset manager mints and lets the    *)
(* personal account perform the operation, at once or, after a delay, on   *)
(* a later call; the first call then succeeds as well and mints nothing.   *)
(* tooling/coston2-direct-mint-observation.mjs publishes a quote, and      *)
(* tooling/coston2-funding-resume.mjs audits a funding of the past, which  *)
(* a reference file names, against what the chains say now.                *)
(*                                                                         *)
(* Readings of one Promise.all come from different blocks.  There is one   *)
(* payer, personal account, beneficiary, executor and FAsset; a payment is *)
(* attested to in one round; a hash is what is hashed.                     *)
(***************************************************************************)
EXTENDS Integers, SequencesExt

CONSTANTS
    Manager,        \* the asset managers the registry ever names
    Bips,           \* DIRECT_MINTING_BIPS_DENOMINATOR, 10,000
    MaxAmount,      \* MAX_UINT256
    MaxCalls,       \* MAX_CALLS, 64
    NetAmount,      \* the amounts a payer wants to have minted
    Instruction,    \* the calls an operation may consist of: [target, amount, value]
    MaxSettings,    \* bound: settings the asset managers and the registry ever have
    MaxPayments,    \* bound
    MaxMints        \* bound

ASSUME DirectMintAssumption == Bips \in Nat \ {0} /\ MaxAmount \in Nat /\ MaxCalls \in Nat

VARIABLES
    settings,       \* what the registry and the asset managers said, the last is current
    personalAccount, \* the personal account: its nonce, and what it deposited into the vault
    asked,          \* what the payer, or the observation script, has read so far
    payments,       \* XRPL payments: [destination, amount, memo, status]
    mints,          \* transactions to the asset managers: [call, outcome, deposit]
    audit,          \* the audit script at work
    observations,   \* the evidence of the observation script
    audits          \* the evidence of the audit script

mintVars == <<settings, personalAccount, asked, payments, mints, audit, observations, audits>>

Current == Last(settings)

Fees == {"executorFee", "feeBIPS", "minimum"}

FirstSettings(manager) ==
    [executorFee |-> 0, feeBIPS |-> 1, minimum |-> 1, paymentAddress |-> <<manager, 1>>]

NothingAsked == [by |-> "nobody"]
NoAudit == [reference |-> "none"]
NoQuote == [total |-> "overflow"]
NoOperation == [nonce |-> "none"]

DirectMintInit ==
    /\ \E m \in Manager :
          settings = <<[registered |-> m, of |-> [n \in Manager |-> FirstSettings(n)]]>>
    /\ personalAccount = [nonce |-> 0, deposited |-> 0]
    /\ asked = NothingAsked /\ audit = NoAudit
    /\ payments = <<>> /\ mints = <<>> /\ observations = {} /\ audits = {}

-----------------------------------------------------------------------------
(* Quotes.                                                                  *)

mintingFee(net, fees) ==
    LET proportional == (net * fees.feeBIPS) \div Bips
    IN  IF proportional > fees.minimum THEN proportional ELSE fees.minimum

\* Without a look at the product.
computeQuote(net, fees) ==
    LET total == net + mintingFee(net, fees) + fees.executorFee
    IN  IF total > MaxAmount THEN NoQuote ELSE [net |-> net, total |-> total]

computeDirectMintingPaymentQuote(net, fees) ==
    IF net * fees.feeBIPS > MaxAmount THEN NoQuote ELSE computeQuote(net, fees)

computeSmartAccountQuote(net, fees) == computeDirectMintingPaymentQuote(net, fees)

-----------------------------------------------------------------------------
(* Operations and memos.                                                    *)

sumCallValues(calls) == FoldSeq(LAMBDA call, sum : sum + call.value, 0, calls)

encodePackedUserOperationData(calls, nonce) == [nonce |-> nonce, calls |-> calls]

\* What encodePackedUserOperationData and validateCall let pass.
Encodable(calls) ==
    Len(calls) \in 1..MaxCalls /\ sumCallValues(calls) <= MaxAmount

encodeHashInstructionMemo(calls, nonce, executorFee) ==
    [executorFee |-> executorFee, operation |-> encodePackedUserOperationData(calls, nonce)]

AmountTo(operation, target) ==
    FoldSeq(LAMBDA call, sum : IF call.target = target THEN sum + call.amount ELSE sum, 0, operation.calls)

-----------------------------------------------------------------------------
(* Reading.                                                                 *)

ChangeSettings ==
    /\ Len(settings) < MaxSettings
    /\ \/ \E m \in Manager \ {Current.registered} : settings' = Append(settings, [Current EXCEPT !.registered = m])
       \/ \E m \in Manager :
             \/ \E f \in Fees : settings' = Append(settings, [Current EXCEPT !.of[m][f] = 1 - @])
             \/ settings' = Append(settings, [Current EXCEPT !.of[m].paymentAddress = <<m, 2>>])
    /\ UNCHANGED <<personalAccount, asked, payments, mints, audit, observations, audits>>

Noted(got, item, value) == [i \in DOMAIN got \union {item} |-> IF i = item THEN value ELSE got[i]]

\* The registry is asked first, and the asset manager it named after that.
\* Bound: one observation, and no payment besides: it reads nothing of them.
StartAsking(by, net) ==
    /\ asked = NothingAsked /\ observations = {}
    /\ by = "observation" => payments = <<>>
    /\ asked' = [by |-> by, net |-> net, since |-> Len(settings), manager |-> Current.registered, got |-> <<>>]
    /\ UNCHANGED <<settings, personalAccount, payments, mints, audit, observations, audits>>

\* (A mutant: the registry is asked again for every reading.)
SettingsOf_Registered(manager) == Current.of[Current.registered]

SettingsOf(manager) == Current.of[manager]

Wanted(by) == Fees \union {"paymentAddress"} \union (IF by = "payer" THEN {"nonce"} ELSE {})

ReadNext(item) ==
    /\ asked # NothingAsked /\ item \in Wanted(asked.by) \ DOMAIN asked.got
    /\ asked' = [asked EXCEPT !.got = Noted(asked.got, item,
         IF item = "nonce" THEN personalAccount.nonce ELSE SettingsOf(asked.manager)[item])]
    /\ UNCHANGED <<settings, personalAccount, payments, mints, audit, observations, audits>>

AllRead(by) == asked.by = by /\ DOMAIN asked.got = Wanted(by)

Pay(calls) ==
    LET quote == computeDirectMintingPaymentQuote(asked.net, asked.got) IN
    /\ AllRead("payer") /\ Encodable(calls) /\ Len(payments) < MaxPayments
    /\ quote # NoQuote
    /\ payments' = Append(payments,
         [destination |-> asked.got.paymentAddress, amount |-> quote.total, status |-> "sent",
          memo |-> encodeHashInstructionMemo(calls, asked.got.nonce, asked.got.executorFee)])
    /\ asked' = NothingAsked
    /\ UNCHANGED <<settings, personalAccount, mints, audit, observations, audits>>

\* collectDirectMintObservation and buildDirectMintObservationEvidence have
\* everything; or something was refused, and nothing is written.
ObservationEnds ==
    LET quote == computeQuote(asked.net, asked.got) IN
    /\ AllRead("observation")
    /\ observations' =
         IF quote = NoQuote THEN observations
         ELSE observations \union {[manager |-> asked.manager, since |-> asked.since, until |-> Len(settings),
                                    published |-> asked.got, quote |-> quote]}
    /\ asked' = NothingAsked
    /\ UNCHANGED <<settings, personalAccount, payments, mints, audit, audits>>

-----------------------------------------------------------------------------
(* Payments and mints.                                                      *)

\* The XRP Ledger validates a payment, as one that succeeded or failed.
LedgerValidates(p) ==
    /\ payments[p].status = "sent"
    /\ \E outcome \in {"success", "failed"} : payments' = [payments EXCEPT ![p].status = outcome]
    /\ UNCHANGED <<settings, personalAccount, asked, mints, audit, observations, audits>>

readValidatedXrplPayment(p) == payments[p].status \in {"success", "attested"}

\* The executor, who has read the payment, has it attested to, and the round
\* becomes final.
Attest(p) ==
    /\ payments[p].status # "attested" /\ readValidatedXrplPayment(p)
    /\ payments' = [payments EXCEPT ![p].status = "attested"]
    /\ UNCHANGED <<settings, personalAccount, asked, mints, audit, observations, audits>>

\* With a proof of a final round, and with the operation, another one, or none.
Callable(p) == payments[p].status = "attested"

buildCoston2DirectMintCall(p, operation, value) ==
    [manager |-> Current.registered, payment |-> p, operation |-> operation, value |-> value]

IsMinted(p) == \E t \in DOMAIN mints : mints[t].call.payment = p /\ mints[t].outcome = "executed"

Accepts(call) ==
    LET payment == payments[call.payment] IN
    /\ ~IsMinted(call.payment)
    /\ payment.destination = Current.of[call.manager].paymentAddress
    /\ call.operation # NoOperation =>
         /\ call.operation = payment.memo.operation /\ call.operation.nonce = personalAccount.nonce
         /\ call.value = sumCallValues(call.operation.calls)
         /\ AmountTo(call.operation, "vault") <= AmountTo(call.operation, "fAsset")
         /\ AmountTo(call.operation, "vault") <= payment.amount

\* The transaction is mined.
Mint(p, operation, value) ==
    LET call == buildCoston2DirectMintCall(p, operation, value)
        deposit == IF operation = NoOperation THEN 0 ELSE AmountTo(operation, "vault")
        Mined(outcome, event) == mints' = Append(mints, [call |-> call, outcome |-> outcome, deposit |-> event])
    IN
    /\ Len(mints) < MaxMints /\ Callable(p)
    /\ \/ ~Accepts(call) /\ Mined("reverted", 0) /\ UNCHANGED personalAccount
       \/ Accepts(call) /\ Mined("delayed", 0) /\ UNCHANGED personalAccount
       \/ /\ Accepts(call) /\ Mined("executed", deposit)
          /\ personalAccount' = [nonce |-> personalAccount.nonce + (IF operation = NoOperation THEN 0 ELSE 1),
                         deposited |-> personalAccount.deposited + deposit]
    /\ UNCHANGED <<settings, asked, payments, audit, observations, audits>>

-----------------------------------------------------------------------------
(* The audit of a reference [payment, mint, deposited].                     *)

parseXrplPayment(reference) == payments[reference.payment].status \in {"success", "attested"}

decodeOperation(operation, memo, reference) ==
    /\ operation # NoOperation /\ operation = memo.operation
    /\ Len(operation.calls) = 2 /\ {operation.calls[i].target : i \in 1..2} = {"fAsset", "vault"}
    /\ \A i \in 1..2 : operation.calls[i].amount = reference.deposited

findDepositEvent(receipt, reference) == receipt.deposit # 0 /\ receipt.deposit = reference.deposited

decodeHistoricalFundingArtifacts(reference) ==
    LET transaction == mints[reference.mint]
        payment == payments[reference.payment]
    IN
    /\ transaction.outcome # "reverted"
    /\ parseXrplPayment(reference) /\ transaction.call.payment = reference.payment
    /\ decodeOperation(transaction.call.operation, payment.memo, reference)
    /\ transaction.call.value = sumCallValues(transaction.call.operation.calls)
    /\ findDepositEvent(transaction, reference)

\* The first readings are of what has happened and of the registry; a
\* reference that they do not bear out ends the script.  Bound: one audit.
StartAudit(reference) ==
    /\ audit = NoAudit /\ audits = {}
    /\ Current.registered = mints[reference.mint].call.manager
    /\ decodeHistoricalFundingArtifacts(reference)
    /\ audit' = [reference |-> reference, since |-> Len(settings), got |-> <<>>]
    /\ UNCHANGED <<settings, personalAccount, asked, payments, mints, observations, audits>>

Runtime == {"feeBIPS", "minimum", "paymentAddress", "nonce", "deposited"}

collectFundingResumeObservation(item) ==
    /\ audit # NoAudit /\ item \in Runtime \ DOMAIN audit.got
    /\ audit' = [audit EXCEPT !.got = Noted(audit.got, item,
         IF item \in {"nonce", "deposited"} THEN personalAccount[item]
         ELSE SettingsOf(mints[audit.reference.mint].call.manager)[item])]
    /\ UNCHANGED <<settings, personalAccount, asked, payments, mints, observations, audits>>

buildFundingResumeEvidence ==
    LET reference == audit.reference
        payment == payments[reference.payment]
        got == audit.got
        quote == computeSmartAccountQuote(reference.deposited,
                   [executorFee |-> payment.memo.executorFee, feeBIPS |-> got.feeBIPS, minimum |-> got.minimum])
        holds == /\ got.paymentAddress = payment.destination
                 /\ got.nonce > payment.memo.operation.nonce
                 /\ got.deposited >= reference.deposited
                 /\ quote # NoQuote /\ quote.total = payment.amount
    IN
    /\ audit # NoAudit /\ DOMAIN got = Runtime
    /\ audits' = IF ~holds THEN audits
                 ELSE audits \union {[reference |-> reference, since |-> audit.since, until |-> Len(settings),
                                      published |-> got, quote |-> quote]}
    /\ audit' = NoAudit
    /\ UNCHANGED <<settings, personalAccount, asked, payments, mints, observations>>

-----------------------------------------------------------------------------

Reference == [payment : DOMAIN payments, mint : DOMAIN mints, deposited : NetAmount]

Operations == {payments[p].memo.operation : p \in DOMAIN payments} \union {NoOperation}

DirectMintNext ==
    \/ ChangeSettings \/ ObservationEnds \/ buildFundingResumeEvidence
    \/ \E by \in {"payer", "observation"}, net \in NetAmount : StartAsking(by, net)
    \/ \E item \in Fees \union {"paymentAddress", "nonce"} : ReadNext(item)
    \/ \E calls \in Instruction : Pay(calls)
    \/ \E p \in DOMAIN payments :
          LedgerValidates(p) \/ Attest(p) \/ \E operation \in Operations, value \in 0..1 : Mint(p, operation, value)
    \/ \E reference \in Reference : StartAudit(reference)
    \/ \E item \in Runtime : collectFundingResumeObservation(item)

DirectMintSpec == DirectMintInit /\ [][DirectMintNext]_mintVars

-----------------------------------------------------------------------------
(* Properties.                                                              *)

\* Whatever is published of an asset manager was its setting at some moment
\* of the run of the script that published it.
WasSetting(manager, evidence) ==
    \A item \in DOMAIN evidence.published \ {"nonce", "deposited"} :
        \E i \in evidence.since..evidence.until :
            settings[i].of[manager][item] = evidence.published[item]

\* An audit names the one transaction that minted the payment, and by which
\* the personal account performed the operation that the payer committed to
\* in the memo and deposited that amount, not an attempt that was delayed.
AuditIsTrue(evidence) ==
    LET reference == evidence.reference
        mint == mints[reference.mint]
    IN
    /\ mint.outcome = "executed" /\ mint.deposit = reference.deposited
    /\ mint.call.operation = payments[reference.payment].memo.operation
    /\ \A t \in DOMAIN mints :
          mints[t].call.payment = reference.payment /\ mints[t].outcome = "executed" => t = reference.mint
    /\ WasSetting(mint.call.manager, evidence)

\* What the two scripts publish of the funding of the vault is so.
FundingEvidenceIsTrue ==
    /\ \A o \in observations : WasSetting(o.manager, o)
    /\ \A evidence \in audits : AuditIsTrue(evidence)
=============================================================================
