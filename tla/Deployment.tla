------------------------------ MODULE Deployment ------------------------------
(***************************************************************************)
(* The scripts of tooling/ that put PayGuard on Coston2: contracts (v1, v2, *)
(* interactive), the FDC trigger, the FCC foundation sender with its        *)
(* extension, the code version and the FCC dispatcher.  A script is a       *)
(* sequence of steps; each may read the chain, broadcast a transaction,     *)
(* wait for its receipt and save what it knows in its journal, a file that   *)
(* is replaced by a rename.  It stops at its first error; it may be killed   *)
(* between any two awaits; the operator runs it again, and it goes by its    *)
(* journal and by the chain.  At the end it writes its evidence.             *)
(*                                                                         *)
(* A behaviour runs one script, any number of times, one at a time: the      *)
(* scripts take no lock.  What the scripts read of the repository (commit,   *)
(* artifacts) and of third parties (dependencies, machines) does not change. *)
(***************************************************************************)
EXTENDS DeployerAccount

CONSTANT Script

ASSUME ScriptAssumption ==
    Script \subseteq {"v1", "v2", "trigger", "foundation", "interactive", "version", "dispatcher"}

VARIABLES
    script,     \* the script of this behaviour
    file,       \* its journal on disk
    proc,       \* the running process, or Idle
    evidence    \* <<>>, or <<what the evidence publishes of the journal>>

vars == <<script, file, proc, evidence, accountVars>>

Flag == {"machineOwner", "walletProjectOwner", "evmKeyType"}
Actor == <<"actor1", "actor2", "actor3">>
Contract == {"registry", "vault", "router", "trigger", "sender", "dispatcher"}
JournalKey ==
    Contract \cup Flag \cup {Actor[i] : i \in 1..3}
        \cup {"vaultRouter", "supportedFTestXrp", "registrationTransaction", "registration",
              "binding", "version", "managerUpdate"}

\* An entry: nonce + 1 of the planned transaction (the address of a contract),
\* the hash, and whether the receipt's fields are recorded.
Blank == [slot |-> 0, hash |-> NoTx, receipt |-> FALSE]
Empty == [k \in JournalKey |-> Blank]

\* What stands for a flag the manager already had, recorded without a hash.
AlreadyConfigured == [slot |-> 0, hash |-> NoTx, receipt |-> TRUE]

Idle == [at |-> "idle", i |-> 1, tx |-> NoTx, mem |-> Empty]

S(kind, key) == [kind |-> kind, key |-> key]

v1Steps == <<S("deployContractStep", "registry"), S("deployContractStep", "vault"),
             S("deployContractStep", "router"), S("writeStep", "vaultRouter"),
             S("writeStep", "supportedFTestXrp"), S("verify", "router")>>
v2Steps == <<S("deployOne", "registry"), S("deployOne", "vault"), S("deployOne", "router"),
             S("writeOnce", "vaultRouter"), S("writeOnce", "supportedFTestXrp"),
             S("verify", "router")>>
triggerSteps == <<S("deployTracked", "trigger"), S("verify", "trigger")>>
foundationSteps ==
    <<S("deployTracked", "sender"), S("register", "registration"), S("bind", "binding"),
      S("configure", "machineOwner"), S("configure", "walletProjectOwner"),
      S("configure", "evmKeyType"), S("verify", "sender")>>
interactiveSteps ==
    <<S("deployRaw", "registry"), S("deployRaw", "vault"), S("deployRaw", "router"),
      S("writeIfNeeded", "supportedFTestXrp"), S("writeIfNeeded", "vaultRouter"),
      S("registerActor", "actor1"), S("registerActor", "actor2"), S("registerActor", "actor3"),
      S("verify", "router")>>
versionSteps == <<S("addVersion", "version"), S("verify", "version")>>
dispatcherSteps ==
    <<S("preflight", "dispatcher"), S("deployRaw", "dispatcher"), S("setSender", "managerUpdate"),
      S("bindOrRollBack", "binding"), S("verify", "dispatcher")>>

Steps == [v1 |-> v1Steps, v2 |-> v2Steps, trigger |-> triggerSteps,
          foundation |-> foundationSteps, interactive |-> interactiveSteps,
          version |-> versionSteps, dispatcher |-> dispatcherSteps]

\* Scripts without a journal start from nothing every time.
Journalled == script \notin {"version", "dispatcher"}

\* The foundation sender and the extension the dispatcher takes over.
Foundation == 1
Extension == 2

History(s) ==
    IF s # "dispatcher" THEN <<>>
    ELSE <<[ok |-> TRUE, tx |-> [nonce |-> 0, op |-> Op("sender", Zero, <<>>), id |-> 1]],
           [ok |-> TRUE, tx |-> [nonce |-> 1, op |-> Op("register", Zero, <<Foundation>>), id |-> 2]],
           [ok |-> TRUE, tx |-> [nonce |-> 2, id |-> 3,
                                 op |-> Op("setExtensionIdExplicit", Foundation, <<Extension>>)]]>>

Init ==
    /\ script \in Script
    /\ file = Empty
    /\ proc = Idle
    /\ evidence = <<>>
    /\ mined = History(script)
    /\ signed = {mined[i].tx : i \in DOMAIN mined}
    /\ visible = {}
    /\ troubles = [k \in TroubleKind |-> 0]

-----------------------------------------------------------------------------
(* The process *)

Step == Steps[script][proc.i]
Key == Step.key
Entry == proc.mem[Key]
At(kind, at) == proc.at = at /\ Step.kind = kind

Address(key) == proc.mem[key].slot

\* The router's constructor binds the two addresses; the other arguments are
\* the deployer and addresses that do not change.
artifactArgs(key) == IF key = "router" THEN <<Address("registry"), Address("vault")>> ELSE <<>>

Creation == Op(Key, Zero, artifactArgs(Key))

ActorNumber(key) == CHOOSE i \in 1..3 : Actor[i] = key

\* The call that a step makes.
Call ==
    CASE Key = "vaultRouter" -> Op("setRouter", Address("vault"), <<Address("router")>>)
      [] Key = "supportedFTestXrp" -> Op("setSupportedAsset", Address("vault"), <<>>)
      [] Key \in {Actor[i] : i \in 1..3} ->
           Op("registerMachine", Address("registry"), <<ActorNumber(Key)>>)
      [] Key \in Flag -> Op(Key, Zero, <<Address("registration")>>)
      [] Key = "registration" -> Op("register", Zero, <<Address("sender")>>)
      [] Key = "binding" /\ script = "foundation" ->
           Op("setExtensionIdExplicit", Address("sender"), <<Address("registration")>>)
      [] Key = "binding" -> Op("setExtensionIdExplicit", Address("dispatcher"), <<Extension>>)
      [] Key = "managerUpdate" ->
           Op("setExtensionContracts", Zero, <<Extension, Address("dispatcher")>>)
      [] Key = "version" -> Op("addTeeVersion", Zero, <<>>)
      [] OTHER -> Creation

Effective == Done(Call)

Goto(at) == proc' = [proc EXCEPT !.at = at]
Forward(m) == proc' = [proc EXCEPT !.at = "enter", !.i = @ + 1, !.tx = NoTx, !.mem = m]
Save(m) == file' = IF Journalled THEN m ELSE file

\* An error ends the process, except where the dispatcher script catches it.
Throw ==
    IF Step.kind = "bindOrRollBack" /\ proc.at \in {"enter", "waiting"}
    THEN Goto("rollback") ELSE proc' = Idle

Local == UNCHANGED accountVars
Unsaved == UNCHANGED file

\* Wait for the receipt of a transaction whose hash may be missing.
Await(t) ==
    IF t = NoTx THEN Throw ELSE proc' = [proc EXCEPT !.at = "waiting", !.tx = t]
-----------------------------------------------------------------------------
(* Steps that scripts share *)

PlanNonce_Again ==
    LET m == [proc.mem EXCEPT ![Key].slot = PendingCount + 1] IN
    /\ proc.at = "enter"
    /\ Save(m) /\ proc' = [proc EXCEPT !.at = "planned", !.mem = m]
    /\ Local

\* Plan the nonce, once, and put it in the journal before anything is signed.
PlanNonce ==
    LET m == [proc.mem EXCEPT ![Key].slot = PendingCount + 1] IN
    /\ proc.at = "enter"
    /\ IF Entry.slot = 0 THEN Save(m) /\ proc' = [proc EXCEPT !.at = "planned", !.mem = m]
       ELSE Unsaved /\ Goto("planned")
    /\ Local

NonceIsSafe == Entry.slot = PendingCount + 1

\* Sign at the planned nonce; the node refuses one that is taken.
SendPlanned(op) ==
    LET t == NewTx(Entry.slot - 1, op) IN
    /\ proc.at = "ready"
    /\ IF Accepts(Entry.slot - 1)
       THEN /\ Broadcast(t)
            /\ proc' = [proc EXCEPT !.at = "sent", !.tx = t, !.mem[Key].hash = t]
       ELSE Throw /\ Local
    /\ Unsaved

\* Sign at whatever nonce is next, after a simulation or without one.
Send(at) ==
    LET t == NewTx(PendingCount, Call) IN
    /\ Broadcast(t)
    /\ proc' = [proc EXCEPT !.at = at, !.tx = t]

SendSimulated(at) == IF Succeeds(Call) THEN Send(at) ELSE Throw /\ Local

\* Put the hash of what was just sent in the journal, then wait.
Record(key) ==
    LET m == [proc.mem EXCEPT ![key].hash = proc.tx] IN
    /\ proc.at = "sent"
    /\ Save(m)
    /\ proc' = [proc EXCEPT !.at = "waiting", !.mem = m]
    /\ Local

Succeeded_AnyStatus(t) == Confirmed(t)

Succeeded(t) == Confirmed(t) /\ Status(t)

\* The block of these receipts is saved by the verification, not before.
SavedWhenVerified == Step.kind = "writeOnce" \/ script = "trigger"

\* The receipt: entry e goes into the journal, or the process ends.
Receive(e) ==
    LET m == [proc.mem EXCEPT ![Key] = e] IN
    /\ proc.at = "waiting"
    /\ Confirmed(proc.tx)
    /\ IF Succeeded(proc.tx)
       THEN Forward(m) /\ IF SavedWhenVerified THEN Unsaved ELSE Save(m)
       ELSE Throw /\ Unsaved
    /\ Local

Received == [Entry EXCEPT !.receipt = TRUE]
ReceivedLate == [slot |-> proc.tx.nonce + 1, hash |-> proc.tx, receipt |-> TRUE]

TimedOut == ~Confirmed(proc.tx)

\* A transaction the node dropped, or that waits behind a gap, is never mined.
Hopeless(t) == t \notin visible \/ t.nonce >= PendingCount

TimeOut ==
    /\ proc.at \in {"waiting", "rolledBack"}
    /\ TimedOut
    /\ Throw
    /\ Unsaved
    /\ UNCHANGED <<mined, signed, visible>>
    /\ IF Hopeless(proc.tx) THEN UNCHANGED troubles ELSE Trouble("slow")

-----------------------------------------------------------------------------
(* coston2-deploy.mjs *)

deployContractStep_NeverAgain ==
    /\ Step.kind = "deployContractStep"
    /\ \/ PlanNonce
       \/ /\ proc.at = "planned"
          /\ IF Entry.hash # NoTx \/ HasCode(Entry.slot) THEN Await(Entry.hash)
             ELSE IF NonceIsSafe THEN Goto("ready") ELSE Throw
          /\ Local /\ Unsaved
       \/ SendPlanned(Creation)
       \/ Record(Key)
       \/ Receive(Received)

deployContractStep ==
    /\ Step.kind = "deployContractStep"
    /\ \/ PlanNonce
       \/ /\ proc.at = "planned"
          /\ IF HasCode(Entry.slot) THEN Await(Entry.hash)
             ELSE IF NonceIsSafe THEN Goto("ready") ELSE Throw
          /\ Local /\ Unsaved
       \/ SendPlanned(Creation)
       \/ Record(Key)
       \/ Receive(Received)

\* Where deployCoston2 reads the vault before it writes.
WiredBefore ==
    /\ proc.at = "enter"
    /\ Effective
    /\ IF Entry.hash = NoTx THEN Throw ELSE Forward(proc.mem)
    /\ Local /\ Unsaved

writeStep ==
    /\ Step.kind = "writeStep"
    /\ \/ WiredBefore
       \/ ~Effective /\ PlanNonce
       \/ /\ proc.at = "planned"
          /\ IF Entry.hash # NoTx THEN Await(Entry.hash)
             ELSE IF NonceIsSafe /\ Succeeds(Call) THEN Goto("ready") ELSE Throw
          /\ Local /\ Unsaved
       \/ SendPlanned(Call)
       \/ Record(Key)
       \/ Receive(Received)

\* coston2-v2-deploy.mjs

deployOne ==
    /\ Step.kind = "deployOne"
    /\ \/ PlanNonce
       \/ /\ proc.at = "planned"
          /\ IF HasCode(Entry.slot) THEN Await(Entry.hash)
             ELSE IF NonceIsSafe THEN Goto("ready") ELSE Throw
          /\ Local /\ Unsaved
       \/ SendPlanned(Creation)
       \/ Record(Key)
       \/ Receive(Received)

writeOnce ==
    /\ Step.kind = "writeOnce"
    /\ \/ /\ proc.at = "enter"
          /\ Unsaved
          /\ IF Effective THEN Forward(proc.mem) /\ Local
             ELSE IF Entry.hash = NoTx THEN SendSimulated("sent")
             ELSE Await(Entry.hash) /\ Local
       \/ Record(Key)
       \/ Receive(Received)

\* coston2-fdc-trigger-deploy.mjs, and the sender of fcc-foundation-deploy.mjs:
\* a hash once recorded is only waited for.
deployTracked ==
    /\ Step.kind = "deployTracked"
    /\ \/ PlanNonce
       \/ /\ proc.at = "planned"
          /\ IF Entry.hash # NoTx THEN Await(Entry.hash)
             ELSE IF NonceIsSafe /\ ~HasCode(Entry.slot) THEN Goto("ready") ELSE Throw
          /\ Local /\ Unsaved
       \/ SendPlanned(Creation)
       \/ Record(Key)
       \/ Receive(Received)

-----------------------------------------------------------------------------
(* fcc-foundation-deploy.mjs *)

\* With no hash in the journal the events of the manager are searched first.
register ==
    LET pending == proc.mem["registrationTransaction"].hash
        recovered == Registrations(Address("sender")) IN
    /\ Step.kind = "register"
    /\ \/ /\ proc.at = "enter"
          /\ Unsaved
          /\ \/ Entry.hash # NoTx /\ Await(Entry.hash) /\ Local
             \/ Entry.hash = NoTx /\ pending # NoTx /\ Await(pending) /\ Local
             \/ /\ Entry.hash = NoTx /\ pending = NoTx
                /\ CASE recovered = {} -> SendSimulated("sent")
                     [] Cardinality(recovered) > 1 -> Throw /\ Local
                     [] OTHER -> /\ proc' = [proc EXCEPT !.at = "sent",
                                                         !.tx = mined[Max(recovered)].tx]
                                 /\ Local
       \/ Record("registrationTransaction")
       \/ Receive(ReceivedLate)

\* The hash is journalled only with its receipt; after a crash the event of
\* the sender tells it.
bind ==
    LET bound == ExtensionOf(Address("sender")) IN
    /\ Step.kind = "bind"
    /\ \/ /\ proc.at = "enter"
          /\ Unsaved
          /\ IF Entry.hash # NoTx THEN Forward(proc.mem) /\ Local
             ELSE IF bound = Zero THEN SendSimulated("waiting")
             ELSE IF bound # Address("registration") THEN Throw /\ Local
             ELSE Await(mined[Max(Calls(Call.fn, Call.to))].tx) /\ Local
       \/ Receive(ReceivedLate)

configureManagerFlag ==
    /\ Step.kind = "configure"
    /\ \/ /\ proc.at = "enter"
          /\ Effective
          /\ LET m == IF Entry = Blank THEN [proc.mem EXCEPT ![Key] = AlreadyConfigured]
                      ELSE proc.mem IN
             Save(m) /\ Forward(m)
          /\ Local
       \/ /\ proc.at = "enter"
          /\ ~Effective
          /\ Unsaved
          /\ IF Entry.hash = NoTx THEN SendSimulated("sent") ELSE Await(Entry.hash) /\ Local
       \/ Record(Key)
       \/ Receive(Received)

-----------------------------------------------------------------------------
(* coston2-interactive-demo-bootstrap.mjs, fcc-dispatcher-deploy.mjs and       *)
(* fcc-code-version-deploy.mjs: nothing is saved before the receipt.           *)

deployRaw ==
    /\ Step.kind = "deployRaw"
    /\ \/ /\ proc.at = "enter"
          /\ Unsaved
          /\ IF Entry.slot # 0 THEN Forward(proc.mem) /\ Local ELSE Send("waiting")
       \/ Receive(ReceivedLate)

writeIfNeeded ==
    /\ Step.kind = "writeIfNeeded"
    /\ \/ WiredBefore
       \/ proc.at = "enter" /\ ~Effective /\ Send("waiting") /\ Unsaved
       \/ Receive([ReceivedLate EXCEPT !.slot = 0])

registerActor ==
    /\ Step.kind = "registerActor"
    /\ \/ /\ proc.at = "enter"
          /\ Unsaved
          /\ IF Effective THEN Forward(proc.mem) /\ Local ELSE Send("waiting")
       \/ Receive([ReceivedLate EXCEPT !.slot = 0])

\* The one event of the allowance, in the receipt or in the logs.
addVersion ==
    LET events == Calls(Call.fn, Call.to) IN
    /\ Step.kind = "addVersion"
    /\ \/ /\ proc.at = "enter"
          /\ Unsaved
          /\ IF ~Effective THEN SendSimulated("waiting")
             ELSE IF Cardinality(events) = 1 THEN Await(mined[Max(events)].tx) /\ Local
             ELSE Throw /\ Local
       \/ Receive(ReceivedLate)

preflight ==
    /\ At("preflight", "enter")
    /\ IF SenderOf(Extension) = Foundation THEN Forward(proc.mem) ELSE Throw
    /\ Local /\ Unsaved

setSender ==
    /\ Step.kind = "setSender"
    /\ \/ proc.at = "enter" /\ SendSimulated("waiting") /\ Unsaved
       \/ Receive(ReceivedLate)

\* If the binding fails in any way the manager gets its old sender back.
bindOrRollBack ==
    LET t == NewTx(PendingCount,
                   Op("setExtensionContracts", Zero, <<Extension, Foundation>>)) IN
    /\ Step.kind = "bindOrRollBack"
    /\ \/ proc.at = "enter" /\ SendSimulated("waiting") /\ Unsaved
       \/ Receive(ReceivedLate)
       \/ /\ proc.at = "rollback"
          /\ Broadcast(t)
          /\ proc' = [proc EXCEPT !.at = "rolledBack", !.tx = t]
          /\ Unsaved
       \/ /\ proc.at = "rolledBack"
          /\ Confirmed(proc.tx)
          /\ proc' = Idle
          /\ Local /\ Unsaved
-----------------------------------------------------------------------------
(* Verification and evidence *)

Wired(m) ==
    /\ RouterOf(m["vault"].slot) = m["router"].slot
    /\ Done(Op("setSupportedAsset", m["vault"].slot, <<>>))
    /\ mined[m["router"].slot].tx.op.args = <<m["registry"].slot, m["vault"].slot>>

Main == {"registry", "vault", "router"}

Wiring == {"vaultRouter", "supportedFTestXrp"}

validateDeploymentState(m) == \A k \in Main \cup Wiring : m[k].slot # 0 /\ m[k].hash # NoTx

verifyDeployment(m) ==
    /\ \A k \in Main : /\ Runs(m[k].slot, k)
                       /\ Succeeded(m[k].hash) /\ m[k].hash.nonce + 1 = m[k].slot
    /\ Wired(m)
    /\ \A k \in Wiring : Succeeded(m[k].hash)
    /\ validateDeploymentState(m)

validateV2DeploymentEvidence(m) == \A k \in Main : m[k].slot # 0 /\ m[k].hash # NoTx

\* The second version reads the chain, and asks of its journal the contracts only.
verifyV2(m) ==
    /\ \A k \in Main : Runs(m[k].slot, k) /\ m[k].receipt
    /\ Wired(m)

validateFdcTriggerDeploymentState(m) == m["trigger"].slot # 0 /\ m["trigger"].hash # NoTx

verifyTrigger(m) ==
    /\ validateFdcTriggerDeploymentState(m)
    /\ Succeeded(m["trigger"].hash) /\ m["trigger"].hash.nonce + 1 = m["trigger"].slot
    /\ Runs(m["trigger"].slot, "trigger")

evaluateFoundationRegistration(m) ==
    LET sender == m["sender"].slot
        extension == m["registration"].slot IN
    /\ Succeeded(m["sender"].hash) /\ m["sender"].hash.nonce + 1 = sender
    /\ Runs(sender, "sender")
    /\ Succeeded(m["registration"].hash)
    /\ SenderOf(extension) = sender
    /\ ExtensionOf(sender) = extension
    /\ \A k \in Flag : Done(Op(k, Zero, <<extension>>))

verifyOnChain(m) ==
    /\ evaluateFoundationRegistration(m)
    /\ \A k \in Flag \cup {"binding"} : m[k].receipt

verifyInteractive(m) ==
    /\ \A k \in Main : HasCode(m[k].slot)
    /\ Wired(m)
    /\ \A i \in 1..3 : Done(Op("registerMachine", m["registry"].slot, <<i>>))

verifyVersion(m) == Done(Op("addTeeVersion", Zero, <<>>))

verifyDispatcher(m) ==
    LET dispatcher == m["dispatcher"].slot IN
    /\ Runs(dispatcher, "dispatcher")
    /\ ExtensionOf(dispatcher) = Extension
    /\ SenderOf(Extension) = dispatcher

Verified(m) ==
    CASE script = "v1" -> verifyDeployment(m)
      [] script = "v2" -> verifyV2(m) /\ validateV2DeploymentEvidence(m)
      [] script = "trigger" -> verifyTrigger(m)
      [] script = "foundation" -> verifyOnChain(m)
      [] script = "interactive" -> verifyInteractive(m)
      [] script = "version" -> verifyVersion(m)
      [] script = "dispatcher" -> verifyDispatcher(m)

\* The journal entries each script's evidence publishes.
buildDeploymentEvidence(m) == Restrict(m, Main \cup Wiring)
buildV2DeploymentEvidence(m) == Restrict(m, Main \cup Wiring)
buildFdcTriggerDeploymentEvidence(m) == Restrict(m, {"trigger"})
buildFoundationRegistrationEvidence(m) == Restrict(m, Flag \cup {"sender", "registration", "binding"})
buildInteractiveDemoEvidence(m) == Restrict(m, Main \cup Wiring \cup {Actor[i] : i \in 1..3})
buildCodeVersionEvidence(m) == Restrict(m, {"version"})
buildDispatcherEvidence(m) == Restrict(m, {"dispatcher", "managerUpdate", "binding"})

Built(m) ==
    CASE script = "v1" -> buildDeploymentEvidence(m)
      [] script = "v2" -> buildV2DeploymentEvidence(m)
      [] script = "trigger" -> buildFdcTriggerDeploymentEvidence(m)
      [] script = "foundation" -> buildFoundationRegistrationEvidence(m)
      [] script = "interactive" -> buildInteractiveDemoEvidence(m)
      [] script = "version" -> buildCodeVersionEvidence(m)
      [] script = "dispatcher" -> buildDispatcherEvidence(m)

Verify ==
    /\ At("verify", "enter")
    /\ IF Verified(proc.mem) THEN Save(proc.mem) /\ Goto("verified") ELSE Throw /\ Unsaved
    /\ Local

WriteEvidence ==
    /\ At("verify", "verified")
    /\ evidence' = <<Built(proc.mem)>>
    /\ proc' = Idle
    /\ Local /\ Unsaved
    /\ UNCHANGED script

-----------------------------------------------------------------------------
(* The operator, the chain, and what goes wrong *)

\* loadState refuses a foundation journal whose configuration has a hash but
\* not yet its block.
Loads(m) == script = "foundation" => \A k \in Flag : m[k].hash # NoTx => m[k].receipt

Start ==
    /\ proc = Idle
    /\ Loads(file)
    /\ proc' = [Idle EXCEPT !.at = "enter", !.mem = IF Journalled THEN file ELSE Empty]
    /\ UNCHANGED <<script, file, evidence, accountVars>>

\* The verify commands: the journal as it is, straight to the last step.
StartVerify ==
    /\ proc = Idle
    /\ script \in {"v1", "v2", "trigger", "foundation"}
    /\ file # Empty
    /\ Loads(file)
    /\ proc' = [Idle EXCEPT !.at = "enter", !.i = Len(Steps[script]), !.mem = file]
    /\ UNCHANGED <<script, file, evidence, accountVars>>

\* The dispatcher's: the operator names the dispatcher, which must be the
\* manager's sender, and three successful transactions in their order.
StartVerifyDispatcher ==
    /\ proc = Idle
    /\ script = "dispatcher"
    /\ \E d, u, b \in DOMAIN mined :
         LET E(i) == [slot |-> i, hash |-> mined[i].tx, receipt |-> TRUE] IN
         /\ mined[d].ok /\ mined[u].ok /\ mined[b].ok
         /\ d < u /\ u < b
         /\ SenderOf(Extension) = d
         /\ proc' = [Idle EXCEPT !.at = "enter", !.i = Len(dispatcherSteps),
                      !.mem = [Empty EXCEPT !["dispatcher"] = E(d), !["managerUpdate"] = E(u),
                                            !["binding"] = E(b)]]
    /\ UNCHANGED <<script, file, evidence, accountVars>>

Crash ==
    /\ proc # Idle
    /\ Trouble("crash")
    /\ proc' = Idle
    /\ UNCHANGED <<script, file, evidence, mined, signed, visible>>

Work ==
    /\ proc # Idle
    /\ \/ deployContractStep \/ writeStep \/ deployOne \/ writeOnce \/ deployTracked
       \/ register \/ bind \/ configureManagerFlag \/ deployRaw \/ writeIfNeeded
       \/ registerActor \/ addVersion \/ preflight \/ setSender \/ bindOrRollBack
       \/ Verify
    /\ UNCHANGED <<script, evidence>>

GiveUp == TimeOut /\ UNCHANGED <<script, evidence>>

World == (Chain \/ Environment) /\ UNCHANGED <<script, file, proc, evidence>>

Next == Start \/ StartVerify \/ StartVerifyDispatcher \/ Work \/ WriteEvidence \/ GiveUp
        \/ Crash \/ World

Spec == Init /\ [][Next]_vars

\* The operator tries again, a running process goes on, a visible transaction
\* that is next is mined, and a wait for one that cannot be mined times out.
Fairness ==
    /\ SF_vars(Start)
    /\ SF_vars(StartVerifyDispatcher)
    /\ WF_vars(Work \/ WriteEvidence)
    /\ WF_vars(GiveUp /\ Hopeless(proc.tx))
    /\ WF_vars(Chain /\ UNCHANGED <<script, file, proc, evidence>>)

FairSpec == Spec /\ Fairness

-----------------------------------------------------------------------------
(* Properties *)

Journal == [JournalKey -> [slot: Nat, hash: signed \cup {NoTx}, receipt: BOOLEAN]]

TypeOK ==
    /\ script \in Script
    /\ file \in Journal
    /\ proc.mem \in Journal /\ proc.tx \in signed \cup {NoTx}
    /\ Len(evidence) <= 1
    /\ visible \subseteq signed
    /\ \A i \in DOMAIN mined : mined[i].tx \in signed /\ mined[i].tx.nonce = i - 1
    /\ \A t, u \in visible : t.nonce = u.nonce => t = u

\* A contract whose nonce is journalled before it is signed exists once at most,
\* however often the script dies, is run again, or loses its transaction
\* (deployContractStep, deployOne, deployFdcTrigger and the foundation sender).
Pinned == [v1 |-> Main, v2 |-> Main, trigger |-> {"trigger"}, foundation |-> {"sender"},
           interactive |-> {}, version |-> {}, dispatcher |-> {}]

OneContractPerKey ==
    \A k \in Pinned[script] :
        \A i, j \in DOMAIN mined :
            mined[i].tx.op.fn = k /\ mined[j].tx.op.fn = k => i = j

\* Every transaction the evidence names has been mined, has succeeded, and is
\* the one that made what it is named for.  (The second version's wiring and
\* what an operator passes to the dispatcher's verify command are not checked
\* by the code, and are left out.)
Named(m, k, fn) == Confirmed(m[k].hash) /\ Status(m[k].hash) /\ m[k].hash.op.fn = fn

EvidenceNamesItsTransactions ==
    \A i \in DOMAIN evidence : LET m == evidence[i] IN
        /\ \A k \in Pinned[script] : Named(m, k, k) /\ HasCode(m[k].slot)
        /\ script \in {"v1", "interactive"} =>
             /\ Named(m, "vaultRouter", "setRouter")
             /\ Named(m, "supportedFTestXrp", "setSupportedAsset")
        /\ script = "interactive" => \A k \in Main : Named(m, k, k)
        /\ script = "foundation" =>
             /\ Named(m, "registration", "register")
             /\ Named(m, "binding", "setExtensionIdExplicit")
             /\ m["binding"].hash.op.args = <<m["registration"].hash.nonce + 1>>
             /\ \A k \in Flag : m[k] # AlreadyConfigured => Named(m, k, k)
        /\ script = "version" => Named(m, "version", "addTeeVersion")
        /\ script = "dispatcher" => Named(m, "dispatcher", "dispatcher")

\* Once the dispatcher script has tried to bind the dispatcher that the manager
\* now sends to, and has ended without being killed, and the manager has mined
\* whatever it was sent, that dispatcher is bound: if the binding failed the
\* catch block restored the foundation sender (fcc-dispatcher-deploy.mjs).
NoUnboundSender ==
    LET sender == SenderOf(Extension)
        tried == \E t \in signed : t.op = Op("setExtensionIdExplicit", sender, <<Extension>>)
        settled == \A t \in signed : t.op.fn = "setExtensionContracts" => Confirmed(t) IN
    script = "dispatcher" /\ proc = Idle /\ troubles["crash"] = 0 /\ tried /\ settled =>
        ExtensionOf(sender) = Extension

\* What is left on the chain: each contract once, and a sender that is bound.
ChainIsLeftSound == OneContractPerKey /\ NoUnboundSender

\* What the scripts leave behind, on the chain and on disk.
DeploymentsAreSound == ChainIsLeftSound /\ EvidenceNamesItsTransactions

\* A journal that nothing can complete: a planned nonce went to another
\* transaction than the one recorded, or waits for one that left the pool, a
\* recorded transaction that is only ever
\* waited for has left the pool, a call took effect and its hash is lost, one
\* sender has two registrations, the manager sends to an unbound dispatcher, one
\* version was added twice, or the journal no longer loads.
OnlyAwaited ==
    JournalKey \ (IF script \in {"v1", "v2"} THEN Main ELSE {})

Lost ==
    \/ \E k \in JournalKey : LET e == file[k] IN
         \/ e.slot \in DOMAIN mined /\ e.hash # mined[e.slot].tx
         \/ e.slot > PendingCount + 1
    \/ \E k \in OnlyAwaited : LET e == file[k] IN
         e.hash # NoTx /\ ~Confirmed(e.hash) /\ Hopeless(e.hash)
    \/ /\ script \in {"v1", "interactive"}
       /\ \E k \in Wiring :
            /\ file[k].hash = NoTx
            /\ Calls(IF k = "vaultRouter" THEN "setRouter" ELSE "setSupportedAsset",
                     file["vault"].slot) # {}
    \/ /\ script = "foundation"
       /\ file["registrationTransaction"].hash = NoTx
       /\ Cardinality(Registrations(file["sender"].slot)) > 1
    \/ script = "dispatcher" /\ ExtensionOf(SenderOf(Extension)) # Extension
    \/ script = "version" /\ Cardinality(Calls("addTeeVersion", Zero)) > 1
    \/ ~Loads(file)

\* Run again and again, a script writes its evidence, unless its journal is
\* lost in one of those ways for good.
CompletesUnlessLost == <>[](evidence # <<>> \/ Lost)

\* Whenever the process has ended, the journal it left can be loaded again.
JournalLoads == proc = Idle => Loads(file)
=============================================================================
