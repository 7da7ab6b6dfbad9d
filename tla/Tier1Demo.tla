----------------------------- MODULE Tier1Demo -----------------------------
(***************************************************************************)
(* The Tier-1 demonstration (apps/harness): a script that installs a token  *)
(* and a vault on chain, funds the vault, makes one payment that must be    *)
(* accepted and two that must be refused, and writes what happened to an    *)
(* artifact.                                                                *)
(*                                                                          *)
(* Each step signs a deploy, submits it and waits for its execution.  The   *)
(* script may lose the answer to a submission, give up a wait, fail to read *)
(* the chain, or be killed; a deploy it has submitted stays with the nodes  *)
(* and may be executed at any later time, also while a later run of the     *)
(* script is under way.  Installs publish their package under a named key   *)
(* of the deployer that every install of the same contract overwrites, and  *)
(* the script finds its packages by those keys.  The vault on chain is the  *)
(* one of PolicyVault.                                                      *)
(***************************************************************************)
EXTENDS Integers, Sequences, FiniteSets

CONSTANTS
    NRuns,         \* runs of the script, one after the other
    Plans,         \* environments a run may be started with
    Supply,        \* tokens minted to the deployer by the token's init
    MaxU256, MaxTime, DayLen

ASSUME DemoAssumption ==
    /\ NRuns \in Nat \ {0}
    /\ MaxU256 \in Nat /\ Supply \in 0 .. MaxU256
    /\ Plans \subseteq [pay : 0 .. MaxU256, reject : 0 .. MaxU256, max : 0 .. MaxU256,
                        daily : 0 .. MaxU256, until : Nat, faults : BOOLEAN]
    /\ MaxTime \in Nat /\ DayLen \in Nat \ {0}

VARIABLES
    plan,      \* the environment: amounts, limits and expiry, and whether the
               \* script, the nodes and the network may fail in it
    run,       \* run -> where the script stands and the packages it found
    artifact,  \* the run whose events are in .demo/tier1-events.json, or Nothing
    deploy,    \* run -> step -> its deploy
    key,       \* the deployer's named keys: contract -> package
    vaults,    \* package -> the vault installed under it
    funds,     \* token -> vault -> tokens the vault holds of it
    purse,     \* token -> tokens the deployer holds of it
    now        \* block time

script == <<run, artifact>>
onChain == <<key, vaults, funds, purse>>
demoVars == <<plan, script, deploy, onChain, now>>

Runs == 1 .. NRuns
Nothing == 0
(* A package is named after the run whose install published it. *)
Packages == Runs

Deployer == "deployer"
Payee == "payee"
Blocked == "blocked"

Steps == <<"installCep18", "recoverCep18", "installVault", "recoverVault", "readEntity",
           "allowAgent", "allowReceiver", "fund", "pay", "rejectReceiver", "rejectAmount">>
Reads == {"recoverCep18", "recoverVault", "readEntity"}
Payments == {"pay", "rejectReceiver", "rejectAmount"}
DeploySteps == {Steps[k] : k \in DOMAIN Steps} \ Reads

NoDeploy == [status |-> "none", token |-> Nothing, vault |-> Nothing]
NoVault == [token |-> Nothing]

-----------------------------------------------------------------------------
(* Mutated forms: the refused amount may equal the cap; the vault is funded  *)
(* with the day's limit.                                                     *)
LoosePreFlight == plan.pay <= plan.max /\ plan.reject >= plan.max
FundTheLimit == plan.daily

(* The pre-flight of the payment plan and of the two rejection plans. *)
PreFlight == plan.pay <= plan.max /\ plan.reject > plan.max

FundAmount == plan.pay

ReceiverOf(step) == IF step = "rejectReceiver" THEN Blocked ELSE Payee
AmountOf(step) == IF step = "rejectAmount" THEN plan.reject ELSE plan.pay
PayloadHash(step) == <<ReceiverOf(step), AmountOf(step)>>

Expected(step) ==
    CASE step = "rejectReceiver" -> "ReceiverNotAllowed"
      [] step = "rejectAmount" -> "AmountAboveMax"
      [] OTHER -> "Ok"

DemoInit ==
    /\ plan \in Plans
    /\ run = [r \in Runs |-> [phase |-> "new", step |-> 1, token |-> Nothing, vault |-> Nothing]]
    /\ artifact = Nothing
    /\ deploy = [r \in Runs |-> [s \in DeploySteps |-> NoDeploy]]
    /\ key = [Cep18 |-> Nothing, PolicyVault |-> Nothing]
    /\ vaults = [p \in Packages |-> NoVault]
    /\ funds = [t \in Packages |-> [v \in Packages |-> 0]]
    /\ purse = [t \in Packages |-> 0]
    /\ now = 0

-----------------------------------------------------------------------------
StepOf(r) == Steps[run[r].step]
Active(r) == run[r].phase \in {"ready", "waiting"}
Ended(r) == run[r].phase \in {"sealed", "failed"}

Start(r) ==
    /\ run[r].phase = "new"
    /\ \A q \in 1 .. r - 1 : Ended(q)
    /\ run' = [run EXCEPT ![r].phase = IF PreFlight THEN "ready" ELSE "failed"]
    /\ UNCHANGED <<plan, artifact, deploy, onChain, now>>

Fail(r) == run' = [run EXCEPT ![r].phase = "failed"] /\ UNCHANGED artifact

(* Go on to the next step, or write the events file after the last one. *)
Advance(r) ==
    IF run[r].step = Len(Steps)
    THEN run' = [run EXCEPT ![r].phase = "sealed"] /\ artifact' = r
    ELSE run' = [run EXCEPT ![r].phase = "ready", ![r].step = @ + 1] /\ UNCHANGED artifact

(* The deploy built for a step: an install, or a call to the packages found. *)
Envelope(r) == [status |-> "pending", token |-> run[r].token, vault |-> run[r].vault]

SubmitEnvelope(r) == deploy' = [deploy EXCEPT ![r][StepOf(r)] = Envelope(r)]

Submit(r) ==
    /\ run[r].phase = "ready" /\ StepOf(r) \notin Reads
    /\ SubmitEnvelope(r)
    /\ run' = [run EXCEPT ![r].phase = "waiting"]
    /\ UNCHANGED <<plan, artifact, onChain, now>>

(* Mutated forms: what a deploy ended in is not looked at; the script goes   *)
(* on as soon as the deploy is submitted.                                    *)
AsExpectedAlways(r) == TRUE

ObserveAtOnce(r) ==
    /\ run[r].phase = "waiting"
    /\ Advance(r)
    /\ UNCHANGED <<plan, deploy, onChain, now>>

AsExpected(r) == deploy[r][StepOf(r)].status = Expected(StepOf(r))

(* The wait reports; any other outcome than the expected one is fatal. *)
Observe(r) ==
    /\ run[r].phase = "waiting"
    /\ deploy[r][StepOf(r)].status # "pending"
    /\ IF AsExpected(r) THEN Advance(r) ELSE Fail(r)
    /\ UNCHANGED <<plan, deploy, onChain, now>>

(* The three reads.  A package hash comes from the named key, if it is there; *)
(* the vault's identity, recorded in the events, from its package.           *)
Recover(r, step) ==
    /\ run[r].phase = "ready" /\ StepOf(r) = step
    /\ \/ step = "recoverCep18" /\ key.Cep18 # Nothing
            /\ run' = [run EXCEPT ![r].step = @ + 1, ![r].token = key.Cep18]
       \/ step = "recoverVault" /\ key.PolicyVault # Nothing
            /\ run' = [run EXCEPT ![r].step = @ + 1, ![r].vault = key.PolicyVault]
       \/ step = "readEntity"
            /\ run' = [run EXCEPT ![r].step = @ + 1]
    /\ UNCHANGED <<plan, artifact, deploy, onChain, now>>

(* The signed deploy is rebuilt and checked offline, hash and signature,      *)
(* before it leaves: if that throws, the nodes never see it.                 *)
RefusedOffline(r) ==
    /\ plan.faults
    /\ run[r].phase = "ready" /\ StepOf(r) \notin Reads
    /\ Fail(r)
    /\ UNCHANGED <<plan, deploy, onChain, now>>

(* The script throws or dies: a read failed, the node refused a submission, a *)
(* wait gave up, or it was killed.                                           *)
Abandon(r) ==
    /\ plan.faults
    /\ Active(r)
    /\ Fail(r)
    /\ UNCHANGED <<plan, deploy, onChain, now>>

(* The node took the deploy but the script lost its answer. *)
SubmitLost(r) ==
    /\ plan.faults
    /\ run[r].phase = "ready" /\ StepOf(r) \notin Reads
    /\ SubmitEnvelope(r)
    /\ Fail(r)
    /\ UNCHANGED <<plan, onChain, now>>

-----------------------------------------------------------------------------
(* The chain.  A pending deploy is executed whenever a block takes it. *)
Vault(v) == INSTANCE PolicyVault WITH
    Addresses <- {Deployer, Payee, Blocked, "vault"}, Vault <- "vault",
    Agents <- {Deployer}, Receivers <- {Payee, Blocked},
    Hashes <- {Payee, Blocked} \X (0 .. MaxU256),
    InitBalance <- [a \in {Deployer, Payee, Blocked, "vault"} |-> 0],
    owner <- Deployer, agents <- vaults[v].agents, receivers <- vaults[v].receivers,
    maxSingle <- plan.max, dailyLimit <- plan.daily, validUntil <- plan.until,
    dayIndex <- vaults[v].dayIndex, daySpend <- vaults[v].daySpend,
    paidTotal <- vaults[v].paidTotal, usedHashes <- vaults[v].usedHashes,
    balance <- [a \in {"vault"} |-> funds[vaults[v].token][v]],
    spentOn <- <<>>, timesPaid <- <<>>, deposited <- 0, stopped <- FALSE

Taken(r, step) == deploy[r][step].status = "pending"

ExecuteAs(r, step, verdict) == deploy' = [deploy EXCEPT ![r][step].status = verdict]

(* Every install carries the switches that let it take over the named key.   *)
Publish(contract, r) == key' = [key EXCEPT ![contract] = r]

ExecuteInstallCep18(r) ==
    /\ Taken(r, "installCep18")
    /\ ExecuteAs(r, "installCep18", "Ok")
    /\ Publish("Cep18", r)
    /\ purse' = [purse EXCEPT ![r] = Supply]
    /\ UNCHANGED <<plan, script, vaults, funds, now>>

InstallVerdict(r) ==
    IF ~ Vault(r)!ValidLimits(plan.max, plan.daily) THEN "AmountAboveMax"
    ELSE IF ~ Vault(r)!IsFuture(plan.until) THEN "InvalidValidUntil"
    ELSE "Ok"

ExecuteInstallVault(r) ==
    /\ Taken(r, "installVault")
    /\ ExecuteAs(r, "installVault", InstallVerdict(r))
    /\ IF InstallVerdict(r) = "Ok"
       THEN /\ Publish("PolicyVault", r)
            /\ vaults' = [vaults EXCEPT ![r] =
                   [token |-> deploy[r]["installVault"].token, agents |-> {}, receivers |-> {},
                    dayIndex |-> 0, daySpend |-> 0, paidTotal |-> 0, usedHashes |-> {}]]
       ELSE UNCHANGED <<key, vaults>>
    /\ UNCHANGED <<plan, script, funds, purse, now>>

(* The deployer owns every vault it installed. *)
ExecuteAllow(r, step) ==
    LET v == deploy[r][step].vault IN
    /\ Taken(r, step)
    /\ ExecuteAs(r, step, "Ok")
    /\ \/ step = "allowAgent" /\ vaults' = [vaults EXCEPT ![v].agents = @ \cup {Deployer}]
       \/ step = "allowReceiver" /\ vaults' = [vaults EXCEPT ![v].receivers = @ \cup {Payee}]
    /\ UNCHANGED <<plan, script, key, funds, purse, now>>

ExecuteFund(r) ==
    LET d == deploy[r]["fund"] IN
    /\ Taken(r, "fund")
    /\ IF purse[d.token] >= FundAmount
       THEN /\ ExecuteAs(r, "fund", "Ok")
            /\ purse' = [purse EXCEPT ![d.token] = @ - FundAmount]
            /\ funds' = [funds EXCEPT ![d.token][d.vault] = @ + FundAmount]
       ELSE ExecuteAs(r, "fund", "TokenError") /\ UNCHANGED <<purse, funds>>
    /\ UNCHANGED <<plan, script, key, vaults, now>>

ExecutePayment(r, step) ==
    LET v == deploy[r][step].vault
        amount == AmountOf(step)
        verdict == Vault(v)!PayVerdict(Deployer, ReceiverOf(step), amount, PayloadHash(step))
    IN  /\ Taken(r, step)
        /\ ExecuteAs(r, step, verdict)
        /\ IF verdict = "Ok"
           THEN /\ vaults' = [vaults EXCEPT
                       ![v].dayIndex = Vault(v)!Today,
                       ![v].daySpend = Vault(v)!CurrentDaySpend + amount,
                       ![v].paidTotal = @ + amount,
                       ![v].usedHashes = @ \cup {PayloadHash(step)}]
                /\ funds' = [funds EXCEPT ![vaults[v].token][v] = @ - amount]
           ELSE UNCHANGED <<vaults, funds>>
        /\ UNCHANGED <<plan, script, key, purse, now>>

Execute(r) ==
    \/ ExecuteInstallCep18(r) \/ ExecuteInstallVault(r)
    \/ \E step \in {"allowAgent", "allowReceiver"} : ExecuteAllow(r, step)
    \/ ExecuteFund(r)
    \/ \E step \in Payments : ExecutePayment(r, step)

Tick ==
    /\ now < MaxTime
    /\ now' = now + 1
    /\ UNCHANGED <<plan, script, deploy, onChain>>

ScriptStep(r) ==
    \/ Start(r) \/ Submit(r) \/ Observe(r)
    \/ \E step \in Reads : Recover(r, step)
    \/ RefusedOffline(r) \/ Abandon(r) \/ SubmitLost(r)

DemoNext ==
    \/ \E r \in Runs : ScriptStep(r) \/ Execute(r)
    \/ Tick

(* A wait ends by itself (EveryWaitEnds of DeployObserver), so the script    *)
(* never stops in the middle.  That the nodes execute what they took is      *)
(* assumed only where nothing may fail.                                      *)
DemoFairness ==
    \A r \in Runs :
        /\ WF_demoVars(ScriptStep(r))
        /\ WF_demoVars(~ plan.faults /\ Execute(r))

DemoSpec == DemoInit /\ [][DemoNext]_demoVars /\ DemoFairness

-----------------------------------------------------------------------------
Sealed(r) == run[r].phase = "sealed"

(* What the artifact says happened on chain: its vault was installed by the  *)
(* deploy it names, that vault accepted the payment, and refused the two     *)
(* others for the reasons given; however late the deploys of abandoned runs  *)
(* were executed and whichever packages they put under the named keys.  (A   *)
(* payment of zero would not tell two vaults apart.)                         *)
ArtifactIsTrue ==
    artifact # Nothing /\ plan.pay > 0 =>
        LET r == artifact IN
        /\ Sealed(r)
        /\ run[r].vault = r
        /\ deploy[r]["installVault"].status = "Ok"
        /\ \A step \in Payments :
            deploy[r][step].vault = r /\ deploy[r][step].status = Expected(step)

(* A vault on record has paid out exactly what it was funded with: the       *)
(* accepted payment is all that left it and nothing stays behind             *)
(* ("Funding equals the accepted amount", run-tier1.ts).                     *)
SealedVaultIsEmpty ==
    \A r \in Runs : Sealed(r) /\ plan.pay > 0 =>
        /\ funds[vaults[r].token][r] = 0
        /\ vaults[r].paidTotal = plan.pay

(* Once its run is sealed a vault never changes: no re-run, no deploy of an  *)
(* abandoned run and no late payment touches what the artifact points at.    *)
SealedVaultIsFinal ==
    [][\A r \in Runs : Sealed(r) /\ plan.pay > 0 =>
            UNCHANGED <<vaults[r], funds[vaults[r].token][r]>>]_demoVars

(* With nothing failing, a plan that passes the pre-flight and that the      *)
(* vault's init accepts is carried through: every payment meets the outcome  *)
(* its pre-flight predicts, for every combination of amounts and limits.     *)
SoundPlan ==
    /\ ~ plan.faults
    /\ PreFlight
    /\ 0 < plan.max /\ plan.max <= plan.daily
    /\ plan.until > MaxTime
    /\ plan.pay <= Supply
HealthyRunsSeal == SoundPlan => \A r \in Runs : <>Sealed(r)
=============================================================================
