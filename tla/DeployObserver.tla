--------------------------- MODULE DeployObserver ---------------------------
(***************************************************************************)
(* Waiting for a deploy to be executed (awaitDeployFinalized() and          *)
(* readExecutionInfo() in packages/adapters/src/casper-deploy.ts).          *)
(*                                                                          *)
(* A hash may name a legacy deploy or a Casper 2.0 transaction, and the     *)
(* client does not know which.  Each attempt asks for the deploy and, if    *)
(* that call throws, for the transaction; a call may throw because the node *)
(* does not know the hash under that kind or because the transport failed,  *)
(* and the client cannot tell the two apart.                                *)
(***************************************************************************)
EXTENDS Integers

CONSTANTS
    Hashes,
    Waits,         \* calls of awaitDeployFinalized()
    MaxAttempts    \* 30 in the code

ASSUME ObserverAssumption == MaxAttempts \in Nat \ {0}

VARIABLES
    kind,      \* external: which of the two a hash names
    stage,     \* external: how far the node has got with it
    wait       \* wait -> where it stands and what it reported

vars == <<kind, stage, wait>>

Kinds == {"deploy", "transaction"}
(* A node knows a hash, then sees it in a block, then has its result: an     *)
(* execution without error, with "User error: n", or with another message.   *)
Executed == {"ok", "userError", "otherError"}
Stages == {"unknown", "known", "inBlock"} \cup Executed

NoReport == [success |-> FALSE, code |-> FALSE, kind |-> "none"]
Report == [success : BOOLEAN, code : BOOLEAN, kind : Kinds \cup {"none"}]

Init ==
    /\ kind \in [Hashes -> Kinds]
    /\ stage = [h \in Hashes |-> "unknown"]
    /\ wait \in [Waits -> {[pc |-> "none", hash |-> h, attempt |-> 0, report |-> NoReport] :
                                h \in Hashes}]

-----------------------------------------------------------------------------
At(w, pc) == wait[w].pc = pc
Waiting(w) == wait[w].pc \in {"askDeploy", "askTransaction", "sleep"}

Begin(w, h) ==
    /\ ~ Waiting(w)
    /\ wait' = [wait EXCEPT ![w] =
            [pc |-> "askDeploy", hash |-> h, attempt |-> 0, report |-> NoReport]]
    /\ UNCHANGED <<kind, stage>>

(* Mutated form: being in a block is taken for a result. *)
InBlock(h) == stage[h] \in Executed \cup {"inBlock"}

HasResult(h) == stage[h] \in Executed

(* The node answers a call for the hash under the kind it has. *)
Answered(w, k) ==
    LET h == wait[w].hash IN
    /\ At(w, IF k = "deploy" THEN "askDeploy" ELSE "askTransaction")
    /\ kind[h] = k
    /\ stage[h] # "unknown"

ReportResult(w, k) ==
    LET s == stage[wait[w].hash] IN
    wait' = [wait EXCEPT ![w].pc = "reported",
        ![w].report = [success |-> s \notin {"userError", "otherError"},
                       code |-> s = "userError", kind |-> k]]

(* Mutated form: the loop never counts its attempts. *)
KeepPolling(w) == wait' = [wait EXCEPT ![w].pc = "sleep"]

(* The attempt brought no result: sleep, or throw after the last one. *)
NotYet(w) ==
    IF wait[w].attempt < MaxAttempts - 1
    THEN wait' = [wait EXCEPT ![w].pc = "sleep", ![w].attempt = @ + 1]
    ELSE wait' = [wait EXCEPT ![w].pc = "gaveUp"]

InfoRead(w, k) ==
    /\ Answered(w, k)
    /\ IF HasResult(wait[w].hash) THEN ReportResult(w, k) ELSE NotYet(w)
    /\ UNCHANGED <<kind, stage>>

DeployCallThrows(w) ==
    /\ At(w, "askDeploy")
    /\ wait' = [wait EXCEPT ![w].pc = "askTransaction"]
    /\ UNCHANGED <<kind, stage>>

TransactionCallThrows(w) ==
    /\ At(w, "askTransaction")
    /\ NotYet(w)
    /\ UNCHANGED <<kind, stage>>

SleepEnds(w) ==
    /\ At(w, "sleep")
    /\ wait' = [wait EXCEPT ![w].pc = "askDeploy"]
    /\ UNCHANGED <<kind, stage>>

-----------------------------------------------------------------------------
NodeAdvances(h) ==
    /\ \/ stage[h] = "unknown" /\ stage' = [stage EXCEPT ![h] = "known"]
       \/ stage[h] = "known" /\ stage' = [stage EXCEPT ![h] = "inBlock"]
       \/ stage[h] = "inBlock" /\ \E r \in Executed : stage' = [stage EXCEPT ![h] = r]
    /\ UNCHANGED <<kind, wait>>

WaitStep(w) ==
    \/ \E k \in Kinds : InfoRead(w, k)
    \/ DeployCallThrows(w) \/ TransactionCallThrows(w)
    \/ SleepEnds(w)

Next ==
    \/ \E w \in Waits : WaitStep(w) \/ \E h \in Hashes : Begin(w, h)
    \/ \E h \in Hashes : NodeAdvances(h)

(* Every call ends by an answer, an error or its abort timer (8 s), and      *)
(* every sleep by its own timer: a wait never stops between two steps.  The  *)
(* node owes nothing.                                                        *)
Fairness == \A w \in Waits : WF_vars(WaitStep(w))

Spec == Init /\ [][Next]_vars /\ Fairness

-----------------------------------------------------------------------------
(* The node's stages and the waits are well formed. *)
TypeOK ==
    /\ kind \in [Hashes -> Kinds]
    /\ stage \in [Hashes -> Stages]
    /\ wait \in [Waits -> [pc : {"none", "askDeploy", "askTransaction", "sleep",
                                 "reported", "gaveUp"},
                           hash : Hashes, attempt : 0 .. MaxAttempts - 1, report : Report]]

(* A report is what the chain decided, with the kind the hash really has,    *)
(* whatever calls failed on the way: a deploy whose own call failed is never *)
(* reported as a transaction, and a code is reported exactly for a user      *)
(* error ("honest provenance", casper-deploy.ts).                            *)
ReportIsTrue ==
    \A w \in Waits : At(w, "reported") =>
        LET r == wait[w].report
            h == wait[w].hash
        IN  /\ stage[h] \in Executed
            /\ r.success <=> stage[h] = "ok"
            /\ r.code <=> stage[h] = "userError"
            /\ r.kind = kind[h]

(* Every wait ends, even if the node never learns of the deploy. *)
EveryWaitEnds == \A w \in Waits : Waiting(w) ~> ~ Waiting(w)

(* Callers see no more of all this than FinalityWait shows. *)
OutcomeOf(w) ==
    IF Waiting(w) THEN "waiting"
    ELSE IF At(w, "reported") THEN (IF wait[w].report.success THEN "success" ELSE "reverted")
    ELSE wait[w].pc

Abstract == INSTANCE FinalityWait WITH
    verdict <- [h \in Hashes |->
        IF ~ stage[h] \in Executed THEN "pending"
        ELSE IF stage[h] = "ok" THEN "success" ELSE "reverted"],
    waitFor <- [w \in Waits |-> wait[w].hash],
    outcome <- [w \in Waits |-> OutcomeOf(w)]

ImplementsFinalityWait == Abstract!Spec
=============================================================================
