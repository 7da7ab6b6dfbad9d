----------------------------- MODULE IntentApi -----------------------------
(***************************************************************************)
(* The intents API (apps/api/src/intents/router.ts): request handlers over  *)
(* an in-memory map of intents, the SQLite spend ledger and the SQLite      *)
(* audit trace.                                                             *)
(*                                                                          *)
(* Handlers run on one event loop.  What a handler does between two awaits  *)
(* is one step; at an await any other handler may run.  The awaits are the  *)
(* request body, the ledger's promises and, in confirm-onchain, the node:   *)
(* up to a minute of polling.  A request in flight is a member of Slots     *)
(* whose record keeps what the handler carries across the await.            *)
(***************************************************************************)
EXTENDS Integers, Sequences, FiniteSets, FiniteSetsExt

CONSTANTS
    Intents,            \* intent ids that may be minted
    Slots,              \* requests that may be in flight at a time
    Deploys,            \* deploy hashes
    Amounts,            \* amounts an intent may ask for
    SingleCap,          \* maxSinglePaymentAtomic
    DayCap,             \* perDayCapAtomic
    MaxTime, DayLen,
    OneRequestPerIntent,\* clients wait for an answer before the next request
    LedgerYields        \* another handler may run while a ledger promise resolves

ASSUME ApiAssumption ==
    /\ IsFiniteSet(Intents)
    /\ Amounts \subseteq Nat
    /\ SingleCap \in Nat
    /\ DayCap \in Nat
    /\ MaxTime \in Nat
    /\ DayLen \in Nat \ {0}
    /\ OneRequestPerIntent \in BOOLEAN
    /\ LedgerYields \in BOOLEAN

VARIABLES
    entry,     \* the in-memory map: intent -> its entry, or Absent
    rows,      \* the spend ledger's table
    trace,     \* intent -> its audit rows, in insertion order
    request,   \* slot -> the request it serves, or Idle
    chain,     \* deploy hash -> what the node knows of it
    now        \* the clock

vars == <<entry, rows, trace, request, chain, now>>

Signer == "demo_signer"
Ledger == INSTANCE SpendLedger WITH Signers <- {Signer}

States == {"DRAFT", "POLICY_VALIDATED", "ACCEPTED_BY_NODE", "EXECUTED", "REJECTED",
           "FINALIZED", "EXECUTION_FAILED", "TIMEOUT"}
Terminal == {"FINALIZED", "EXECUTION_FAILED", "REJECTED", "TIMEOUT"}

NoHash == "none"
NoTime == 0     \* the handler has not read the clock yet
Absent == [state |-> "ABSENT"]
Idle == [op |-> "idle", pc |-> "idle"]
(* What the policy reads of a body: its amount, and whether its chain,       *)
(* package, token and receiver are all on the allowlists.                    *)
Body == [amount : Amounts, listed : BOOLEAN]

-----------------------------------------------------------------------------
Exists(i) == entry[i] # Absent
StateOf(i) == entry[i].state

(* checkPolicyRules(): the read-only gate. *)
PolicyAllows(body) == body.listed /\ body.amount <= SingleCap

(* Mutated form: the state is assigned and no audit row appended. *)
RecordSilently(i, newState, t) ==
    /\ entry' = [entry EXCEPT ![i].state = newState]
    /\ UNCHANGED trace

(* Every handler ends by assigning the entry's state and appending the audit *)
(* row with the time it read earlier.                                        *)
Record(i, newState, t) ==
    /\ entry' = [entry EXCEPT ![i].state = newState]
    /\ trace' = [trace EXCEPT ![i] = Append(@, [state |-> newState, at |-> t])]

RecordExecution(i, hash, t) ==
    /\ entry' = [entry EXCEPT ![i].state = "EXECUTED", ![i].hash = hash]
    /\ trace' = [trace EXCEPT ![i] = Append(@, [state |-> "EXECUTED", at |-> t])]

Busy(i) == \E s \in Slots : request[s] # Idle /\ request[s].intent = i

At(s, op, pc) == request[s].op = op /\ request[s].pc = pc

(* The ledger's methods are synchronous inside, so their promises are already *)
(* resolved when they are awaited: only handlers woken in the same turn of    *)
(* the event loop get in between.  With LedgerYields false none does.         *)
LedgerAwaits == {s \in Slots : request[s].op = "validate" \/ request[s].pc = "settled"}
LoopFree == ~ LedgerYields => LedgerAwaits = {}

(* The body or the node's answer wakes a handler. *)
Woken(s, op, pc) == LoopFree /\ At(s, op, pc)

(* A request for i arrives and finds its entry. *)
Arrives(s, i) ==
    /\ LoopFree
    /\ request[s] = Idle
    /\ Exists(i)
    /\ OneRequestPerIntent => ~ Busy(i)

Suspend(s, i, op, pc, t, hash) ==
    request' = [request EXCEPT ![s] =
        [op |-> op, pc |-> pc, intent |-> i, t |-> t, hash |-> hash]]

Answer(s) == request' = [request EXCEPT ![s] = Idle]

-----------------------------------------------------------------------------
Init ==
    /\ entry = [i \in Intents |-> Absent]
    /\ rows = [i \in Intents |-> Ledger!NoRow]
    /\ trace = [i \in Intents |-> <<>>]
    /\ request = [s \in Slots |-> Idle]
    /\ chain = [h \in Deploys |-> "pending"]
    /\ now = 0

(* POST /: the body is awaited before anything is read or written.  Ids are  *)
(* random, so an id of an earlier run of the server is never minted again.   *)
Create(i, body) ==
    /\ LoopFree
    /\ ~ Exists(i) /\ trace[i] = <<>>
    /\ entry' = [entry EXCEPT ![i] = [state |-> "DRAFT", body |-> body, hash |-> NoHash]]
    /\ trace' = [trace EXCEPT ![i] = <<[state |-> "DRAFT", at |-> now]>>]
    /\ UNCHANGED <<rows, request, chain, now>>

(* POST /:id/validate-policy.  A denial is recorded at once; otherwise the   *)
(* reservation is made and its outcome is acted on after the await.          *)
ValidateDenied(s, i) ==
    /\ Arrives(s, i)
    /\ StateOf(i) = "DRAFT"
    /\ ~ PolicyAllows(entry[i].body)
    /\ Record(i, "REJECTED", now)
    /\ UNCHANGED <<rows, request, chain, now>>

ValidateReserves(s, i) ==
    LET day == Ledger!DayOf(now)
        amount == entry[i].body.amount
        result == Ledger!ReserveResult(i, Signer, day, amount)
    IN  /\ Arrives(s, i)
        /\ StateOf(i) = "DRAFT"
        /\ PolicyAllows(entry[i].body)
        /\ Ledger!Reserve(i, Signer, day, amount)
        /\ Suspend(s, i, "validate", result, now, NoHash)
        /\ UNCHANGED <<entry, trace, chain, now>>

ValidateEnds(s) ==
    /\ request[s].op = "validate"
    /\ Record(request[s].intent,
              IF request[s].pc = "ok" THEN "POLICY_VALIDATED" ELSE "REJECTED",
              request[s].t)
    /\ Answer(s)
    /\ UNCHANGED <<rows, chain, now>>

-----------------------------------------------------------------------------
(* Commit or release the reservation if it is still open, then wait for the  *)
(* ledger's promise; with no open reservation the handler runs straight on.  *)
SettleThenWait(s, i, op, hash, settle) ==
    /\ Ledger!IsReserved(i)
    /\ settle
    /\ Suspend(s, i, op, "settled", now, hash)
    /\ UNCHANGED <<entry, trace>>

NothingToSettle(s, i) ==
    /\ ~ Ledger!IsReserved(i)
    /\ Answer(s)
    /\ UNCHANGED rows

(* Mutated form: any open intent may be marked. *)
MarkArrivesAnyState(s, i) ==
    /\ Arrives(s, i)
    /\ StateOf(i) \notin Terminal
    /\ Suspend(s, i, "mark", "body", NoTime, NoHash)
    /\ UNCHANGED <<entry, rows, trace, chain, now>>

(* POST /:id/mark-executed checks the state, then awaits the body. *)
MarkArrives(s, i) ==
    /\ Arrives(s, i)
    /\ StateOf(i) \in {"POLICY_VALIDATED", "ACCEPTED_BY_NODE"}
    /\ Suspend(s, i, "mark", "body", NoTime, NoHash)
    /\ UNCHANGED <<entry, rows, trace, chain, now>>

MarkBody(s) ==
    LET i == request[s].intent IN
    /\ Woken(s, "mark", "body")
    /\ \/ SettleThenWait(s, i, "mark", NoHash, Ledger!Commit(i))
       \/ NothingToSettle(s, i) /\ Record(i, "EXECUTED", now)
    /\ UNCHANGED <<chain, now>>

MarkEnds(s) ==
    /\ At(s, "mark", "settled")
    /\ Record(request[s].intent, "EXECUTED", request[s].t)
    /\ Answer(s)
    /\ UNCHANGED <<rows, chain, now>>

-----------------------------------------------------------------------------
(* Mutated forms: the state is not checked; the budget is committed before   *)
(* the node has answered; a failed wait gives the budget back.               *)
ConfirmBodyUnchecked(s, hash) ==
    /\ Woken(s, "confirm", "body")
    /\ Suspend(s, request[s].intent, "confirm", "node", NoTime, hash)
    /\ UNCHANGED <<entry, rows, trace, chain, now>>

ConfirmBodyCommits(s, hash) ==
    LET i == request[s].intent IN
    /\ Woken(s, "confirm", "body")
    /\ StateOf(i) = "POLICY_VALIDATED"
    /\ Ledger!Commit(i)
    /\ Suspend(s, i, "confirm", "node", NoTime, hash)
    /\ UNCHANGED <<entry, trace, chain, now>>

ConfirmFailsReleasing(s) ==
    /\ Woken(s, "confirm", "node")
    /\ Ledger!Release(request[s].intent)
    /\ Answer(s)
    /\ UNCHANGED <<entry, trace, chain, now>>

(* POST /:id/confirm-onchain awaits the body, checks the state, then awaits  *)
(* the node's word on the deploy.                                            *)
ConfirmArrives(s, i) ==
    /\ Arrives(s, i)
    /\ Suspend(s, i, "confirm", "body", NoTime, NoHash)
    /\ UNCHANGED <<entry, rows, trace, chain, now>>

ConfirmBody(s, hash) ==
    LET i == request[s].intent IN
    /\ Woken(s, "confirm", "body")
    /\ IF StateOf(i) = "POLICY_VALIDATED"
       THEN Suspend(s, i, "confirm", "node", NoTime, hash)
       ELSE Answer(s)
    /\ UNCHANGED <<entry, rows, trace, chain, now>>

(* It reverted, or the node did not report it final within the attempts      *)
(* (which can happen to any deploy): the reservation stays held and the      *)
(* intent stays unexecuted.                                                  *)
ConfirmFails(s) ==
    /\ Woken(s, "confirm", "node")
    /\ Answer(s)
    /\ UNCHANGED <<entry, rows, trace, chain, now>>

ConfirmFinalized(s) ==
    LET i == request[s].intent
        hash == request[s].hash
    IN  /\ Woken(s, "confirm", "node")
        /\ chain[hash] = "success"
        /\ \/ SettleThenWait(s, i, "confirm", hash, Ledger!Commit(i))
           \/ NothingToSettle(s, i) /\ RecordExecution(i, hash, now)
        /\ UNCHANGED <<chain, now>>

ConfirmEnds(s) ==
    /\ At(s, "confirm", "settled")
    /\ RecordExecution(request[s].intent, request[s].hash, request[s].t)
    /\ Answer(s)
    /\ UNCHANGED <<rows, chain, now>>

-----------------------------------------------------------------------------
(* Mutated form: a rejection keeps the budget. *)
RejectBodyKeeping(s) ==
    /\ Woken(s, "reject", "body")
    /\ Record(request[s].intent, "REJECTED", now)
    /\ Answer(s)
    /\ UNCHANGED <<rows, chain, now>>

(* POST /:id/reject checks the state, then awaits the body. *)
RejectArrives(s, i) ==
    /\ Arrives(s, i)
    /\ StateOf(i) \notin Terminal
    /\ Suspend(s, i, "reject", "body", NoTime, NoHash)
    /\ UNCHANGED <<entry, rows, trace, chain, now>>

RejectBody(s) ==
    LET i == request[s].intent IN
    /\ Woken(s, "reject", "body")
    /\ \/ SettleThenWait(s, i, "reject", NoHash, Ledger!Release(i))
       \/ NothingToSettle(s, i) /\ Record(i, "REJECTED", now)
    /\ UNCHANGED <<chain, now>>

RejectEnds(s) ==
    /\ At(s, "reject", "settled")
    /\ Record(request[s].intent, "REJECTED", request[s].t)
    /\ Answer(s)
    /\ UNCHANGED <<rows, chain, now>>

-----------------------------------------------------------------------------
(* A body that never arrives whole, or is malformed, ends the request.  (Of  *)
(* reject, only a body without fields does: an unreadable one counts as an   *)
(* empty one, RejectBody.)                                                   *)
BodyRefused(s) ==
    /\ \E op \in {"mark", "confirm", "reject"} : Woken(s, op, "body")
    /\ Answer(s)
    /\ UNCHANGED <<entry, rows, trace, chain, now>>

(* The server restarts: the map and the requests are lost, the two SQLite    *)
(* tables stay.                                                              *)
Restart ==
    /\ entry' = [i \in Intents |-> Absent]
    /\ request' = [s \in Slots |-> Idle]
    /\ UNCHANGED <<rows, trace, chain, now>>

ChainDecides(h) ==
    /\ chain[h] = "pending"
    /\ \E outcome \in {"success", "reverted"} : chain' = [chain EXCEPT ![h] = outcome]
    /\ UNCHANGED <<entry, rows, trace, request, now>>

Tick ==
    /\ now < MaxTime
    /\ now' = now + 1
    /\ UNCHANGED <<entry, rows, trace, request, chain>>

Handler(s) ==
    \/ \E i \in Intents :
        \/ ValidateDenied(s, i) \/ ValidateReserves(s, i)
        \/ MarkArrives(s, i) \/ ConfirmArrives(s, i) \/ RejectArrives(s, i)
    \/ ValidateEnds(s)
    \/ MarkBody(s) \/ MarkEnds(s)
    \/ \E h \in Deploys : ConfirmBody(s, h)
    \/ ConfirmFails(s) \/ ConfirmFinalized(s) \/ ConfirmEnds(s)
    \/ RejectBody(s) \/ RejectEnds(s)
    \/ BodyRefused(s)

Next ==
    \/ \E i \in Intents, body \in Body : Create(i, body)
    \/ \E s \in Slots : Handler(s)
    \/ Restart
    \/ \E h \in Deploys : ChainDecides(h)
    \/ Tick

Spec == Init /\ [][Next]_vars
-----------------------------------------------------------------------------
(* Every entry, ledger row, audit row and request in flight is well formed. *)
TypeOK ==
    /\ entry \in [Intents -> {Absent} \cup
            [state : States, body : Body, hash : Deploys \cup {NoHash}]]
    /\ Ledger!TypeOK
    /\ trace \in [Intents -> Seq([state : States, at : 0 .. MaxTime])]
    /\ request \in [Slots -> {Idle} \cup
            [op : {"validate", "mark", "confirm", "reject"},
             pc : {"ok", "day_cap_exceeded", "reservation_conflict", "body", "node", "settled"},
             intent : Intents, t : 0 .. MaxTime, hash : Deploys \cup {NoHash}]]
    /\ chain \in [Deploys -> {"pending", "success", "reverted"}]

Executed(i) == \E k \in DOMAIN trace[i] : trace[i][k].state = "EXECUTED"

ExecutedOnDay(d) == {i \in Intents : Executed(i) /\ rows[i].day = d}

(* GET /:id/trace returns the rows by time, then by insertion; a client takes *)
(* the last one for the current state.                                        *)
ShownState(i) ==
    LET latest == Max({trace[i][k].at : k \in DOMAIN trace[i]})
        k == Max({j \in DOMAIN trace[i] : trace[i][j].at = latest})
    IN  trace[i][k].state

(* No execution is on record for an intent whose policy check is not on      *)
(* record before it: no race skips the gate of validate-policy.              *)
ExecutedWasValidated ==
    \A i \in Intents : \A k \in DOMAIN trace[i] :
        trace[i][k].state = "EXECUTED" =>
            \E j \in 1 .. k - 1 : trace[i][j].state = "POLICY_VALIDATED"

(* Budget is committed only for an execution: one that is on record, that a  *)
(* request in flight is about to record, or whose record a restart cut off   *)
(* between the ledger's write and the audit's.                               *)
CommittedForExecution ==
    \A i \in Intents : Ledger!HasStatus(i, {"committed"}) =>
        \/ Executed(i)
        \/ \E s \in Slots : request[s].pc = "settled" /\ request[s].intent = i
        \/ ~ Exists(i)

(* What was executed against a day's budget fits in the day's cap: "the      *)
(* intent holds budget through execution" (router.ts:159-161).               *)
ExecutedWithinCap ==
    \A d \in Ledger!Days :
        SumFunction([i \in ExecutedOnDay(d) |-> rows[i].amount]) <= DayCap

(* The ledger agrees with what was recorded: the budget of an executed        *)
(* intent stays committed, across restarts too, and a rejected intent that    *)
(* no request is working on holds no open reservation ("mark-executed commits *)
(* this reservation; reject releases it", router.ts:160-161).                 *)
BudgetFollowsIntent ==
    \A i \in Intents :
        /\ Executed(i) => Ledger!HasStatus(i, {"committed"})
        /\ Exists(i) /\ StateOf(i) = "REJECTED" /\ ~ Busy(i) => ~ Ledger!IsReserved(i)

(* An intent is executed at most once: a repeated confirm or mark-executed   *)
(* records nothing again ("Idempotent", router.ts:338).                      *)
ExecutedOnce ==
    \A i \in Intents : \A j, k \in DOMAIN trace[i] :
        trace[i][j].state = "EXECUTED" /\ trace[i][k].state = "EXECUTED" => j = k

(* The trace, sorted by time as it is served, ends in the state the API      *)
(* holds the intent in.                                                      *)
TraceShowsState == \A i \in Intents : Exists(i) => ShownState(i) = StateOf(i)

(* A terminal state is never left (router.ts:424-427 and isTerminal() in     *)
(* packages/intent-fsm/src/transitions.ts), short of losing the whole entry. *)
TerminalIsFinal ==
    [][\A i \in Intents : Exists(i) /\ StateOf(i) \in Terminal =>
            entry'[i] \in {entry[i], Absent}]_vars
=============================================================================
