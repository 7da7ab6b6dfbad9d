-------------------------- MODULE IntentApiProofs --------------------------
(***************************************************************************)
(* The seven properties of the API.  However requests race and the server   *)
(* restarts: types, the gate in front of every execution, budget committed  *)
(* for executions only, and a ledger that never holds more than a day's     *)
(* cap.                                                                     *)
(*                                                                          *)
(* A handler checks the state before an await and records after it, so the  *)
(* gate rests on what cannot be undone meanwhile: the audit rows only grow. *)
(* Types need that an intent with a request in flight is still in the map:  *)
(* a restart loses both.                                                    *)
(*                                                                          *)
(* For clients that wait for an answer before the next request: the budget  *)
(* of an execution stays committed, executions of a day fit in its cap, no  *)
(* intent is executed twice, the trace ends in the state and a terminal     *)
(* state is final.  All follow from where the one request that may be       *)
(* underway for an intent stands (WaitingInv).                              *)
(***************************************************************************)
EXTENDS IntentApi, SumLaws, TLAPS

AuditRow == [state : States, at : 0 .. MaxTime]
Entry == [state : States, body : Body, hash : Deploys \cup {NoHash}]
Request ==
    [op : {"validate", "mark", "confirm", "reject"},
     pc : {"ok", "day_cap_exceeded", "reservation_conflict", "body", "node", "settled"},
     intent : Intents, t : 0 .. MaxTime, hash : Deploys \cup {NoHash}]

InFlight(s) == request[s] # Idle
Validated(i) == \E j \in DOMAIN trace[i] : trace[i][j].state = "POLICY_VALIDATED"

(* The requests that have been let through to an execution. *)
PastGate(r) == r.op = "mark" \/ (r.op = "confirm" /\ r.pc \in {"node", "settled"})

GateInv ==
    /\ \A i \in Intents :
        Exists(i) /\ StateOf(i) \in {"POLICY_VALIDATED", "ACCEPTED_BY_NODE", "EXECUTED"}
            => Validated(i)
    /\ \A s \in Slots : InFlight(s) /\ PastGate(request[s]) => Validated(request[s].intent)

InFlightExists == \A s \in Slots : InFlight(s) => Exists(request[s].intent)

IInv == TypeOK /\ InFlightExists /\ GateInv /\ ExecutedWasValidated

-----------------------------------------------------------------------------
(* What a step does to the map, the trace and the requests, in three forms:  *)
(* a handler waits on or ends without a record, or it records and ends.      *)
Waits(s) ==
    /\ UNCHANGED <<entry, trace>>
    /\ \/ request' = [request EXCEPT ![s] = Idle]
       \/ \E r \in Request :
            /\ request' = [request EXCEPT ![s] = r]
            /\ Exists(r.intent)
            /\ PastGate(r) => Validated(r.intent)

Records(s) ==
    \E i \in Intents, e \in Entry, t \in 0 .. MaxTime :
        /\ Exists(i)
        /\ e.state \in {"POLICY_VALIDATED", "REJECTED", "EXECUTED"}
        /\ e.state = "EXECUTED" => Validated(i)
        /\ entry' = [entry EXCEPT ![i] = e]
        /\ trace' = [trace EXCEPT ![i] = Append(@, [state |-> e.state, at |-> t])]
        /\ request' = [request EXCEPT ![s] = Idle] \/ UNCHANGED request

LEMMA ExceptType ==
    ASSUME NEW S, NEW T, NEW f \in [S -> T], NEW x, NEW y \in T
    PROVE  [f EXCEPT ![x] = y] \in [S -> T]
OBVIOUS

LEMMA RequestTypes ==
    ASSUME TypeOK, NEW s \in Slots, InFlight(s)
    PROVE  request[s] \in Request /\ request[s].intent \in Intents
BY DEF TypeOK, InFlight, Request

LEMMA EntryTypes ==
    ASSUME TypeOK, NEW i \in Intents, Exists(i) PROVE entry[i] \in Entry
BY DEF TypeOK, Exists, Entry

LEMMA NowTypes == TypeOK => now \in 0 .. MaxTime
BY DEF TypeOK, Ledger!TypeOK, Ledger!Time

LEMMA RecordForm ==
    ASSUME TypeOK, NEW s \in Slots, NEW i \in Intents, Exists(i), NEW t \in 0 .. MaxTime,
           NEW newState \in {"POLICY_VALIDATED", "REJECTED", "EXECUTED"},
           newState = "EXECUTED" => Validated(i),
           Record(i, newState, t), Answer(s) \/ UNCHANGED request
    PROVE  Records(s)
<1> DEFINE e == [entry[i] EXCEPT !.state = newState]
<1>1. e \in Entry /\ e.state = newState
    BY EntryTypes DEF Entry, States
<1>2. entry' = [entry EXCEPT ![i] = e]
    BY DEF Record
<1>3. trace' = [trace EXCEPT ![i] = Append(@, [state |-> e.state, at |-> t])]
    BY <1>1 DEF Record
<1>. QED BY <1>1, <1>2, <1>3 DEF Records, Answer

LEMMA RecordExecutionForm ==
    ASSUME TypeOK, NEW s \in Slots, NEW i \in Intents, Exists(i), NEW t \in 0 .. MaxTime,
           NEW hash \in Deploys \cup {NoHash}, Validated(i),
           RecordExecution(i, hash, t), Answer(s)
    PROVE  Records(s)
<1> DEFINE e == [entry[i] EXCEPT !.state = "EXECUTED", !.hash = hash]
<1>1. e \in Entry /\ e.state = "EXECUTED"
    BY EntryTypes DEF Entry, States
<1>2. entry' = [entry EXCEPT ![i] = e]
    BY DEF RecordExecution, TypeOK
<1>3. trace' = [trace EXCEPT ![i] = Append(@, [state |-> e.state, at |-> t])]
    BY <1>1 DEF RecordExecution
<1>. QED BY <1>1, <1>2, <1>3 DEF Records, Answer

LEMMA SuspendForm ==
    ASSUME NEW s \in Slots, NEW i \in Intents, Exists(i),
           NEW op \in {"validate", "mark", "confirm", "reject"},
           NEW pc \in {"ok", "day_cap_exceeded", "reservation_conflict", "body", "node", "settled"},
           NEW t \in 0 .. MaxTime, NEW hash \in Deploys \cup {NoHash},
           op = "mark" \/ (op = "confirm" /\ pc \in {"node", "settled"}) => Validated(i),
           Suspend(s, i, op, pc, t, hash), UNCHANGED <<entry, trace>>
    PROVE  Waits(s)
<1> DEFINE r == [op |-> op, pc |-> pc, intent |-> i, t |-> t, hash |-> hash]
<1>1. r \in Request /\ r.intent = i /\ r.op = op /\ r.pc = pc
    BY DEF Request
<1>2. request' = [request EXCEPT ![s] = r]
    BY DEF Suspend
<1>. QED BY <1>1, <1>2 DEF Waits, PastGate

LEMMA AnswerForm ==
    ASSUME NEW s \in Slots, Answer(s), UNCHANGED <<entry, trace>> PROVE Waits(s)
BY DEF Answer, Waits

(* A body is marked, confirmed or rejected: the reservation is settled and   *)
(* the handler waits, or nothing is to settle and it records at once.        *)
LEMMA SettleForm ==
    ASSUME IInv, NEW s \in Slots, NEW i \in Intents, Exists(i),
           NEW op \in {"mark", "confirm", "reject"},
           NEW hash \in Deploys \cup {NoHash}, NEW settle, SettleThenWait(s, i, op, hash, settle),
           op \in {"mark", "confirm"} => Validated(i)
    PROVE  Waits(s)
<1>1. Suspend(s, i, op, "settled", now, hash) /\ UNCHANGED <<entry, trace>>
    BY DEF SettleThenWait
<1>. QED BY <1>1, SuspendForm, NowTypes DEF IInv

LEMMA HandlerForms ==
    ASSUME IInv, NEW s \in Slots, Handler(s) PROVE Waits(s) \/ Records(s)
<1> USE DEF IInv
<1> DEFINE Goal == Waits(s) \/ Records(s)
<1>1. NoTime \in 0 .. MaxTime /\ now \in 0 .. MaxTime /\ NoHash \in Deploys \cup {NoHash}
    BY ApiAssumption, NowTypes DEF ApiAssumption, NoTime
<1>2. ASSUME NEW i \in Intents, ValidateDenied(s, i) PROVE Goal
    BY <1>1, <1>2, RecordForm DEF ValidateDenied, Arrives
<1>3. ASSUME NEW i \in Intents, ValidateReserves(s, i) PROVE Goal
    <2> DEFINE result == Ledger!ReserveResult(i, Signer, Ledger!DayOf(now), entry[i].body.amount)
    <2>1. result \in {"ok", "day_cap_exceeded", "reservation_conflict"}
        BY DEF Ledger!ReserveResult
    <2>2. Exists(i) /\ Suspend(s, i, "validate", result, now, NoHash) /\ UNCHANGED <<entry, trace>>
        BY <1>3 DEF ValidateReserves, Arrives
    <2>. QED BY <1>1, <2>1, <2>2, SuspendForm
<1>4. ASSUME NEW i \in Intents, MarkArrives(s, i) PROVE Goal
    <2>1. Exists(i) /\ Validated(i) /\ Suspend(s, i, "mark", "body", NoTime, NoHash)
          /\ UNCHANGED <<entry, trace>>
        BY <1>4 DEF MarkArrives, Arrives, GateInv
    <2>. QED BY <1>1, <2>1, SuspendForm
<1>5. ASSUME NEW i \in Intents, ConfirmArrives(s, i) PROVE Goal
    <2>1. Exists(i) /\ Suspend(s, i, "confirm", "body", NoTime, NoHash)
          /\ UNCHANGED <<entry, trace>>
        BY <1>5 DEF ConfirmArrives, Arrives
    <2>. QED BY <1>1, <2>1, SuspendForm
<1>6. ASSUME NEW i \in Intents, RejectArrives(s, i) PROVE Goal
    <2>1. Exists(i) /\ Suspend(s, i, "reject", "body", NoTime, NoHash)
          /\ UNCHANGED <<entry, trace>>
        BY <1>6 DEF RejectArrives, Arrives
    <2>. QED BY <1>1, <2>1, SuspendForm
<1>7. ASSUME InFlight(s)
      PROVE  /\ request[s] \in Request /\ request[s].intent \in Intents
             /\ request[s].t \in 0 .. MaxTime /\ request[s].hash \in Deploys \cup {NoHash}
             /\ Exists(request[s].intent)
             /\ PastGate(request[s]) => Validated(request[s].intent)
    BY <1>7, RequestTypes DEF Request, InFlightExists, GateInv
<1>8. request[s].op # "idle" => InFlight(s)
    BY DEF InFlight, Idle
<1>9. CASE ValidateEnds(s)
    BY <1>7, <1>8, <1>9, RecordForm DEF ValidateEnds
<1>10. CASE MarkBody(s)
    <2>1. InFlight(s) /\ PastGate(request[s])
        BY <1>8, <1>10 DEF MarkBody, Woken, At, PastGate
    <2>2. CASE SettleThenWait(s, request[s].intent, "mark", NoHash,
                              Ledger!Commit(request[s].intent))
        BY <1>1, <1>7, <2>1, <2>2, SettleForm
    <2>3. CASE NothingToSettle(s, request[s].intent) /\ Record(request[s].intent, "EXECUTED", now)
        BY <1>1, <1>7, <2>1, <2>3, RecordForm DEF NothingToSettle
    <2>. QED BY <1>10, <2>2, <2>3 DEF MarkBody
<1>11. CASE MarkEnds(s)
    <2>1. InFlight(s) /\ PastGate(request[s])
        BY <1>8, <1>11 DEF MarkEnds, At, PastGate
    <2>. QED BY <1>7, <1>11, <2>1, RecordForm DEF MarkEnds
<1>12. ASSUME NEW h \in Deploys, ConfirmBody(s, h) PROVE Goal
    <2>1. InFlight(s)
        BY <1>8, <1>12 DEF ConfirmBody, Woken, At
    <2>2. CASE StateOf(request[s].intent) = "POLICY_VALIDATED"
        <3>1. Validated(request[s].intent)
            BY <1>7, <2>1, <2>2 DEF GateInv
        <3>2. /\ Suspend(s, request[s].intent, "confirm", "node", NoTime, h)
              /\ UNCHANGED <<entry, trace>>
            BY <1>12, <2>2 DEF ConfirmBody
        <3>. QED BY <1>1, <1>7, <2>1, <3>1, <3>2, SuspendForm
    <2>3. CASE StateOf(request[s].intent) # "POLICY_VALIDATED"
        BY <1>12, <2>3, AnswerForm DEF ConfirmBody
    <2>. QED BY <2>2, <2>3
<1>13. CASE ConfirmFails(s)
    BY <1>13, AnswerForm DEF ConfirmFails
<1>14. CASE ConfirmFinalized(s)
    <2>1. InFlight(s) /\ PastGate(request[s])
        BY <1>8, <1>14 DEF ConfirmFinalized, Woken, At, PastGate
    <2>2. CASE SettleThenWait(s, request[s].intent, "confirm", request[s].hash,
                              Ledger!Commit(request[s].intent))
        BY <1>7, <2>1, <2>2, SettleForm
    <2>3. CASE NothingToSettle(s, request[s].intent)
               /\ RecordExecution(request[s].intent, request[s].hash, now)
        BY <1>1, <1>7, <2>1, <2>3, RecordExecutionForm DEF NothingToSettle
    <2>. QED BY <1>14, <2>2, <2>3 DEF ConfirmFinalized
<1>15. CASE ConfirmEnds(s)
    <2>1. InFlight(s) /\ PastGate(request[s])
        BY <1>8, <1>15 DEF ConfirmEnds, At, PastGate
    <2>. QED BY <1>7, <1>15, <2>1, RecordExecutionForm DEF ConfirmEnds
<1>16. CASE RejectBody(s)
    <2>1. InFlight(s)
        BY <1>8, <1>16 DEF RejectBody, Woken, At
    <2>2. CASE SettleThenWait(s, request[s].intent, "reject", NoHash,
                              Ledger!Release(request[s].intent))
        BY <1>1, <1>7, <2>1, <2>2, SettleForm
    <2>3. CASE NothingToSettle(s, request[s].intent) /\ Record(request[s].intent, "REJECTED", now)
        BY <1>1, <1>7, <2>1, <2>3, RecordForm DEF NothingToSettle
    <2>. QED BY <1>16, <2>2, <2>3 DEF RejectBody
<1>17. CASE RejectEnds(s)
    BY <1>7, <1>8, <1>17, RecordForm DEF RejectEnds, At
<1>18. CASE BodyRefused(s)
    BY <1>18, AnswerForm DEF BodyRefused
<1>. QED BY <1>2, <1>3, <1>4, <1>5, <1>6, <1>9, <1>10, <1>11, <1>12, <1>13, <1>14, <1>15,
            <1>16, <1>17, <1>18 DEF Handler

-----------------------------------------------------------------------------
(* The ledger's table under the API. *)
LEMMA SettleTypes ==
    ASSUME Ledger!TypeOK, NEW i \in Intents, NEW status \in {"committed", "released"},
           Ledger!Settle(i, status), UNCHANGED now
    PROVE  Ledger!TypeOK'
<1>1. CASE Ledger!IsReserved(i)
    <2>1. rows[i] \in Ledger!Row
        BY <1>1 DEF Ledger!TypeOK, Ledger!IsReserved, Ledger!HasStatus, Ledger!NoRow
    <2>2. [rows[i] EXCEPT !.status = status] \in Ledger!Row
        BY <2>1 DEF Ledger!Row
    <2>. QED BY <1>1, <2>2 DEF Ledger!TypeOK, Ledger!Settle
<1>2. CASE ~ Ledger!IsReserved(i)
    BY <1>2 DEF Ledger!TypeOK, Ledger!Settle
<1>. QED BY <1>1, <1>2

LEMMA ReserveTypes ==
    ASSUME Ledger!TypeOK, NEW i \in Intents, NEW amount \in Amounts,
           Ledger!Reserve(i, Signer, Ledger!DayOf(now), amount), UNCHANGED now
    PROVE  Ledger!TypeOK'
<1>1. now \in Ledger!Time /\ Ledger!DayOf(now) \in Ledger!Days
    BY ApiAssumption DEF ApiAssumption, Ledger!TypeOK, Ledger!Time, Ledger!Days, Ledger!DayOf
<1>2. [status |-> "reserved", signer |-> Signer, day |-> Ledger!DayOf(now),
       amount |-> amount, createdAt |-> now] \in Ledger!Row
    BY <1>1 DEF Ledger!Row
<1>. QED BY <1>2 DEF Ledger!TypeOK, Ledger!Reserve, Ledger!InsertReserved

LEMMA HandlerTables ==
    ASSUME IInv, NEW s \in Slots, Handler(s)
    PROVE  Ledger!TypeOK' /\ UNCHANGED <<chain, now>>
<1> USE DEF IInv, TypeOK
<1> DEFINE Goal == Ledger!TypeOK' /\ UNCHANGED <<chain, now>>
<1>1. ASSUME NEW i \in Intents, ValidateReserves(s, i) PROVE Goal
    <2>1. entry[i].body.amount \in Amounts
        BY <1>1, EntryTypes DEF ValidateReserves, Arrives, Entry, Body
    <2>. QED BY <1>1, <2>1, ReserveTypes DEF ValidateReserves
<1>2. ASSUME MarkBody(s) \/ ConfirmFinalized(s) \/ RejectBody(s) PROVE Goal
    <2>1. request[s].intent \in Intents
        BY <1>2, RequestTypes DEF MarkBody, ConfirmFinalized, RejectBody, Woken, At, InFlight, Idle
    <2>2. CASE UNCHANGED rows
        BY <1>2, <2>2 DEF MarkBody, ConfirmFinalized, RejectBody, Ledger!TypeOK
    <2>3. CASE Ledger!Commit(request[s].intent) \/ Ledger!Release(request[s].intent)
        BY <1>2, <2>1, <2>3, SettleTypes
           DEF MarkBody, ConfirmFinalized, RejectBody, Ledger!Commit, Ledger!Release
    <2>. QED BY <1>2, <2>2, <2>3
             DEF MarkBody, ConfirmFinalized, RejectBody, SettleThenWait, NothingToSettle
<1>3. CASE /\ ~ \E i \in Intents : ValidateReserves(s, i)
           /\ ~ (MarkBody(s) \/ ConfirmFinalized(s) \/ RejectBody(s))
    <2>1. UNCHANGED <<rows, chain, now>>
        BY <1>3 DEF Handler, ValidateDenied, MarkArrives, ConfirmArrives, RejectArrives,
                    ValidateEnds,
                    MarkEnds, ConfirmBody, ConfirmFails, ConfirmEnds, RejectEnds, BodyRefused
    <2>. QED BY <2>1 DEF Ledger!TypeOK
<1>. QED BY <1>1, <1>2, <1>3

-----------------------------------------------------------------------------
(* A step leaves the trace alone or appends one row to one intent's rows.    *)
LEMMA AppendedTrace ==
    ASSUME TypeOK, NEW i \in Intents, NEW state \in States, NEW t \in 0 .. MaxTime,
           trace' = [trace EXCEPT ![i] = Append(@, [state |-> state, at |-> t])],
           ExecutedWasValidated, state = "EXECUTED" => Validated(i)
    PROVE  /\ trace' \in [Intents -> Seq(AuditRow)]
           /\ \A k \in Intents : Validated(k) => Validated(k)'
           /\ state = "POLICY_VALIDATED" => Validated(i)'
           /\ ExecutedWasValidated'
<1> DEFINE row == [state |-> state, at |-> t]
<1>1. row \in AuditRow /\ trace[i] \in Seq(AuditRow)
    BY DEF AuditRow, TypeOK
<1>2. trace'[i] = Append(trace[i], row) /\ \A k \in Intents \ {i} : trace'[k] = trace[k]
    BY DEF TypeOK
<1>3. /\ DOMAIN trace[i] = 1 .. Len(trace[i]) /\ Len(trace[i]) \in Nat
      /\ DOMAIN trace'[i] = 1 .. Len(trace[i]) + 1
      /\ trace'[i][Len(trace[i]) + 1] = row
      /\ \A j \in 1 .. Len(trace[i]) : trace'[i][j] = trace[i][j]
    BY <1>1, <1>2
<1>4. trace' \in [Intents -> Seq(AuditRow)]
    <2>1. trace \in [Intents -> Seq(AuditRow)]
        BY DEF TypeOK, AuditRow
    <2>2. trace' = [trace EXCEPT ![i] = Append(trace[i], row)]
        OBVIOUS
    <2>. HIDE DEF row
    <2>3. Append(trace[i], row) \in Seq(AuditRow)
        BY <1>1
    <2>. QED BY <2>1, <2>2, <2>3, ExceptType
<1>5. \A k \in Intents : Validated(k) => Validated(k)'
    BY <1>2, <1>3 DEF Validated
<1>6. state = "POLICY_VALIDATED" => Validated(i)'
    BY <1>3 DEF Validated
<1>7. ASSUME NEW k \in Intents, NEW n \in DOMAIN trace'[k], trace'[k][n].state = "EXECUTED"
      PROVE  \E j \in 1 .. n - 1 : trace'[k][j].state = "POLICY_VALIDATED"
    <2>1. CASE k # i
        BY <1>2, <1>7, <2>1 DEF ExecutedWasValidated
    <2>2. CASE k = i /\ n \in DOMAIN trace[i]
        BY <1>3, <1>7, <2>2 DEF ExecutedWasValidated
    <2>3. CASE k = i /\ n = Len(trace[i]) + 1
        BY <1>3, <1>7, <2>3 DEF Validated
    <2>. QED BY <1>3, <2>1, <2>2, <2>3
<1>. QED BY <1>4, <1>5, <1>6, <1>7 DEF ExecutedWasValidated

LEMMA InvInit == Init => IInv
<1> SUFFICES ASSUME Init PROVE IInv
    OBVIOUS
<1>1. Ledger!TypeOK
    BY ApiAssumption DEF ApiAssumption, Init, Ledger!TypeOK, Ledger!Time
<1>2. TypeOK
    <2>1. trace \in [Intents -> Seq([state : States, at : 0 .. MaxTime])]
        BY DEF Init
    <2>2. entry \in [Intents -> {Absent} \cup Entry]
        BY DEF Init
    <2>3. request \in [Slots -> {Idle} \cup Request]
        BY DEF Init
    <2>4. chain \in [Deploys -> {"pending", "success", "reverted"}]
        BY DEF Init
    <2>. QED BY <1>1, <2>1, <2>2, <2>3, <2>4 DEF TypeOK, Entry, Request
<1>3. InFlightExists
    BY DEF Init, InFlightExists, InFlight
<1>4. GateInv
    BY DEF Init, GateInv, InFlight, Exists
<1>5. ExecutedWasValidated
    BY DEF Init, ExecutedWasValidated
<1>. QED BY <1>2, <1>3, <1>4, <1>5 DEF IInv

(* The environment's steps touch neither the map, the trace nor a request.   *)
LEMMA FrameStep ==
    ASSUME IInv, UNCHANGED <<entry, trace, request>>, Ledger!TypeOK',
           chain' \in [Deploys -> {"pending", "success", "reverted"}]
    PROVE  IInv'
<1>1. TypeOK'
    BY DEF IInv, TypeOK
<1>2. InFlightExists'
    BY DEF IInv, InFlightExists, InFlight, Exists
<1>3. GateInv'
    BY DEF IInv, GateInv, InFlight, Exists, StateOf, Validated, PastGate
<1>4. ExecutedWasValidated'
    BY DEF IInv, ExecutedWasValidated
<1>. QED BY <1>1, <1>2, <1>3, <1>4 DEF IInv

LEMMA WaitsStep ==
    ASSUME IInv, NEW s \in Slots, Waits(s), Ledger!TypeOK', UNCHANGED chain PROVE IInv'
<1>1. PICK r \in Request \cup {Idle} :
        /\ request' = [request EXCEPT ![s] = r]
        /\ r # Idle => Exists(r.intent) /\ (PastGate(r) => Validated(r.intent))
    BY DEF Waits
<1>2. TypeOK'
    BY <1>1 DEF Waits, Request, IInv, TypeOK
<1>3. request'[s] = r /\ \A q \in Slots \ {s} : request'[q] = request[q]
    BY <1>1 DEF IInv, TypeOK
<1>4. /\ \A q \in Slots : InFlight(q) => Exists(request[q].intent)
      /\ \A q \in Slots : InFlight(q) /\ PastGate(request[q]) => Validated(request[q].intent)
    BY DEF IInv, InFlightExists, GateInv
<1>5. entry' = entry /\ trace' = trace
    BY DEF Waits
<1>6. InFlightExists'
    BY <1>1, <1>3, <1>4, <1>5 DEF InFlightExists, InFlight, Exists
<1>7. GateInv'
    <2>1. \A q \in Slots :
            InFlight(q)' /\ PastGate(request[q])' => Validated(request[q].intent)'
        <3> SUFFICES ASSUME NEW q \in Slots, InFlight(q)', PastGate(request[q])'
                     PROVE  Validated(request[q].intent)'
            OBVIOUS
        <3>1. CASE q = s
            BY <1>1, <1>3, <1>5, <3>1 DEF InFlight, PastGate, Validated
        <3>2. CASE q # s
            BY <1>3, <1>4, <1>5, <3>2 DEF InFlight, PastGate, Validated
        <3>. QED BY <3>1, <3>2
    <2>2. \A i \in Intents :
            (Exists(i) /\ StateOf(i) \in {"POLICY_VALIDATED", "ACCEPTED_BY_NODE", "EXECUTED"}
                => Validated(i))'
        BY <1>5 DEF IInv, GateInv, Exists, StateOf, Validated
    <2>. QED BY <2>1, <2>2 DEF GateInv
<1>8. ExecutedWasValidated'
    BY <1>5 DEF IInv, ExecutedWasValidated
<1>. QED BY <1>2, <1>6, <1>7, <1>8 DEF IInv

(* An entry is written and its audit row appended.                           *)
LEMMA WriteTypes ==
    ASSUME TypeOK, NEW i \in Intents, NEW e \in Entry, NEW s \in Slots,
           entry' = [entry EXCEPT ![i] = e], trace' \in [Intents -> Seq(AuditRow)],
           request' = [request EXCEPT ![s] = Idle] \/ UNCHANGED request,
           Ledger!TypeOK', UNCHANGED chain
    PROVE  TypeOK'
<1>1. entry' \in [Intents -> {Absent} \cup Entry]
    BY DEF TypeOK, Entry
<1>2. request' \in [Slots -> {Idle} \cup Request]
    BY DEF TypeOK, Request
<1>3. chain' \in [Deploys -> {"pending", "success", "reverted"}]
    BY DEF TypeOK
<1>. QED BY <1>1, <1>2, <1>3 DEF TypeOK, Entry, Request, AuditRow

LEMMA RecordsStep ==
    ASSUME IInv, NEW s \in Slots, Records(s), Ledger!TypeOK', UNCHANGED chain PROVE IInv'
<1>1. PICK i \in Intents, e \in Entry, t \in 0 .. MaxTime :
        /\ Exists(i)
        /\ e.state \in {"POLICY_VALIDATED", "REJECTED", "EXECUTED"}
        /\ e.state = "EXECUTED" => Validated(i)
        /\ entry' = [entry EXCEPT ![i] = e]
        /\ trace' = [trace EXCEPT ![i] = Append(@, [state |-> e.state, at |-> t])]
        /\ request' = [request EXCEPT ![s] = Idle] \/ UNCHANGED request
    BY DEF Records
<1>2. e.state \in States
    BY DEF Entry
<1>3. /\ trace' \in [Intents -> Seq(AuditRow)]
      /\ \A k \in Intents : Validated(k) => Validated(k)'
      /\ e.state = "POLICY_VALIDATED" => Validated(i)'
      /\ ExecutedWasValidated'
    BY <1>1, <1>2, AppendedTrace DEF IInv
<1>4. \A q \in Slots : request'[q] \in {request[q], Idle}
    BY <1>1 DEF IInv, TypeOK
<1>5. TypeOK'
    BY <1>1, <1>3, WriteTypes DEF IInv
<1>6. entry'[i] = e /\ e # Absent /\ \A k \in Intents \ {i} : entry'[k] = entry[k]
    BY <1>1 DEF Absent, IInv, TypeOK
<1>7. \A q \in Slots : InFlight(q) => request[q].intent \in Intents
    BY RequestTypes DEF IInv
<1>8. InFlightExists'
    BY <1>4, <1>6, <1>7 DEF IInv, InFlightExists, InFlight, Exists
<1>9. GateInv'
    <2>1. \A q \in Slots :
            InFlight(q)' /\ PastGate(request[q])' => Validated(request[q].intent)'
        <3> SUFFICES ASSUME NEW q \in Slots, InFlight(q)', PastGate(request[q])'
                     PROVE  Validated(request[q].intent)'
            OBVIOUS
        <3>1. request'[q] = request[q] /\ InFlight(q)
            BY <1>4 DEF InFlight
        <3>2. request[q].intent \in Intents /\ PastGate(request[q])
            BY <1>7, <3>1 DEF PastGate
        <3>3. Validated(request[q].intent)
            BY <3>1, <3>2 DEF IInv, GateInv
        <3>4. \A k \in Intents : Validated(k) => \E j \in DOMAIN trace'[k] :
                    trace'[k][j].state = "POLICY_VALIDATED"
            BY <1>3 DEF Validated
        <3>. QED BY <3>1, <3>2, <3>3, <3>4 DEF Validated
    <2>2. ASSUME NEW k \in Intents, Exists(k)',
                 StateOf(k)' \in {"POLICY_VALIDATED", "ACCEPTED_BY_NODE", "EXECUTED"}
          PROVE  Validated(k)'
        <3>1. CASE k = i
            <4>1. e.state \in {"POLICY_VALIDATED", "EXECUTED"}
                BY <1>1, <1>6, <2>2, <3>1 DEF StateOf
            <4>. QED BY <1>1, <1>3, <3>1, <4>1
        <3>2. CASE k # i
            <4>1. Exists(k) /\ StateOf(k) \in {"POLICY_VALIDATED", "ACCEPTED_BY_NODE", "EXECUTED"}
                BY <1>6, <2>2, <3>2 DEF Exists, StateOf
            <4>. QED BY <1>3, <4>1 DEF IInv, GateInv
        <3>. QED BY <3>1, <3>2
    <2>. QED BY <2>1, <2>2 DEF GateInv
<1>. QED BY <1>3, <1>5, <1>8, <1>9 DEF IInv

LEMMA CreateStep ==
    ASSUME IInv, NEW i \in Intents, NEW body \in Body, Create(i, body) PROVE IInv'
<1> DEFINE row == [state |-> "DRAFT", at |-> now]
           e == [state |-> "DRAFT", body |-> body, hash |-> NoHash]
<1>1. /\ ~ Exists(i) /\ trace[i] = <<>> /\ UNCHANGED <<rows, request, chain, now>>
      /\ entry' = [entry EXCEPT ![i] = e] /\ trace' = [trace EXCEPT ![i] = <<row>>]
    BY DEF Create
<1>2. row \in AuditRow /\ e \in Entry /\ e # Absent
    BY NowTypes DEF IInv, AuditRow, Entry, Absent, States
<1>3. trace' \in [Intents -> Seq(AuditRow)]
    <2>1. trace \in [Intents -> Seq(AuditRow)]
        BY DEF IInv, TypeOK, AuditRow
    <2>2. trace' = [trace EXCEPT ![i] = <<row>>]
        BY <1>1
    <2>. HIDE DEF row
    <2>3. <<row>> \in Seq(AuditRow)
        BY <1>2
    <2>. QED BY <2>1, <2>2, <2>3, ExceptType
<1>4. Ledger!TypeOK'
    BY <1>1 DEF IInv, TypeOK, Ledger!TypeOK
<1>5. entry' \in [Intents -> {Absent} \cup Entry]
    BY <1>1, <1>2 DEF IInv, TypeOK, Entry
<1>6. TypeOK'
    BY <1>1, <1>3, <1>4, <1>5 DEF IInv, TypeOK, Entry, AuditRow
<1>7. /\ entry'[i] = e /\ \A k \in Intents \ {i} : entry'[k] = entry[k]
      /\ trace'[i] = <<row>> /\ \A k \in Intents \ {i} : trace'[k] = trace[k]
    BY <1>1 DEF IInv, TypeOK
<1>8. \A q \in Slots : InFlight(q) => request[q].intent \in Intents /\ request[q].intent # i
    BY <1>1, RequestTypes DEF IInv, InFlightExists
<1>9. InFlightExists'
    BY <1>1, <1>7, <1>8 DEF IInv, InFlightExists, InFlight, Exists
<1>10. GateInv'
    <2>1. \A q \in Slots :
            InFlight(q)' /\ PastGate(request[q])' => Validated(request[q].intent)'
        <3> SUFFICES ASSUME NEW q \in Slots, InFlight(q)', PastGate(request[q])'
                     PROVE  Validated(request[q].intent)'
            OBVIOUS
        <3>1. InFlight(q) /\ PastGate(request[q]) /\ request'[q] = request[q]
            BY <1>1 DEF InFlight, PastGate
        <3>2. Validated(request[q].intent)
            BY <3>1 DEF IInv, GateInv
        <3>. QED BY <1>7, <1>8, <3>1, <3>2 DEF Validated
    <2>2. ASSUME NEW k \in Intents, Exists(k)',
                 StateOf(k)' \in {"POLICY_VALIDATED", "ACCEPTED_BY_NODE", "EXECUTED"}
          PROVE  Validated(k)'
        <3>1. k # i
            BY <1>7, <2>2 DEF StateOf
        <3>2. entry'[k] = entry[k] /\ trace'[k] = trace[k]
            BY <1>7, <3>1
        <3>. QED BY <2>2, <3>2 DEF IInv, GateInv, Exists, StateOf, Validated
    <2>. QED BY <2>1, <2>2 DEF GateInv
<1>11. ExecutedWasValidated'
    <2> SUFFICES ASSUME NEW k \in Intents, NEW n \in DOMAIN trace'[k],
                        trace'[k][n].state = "EXECUTED"
                 PROVE  \E j \in 1 .. n - 1 : trace'[k][j].state = "POLICY_VALIDATED"
        BY DEF ExecutedWasValidated
    <2>1. k # i
        BY <1>7
    <2>. QED BY <1>7, <2>1 DEF IInv, ExecutedWasValidated
<1>. QED BY <1>6, <1>9, <1>10, <1>11 DEF IInv

LEMMA RestartStep == ASSUME IInv, Restart PROVE IInv'
<1>1. TypeOK'
    <2>1. entry' \in [Intents -> {Absent} \cup Entry] /\ request' \in [Slots -> {Idle} \cup Request]
        BY DEF Restart
    <2>2. Ledger!TypeOK'
        BY DEF Restart, IInv, TypeOK, Ledger!TypeOK
    <2>. QED BY <2>1, <2>2 DEF Restart, IInv, TypeOK, Entry, Request
<1>2. InFlightExists'
    BY DEF Restart, InFlightExists, InFlight
<1>3. GateInv'
    BY DEF Restart, GateInv, InFlight, Exists
<1>4. ExecutedWasValidated'
    BY DEF Restart, IInv, ExecutedWasValidated
<1>. QED BY <1>1, <1>2, <1>3, <1>4 DEF IInv

LEMMA InvStep == IInv /\ [Next]_vars => IInv'
<1> SUFFICES ASSUME IInv, [Next]_vars PROVE IInv'
    OBVIOUS
<1>1. ASSUME NEW s \in Slots, Handler(s) PROVE IInv'
    BY <1>1, HandlerForms, HandlerTables, WaitsStep, RecordsStep
<1>2. ASSUME NEW i \in Intents, NEW body \in Body, Create(i, body) PROVE IInv'
    BY <1>2, CreateStep
<1>3. CASE Restart
    BY <1>3, RestartStep
<1>4. ASSUME NEW h \in Deploys, ChainDecides(h) PROVE IInv'
    <2>1. Ledger!TypeOK' /\ chain' \in [Deploys -> {"pending", "success", "reverted"}]
        BY <1>4 DEF ChainDecides, IInv, TypeOK, Ledger!TypeOK
    <2>. QED BY <1>4, <2>1, FrameStep DEF ChainDecides
<1>5. CASE Tick
    <2>1. Ledger!TypeOK' /\ chain' \in [Deploys -> {"pending", "success", "reverted"}]
        BY <1>5, ApiAssumption DEF ApiAssumption, Tick, IInv, TypeOK, Ledger!TypeOK, Ledger!Time
    <2>. QED BY <1>5, <2>1, FrameStep DEF Tick
<1>6. CASE UNCHANGED vars
    <2>1. Ledger!TypeOK' /\ chain' \in [Deploys -> {"pending", "success", "reverted"}]
        BY <1>6 DEF vars, IInv, TypeOK, Ledger!TypeOK
    <2>. QED BY <1>6, <2>1, FrameStep DEF vars
<1>. QED BY <1>1, <1>2, <1>3, <1>4, <1>5, <1>6 DEF Next

(* The map, the tables and the requests in flight stay well formed. *)
THEOREM TypeCorrect == Spec => []TypeOK
<1>1. IInv => TypeOK
    BY DEF IInv
<1>. QED BY <1>1, InvInit, InvStep, PTL DEF Spec

(* No race, no repeated request and no restart gets an execution on record   *)
(* that the policy check did not precede.                                    *)
THEOREM NoExecutionSkipsTheGate == Spec => []ExecutedWasValidated
<1>1. IInv => ExecutedWasValidated
    BY DEF IInv
<1>. QED BY <1>1, InvInit, InvStep, PTL DEF Spec

-----------------------------------------------------------------------------
(* What is behind a committed row: its execution is on record, or a request  *)
(* that made the commit is about to record it.  An intent in the map and an  *)
(* intent with a row have a trace, so a fresh id has no row.                 *)
Committing(s, i) ==
    /\ request[s].op \in {"mark", "confirm"} /\ request[s].pc = "settled"
    /\ request[s].intent = i

Committed(i) == Ledger!HasStatus(i, {"committed"})

CommitInv ==
    \A i \in Intents :
        /\ Exists(i) \/ rows[i] # Ledger!NoRow => trace[i] # <<>>
        /\ Committed(i) /\ Exists(i) => Executed(i) \/ \E s \in Slots : Committing(s, i)

(* A handler's effect on what CommitInv reads.                               *)
LEMMA SettleEffect ==
    ASSUME Ledger!TypeOK, NEW i \in Intents, NEW status, Ledger!Settle(i, status)
    PROVE  /\ \A k \in Intents : rows'[k] # Ledger!NoRow => rows[k] # Ledger!NoRow
           /\ \A k \in Intents : k # i \/ status # "committed" =>
                (Committed(k)' => Committed(k))
<1>1. CASE Ledger!IsReserved(i)
    <2>1. rows'[i] = [rows[i] EXCEPT !.status = status] /\ rows[i] # Ledger!NoRow
        BY <1>1 DEF Ledger!Settle, Ledger!TypeOK, Ledger!IsReserved, Ledger!HasStatus, Ledger!NoRow
    <2>2. \A k \in Intents \ {i} : rows'[k] = rows[k]
        BY <1>1 DEF Ledger!Settle, Ledger!TypeOK
    <2>3. rows[i] \in Ledger!Row
        BY <2>1 DEF Ledger!TypeOK
    <2>4. rows'[i].status = status
        BY <2>1, <2>3 DEF Ledger!Row
    <2>. QED BY <2>1, <2>2, <2>4 DEF Committed, Ledger!HasStatus
<1>2. CASE ~ Ledger!IsReserved(i)
    BY <1>2 DEF Ledger!Settle, Committed, Ledger!HasStatus
<1>. QED BY <1>1, <1>2

LEMMA ReserveEffect ==
    ASSUME Ledger!TypeOK, NEW i \in Intents, NEW day, NEW amount,
           Ledger!Reserve(i, Signer, day, amount)
    PROVE  \A k \in Intents :
            /\ k # i => (rows'[k] # Ledger!NoRow => rows[k] # Ledger!NoRow)
            /\ Committed(k)' => Committed(k)
BY DEF Ledger!TypeOK, Ledger!Reserve, Ledger!InsertReserved, Committed, Ledger!HasStatus

LEMMA RowsEffect ==
    ASSUME IInv, NEW s \in Slots, Handler(s), NEW i \in Intents
    PROVE  /\ rows'[i] # Ledger!NoRow => rows[i] # Ledger!NoRow \/ Exists(i)
           /\ Committed(i)' => Committed(i) \/ Committing(s, i)'
<1> USE DEF IInv, TypeOK
<1> DEFINE Goal == /\ rows'[i] # Ledger!NoRow => rows[i] # Ledger!NoRow \/ Exists(i)
                   /\ Committed(i)' => Committed(i) \/ Committing(s, i)'
<1>1. ASSUME NEW k \in Intents, ValidateReserves(s, k) PROVE Goal
    BY <1>1, ReserveEffect DEF ValidateReserves, Arrives
<1>2. CASE UNCHANGED rows
    BY <1>2 DEF Committed, Ledger!HasStatus
<1>3. ASSUME NEW k \in Intents, NEW hash, NEW op \in {"mark", "confirm"},
             SettleThenWait(s, k, op, hash, Ledger!Commit(k))
      PROVE  Goal
    <2>1. request'[s] = [op |-> op, pc |-> "settled", intent |-> k, t |-> now, hash |-> hash]
        BY <1>3 DEF SettleThenWait, Suspend
    <2>2. Committing(s, k)'
        BY <2>1 DEF Committing
    <2>. QED BY <1>3, <2>2, SettleEffect DEF SettleThenWait, Ledger!Commit
<1>4. ASSUME NEW k \in Intents, SettleThenWait(s, k, "reject", NoHash, Ledger!Release(k))
      PROVE  Goal
    BY <1>4, SettleEffect DEF SettleThenWait, Ledger!Release
<1>5. CASE MarkBody(s) \/ ConfirmFinalized(s) \/ RejectBody(s)
    <2>1. request[s].intent \in Intents
        BY <1>5, RequestTypes DEF MarkBody, ConfirmFinalized, RejectBody, Woken, At, InFlight, Idle
    <2>. QED BY <1>2, <1>3, <1>4, <1>5, <2>1
             DEF MarkBody, ConfirmFinalized, RejectBody, NothingToSettle
<1>6. CASE ~ (MarkBody(s) \/ ConfirmFinalized(s) \/ RejectBody(s))
    BY <1>1, <1>2, <1>6
       DEF Handler, ValidateDenied, MarkArrives, ConfirmArrives, RejectArrives,
           ValidateEnds, MarkEnds, ConfirmBody, ConfirmFails, ConfirmEnds, RejectEnds, BodyRefused
<1>. QED BY <1>5, <1>6

(* An appended row takes nothing from what the trace shows.                  *)
LEMMA TraceEffect ==
    ASSUME TypeOK, NEW s \in Slots, Waits(s) \/ Records(s), NEW i \in Intents
    PROVE  /\ Exists(i)' => Exists(i)
           /\ trace[i] # <<>> => trace'[i] # <<>>
           /\ Executed(i) => Executed(i)'
<1>1. CASE Waits(s)
    BY <1>1 DEF Waits, Exists, Executed
<1>2. CASE Records(s)
    <2>1. PICK k \in Intents, e \in Entry, t \in 0 .. MaxTime :
            /\ Exists(k)
            /\ entry' = [entry EXCEPT ![k] = e]
            /\ trace' = [trace EXCEPT ![k] = Append(@, [state |-> e.state, at |-> t])]
        BY <1>2 DEF Records
    <2>2. Exists(i)' => Exists(i)
        BY <2>1 DEF Exists, TypeOK
    <2>3. CASE i # k
        BY <2>1, <2>2, <2>3 DEF TypeOK, Executed
    <2>4. CASE i = k
        <3> DEFINE row == [state |-> e.state, at |-> t]
        <3>1. row \in AuditRow /\ trace[i] \in Seq(AuditRow)
            BY DEF TypeOK, AuditRow, Entry
        <3>2. trace'[i] = Append(trace[i], row)
            BY <2>1, <2>4 DEF TypeOK
        <3>. HIDE DEF row
        <3>3. /\ DOMAIN trace[i] \subseteq DOMAIN trace'[i]
              /\ \A j \in DOMAIN trace[i] : trace'[i][j] = trace[i][j]
              /\ trace'[i] # <<>>
            BY <3>1, <3>2
        <3>. QED BY <2>2, <3>3 DEF Executed
    <2>. QED BY <2>3, <2>4
<1>. QED BY <1>1, <1>2

(* The request that made a commit ends by recording the execution.           *)
LEMMA ExecutionRecorded ==
    ASSUME TypeOK, NEW i \in Intents, NEW t \in 0 .. MaxTime,
           trace' = [trace EXCEPT ![i] = Append(@, [state |-> "EXECUTED", at |-> t])]
    PROVE  Executed(i)'
<1> DEFINE row == [state |-> "EXECUTED", at |-> t]
<1>1. row \in AuditRow /\ trace[i] \in Seq(AuditRow) /\ row.state = "EXECUTED"
    BY DEF TypeOK, AuditRow, States
<1>2. trace'[i] = Append(trace[i], row)
    BY DEF TypeOK
<1>. HIDE DEF row
<1>3. Len(trace[i]) + 1 \in DOMAIN trace'[i] /\ trace'[i][Len(trace[i]) + 1] = row
    BY <1>1, <1>2
<1>. QED BY <1>1, <1>3 DEF Executed

LEMMA CommittingEnds ==
    ASSUME IInv, NEW s \in Slots, Handler(s), NEW i \in Intents, Committing(s, i)
    PROVE  Executed(i)'
<1>1. InFlight(s) /\ request[s] # Idle
    BY DEF Committing, InFlight, Idle
<1>2. request[s].t \in 0 .. MaxTime
    BY <1>1, RequestTypes DEF IInv, Request
<1>3. MarkEnds(s) \/ ConfirmEnds(s)
    BY <1>1 DEF Committing, Handler, ValidateDenied, ValidateReserves, MarkArrives,
                ConfirmArrives, RejectArrives, Arrives, ValidateEnds, MarkBody, ConfirmBody,
                ConfirmFails, ConfirmFinalized, RejectBody, RejectEnds, BodyRefused, Woken, At
<1>. QED BY <1>2, <1>3, ExecutionRecorded
         DEF MarkEnds, ConfirmEnds, Record, RecordExecution, Committing, IInv

LEMMA HandlerCommits ==
    ASSUME IInv, CommitInv, NEW s \in Slots, Handler(s) PROVE CommitInv'
<1>1. Waits(s) \/ Records(s)
    BY HandlerForms
<1>2. \A q \in Slots \ {s} : request'[q] = request[q]
    BY <1>1 DEF Waits, Records, IInv, TypeOK
<1> SUFFICES ASSUME NEW i \in Intents
             PROVE  /\ (Exists(i) \/ rows[i] # Ledger!NoRow => trace[i] # <<>>)'
                    /\ (Committed(i) /\ Exists(i)
                            => Executed(i) \/ \E q \in Slots : Committing(q, i))'
    BY DEF CommitInv
<1>3. /\ Exists(i)' => Exists(i)
      /\ trace[i] # <<>> => trace'[i] # <<>>
      /\ Executed(i) => Executed(i)'
    BY <1>1, TraceEffect DEF IInv
<1>4. /\ rows'[i] # Ledger!NoRow => rows[i] # Ledger!NoRow \/ Exists(i)
      /\ Committed(i)' => Committed(i) \/ Committing(s, i)'
    BY RowsEffect
<1>5. (Exists(i) \/ rows[i] # Ledger!NoRow => trace[i] # <<>>)'
    BY <1>3, <1>4 DEF CommitInv
<1>6. ASSUME Committed(i)', Exists(i)'
      PROVE  Executed(i)' \/ \E q \in Slots : Committing(q, i)'
    <2>1. CASE Committing(s, i)'
        BY <2>1
    <2>2. CASE Committed(i)
        <3>1. CASE Executed(i)
            BY <1>3, <3>1
        <3>2. CASE \E q \in Slots : Committing(q, i)
            <4>1. PICK q \in Slots : Committing(q, i)
                BY <3>2
            <4>2. CASE q = s
                BY <4>1, <4>2, CommittingEnds
            <4>3. CASE q # s
                BY <1>2, <4>1, <4>3 DEF Committing
            <4>. QED BY <4>2, <4>3
        <3>. QED BY <1>3, <1>6, <2>2, <3>1, <3>2 DEF CommitInv
    <2>. QED BY <1>4, <1>6, <2>1, <2>2
<1>. QED BY <1>5, <1>6

LEMMA CommitInit == Init => CommitInv
BY DEF Init, CommitInv, Exists, Committed, Ledger!HasStatus, Ledger!NoRow

LEMMA CommitStep == IInv /\ CommitInv /\ [Next]_vars => CommitInv'
<1> SUFFICES ASSUME IInv, CommitInv, [Next]_vars PROVE CommitInv'
    OBVIOUS
<1>1. ASSUME NEW s \in Slots, Handler(s) PROVE CommitInv'
    BY <1>1, HandlerCommits
<1>2. ASSUME NEW i \in Intents, NEW body \in Body, Create(i, body) PROVE CommitInv'
    <2>1. /\ trace[i] = <<>> /\ UNCHANGED <<rows, request>>
          /\ trace' = [trace EXCEPT ![i] = <<[state |-> "DRAFT", at |-> now]>>]
          /\ \A k \in Intents \ {i} : entry'[k] = entry[k] /\ trace'[k] = trace[k]
        BY <1>2 DEF Create, IInv, TypeOK
    <2>2. trace'[i] # <<>>
        BY <2>1 DEF IInv, TypeOK
    <2>3. ~ Committed(i)'
        BY <2>1 DEF CommitInv, Committed, Ledger!HasStatus, Ledger!NoRow
    <2> SUFFICES ASSUME NEW k \in Intents
                 PROVE  /\ (Exists(k) \/ rows[k] # Ledger!NoRow => trace[k] # <<>>)'
                        /\ (Committed(k) /\ Exists(k)
                                => Executed(k) \/ \E q \in Slots : Committing(q, k))'
        BY DEF CommitInv
    <2>4. CASE k = i
        BY <2>2, <2>3, <2>4
    <2>5. CASE k # i
        BY <2>1, <2>5
           DEF CommitInv, Exists, Committed, Committing, Executed, Ledger!HasStatus
    <2>. QED BY <2>4, <2>5
<1>3. CASE Restart
    BY <1>3 DEF Restart, CommitInv, Exists
<1>4. CASE UNCHANGED <<entry, rows, trace, request>>
    BY <1>4 DEF CommitInv, Exists, Committed, Committing, Executed, Ledger!HasStatus
<1>. QED BY <1>1, <1>2, <1>3, <1>4 DEF Next, ChainDecides, Tick, vars

(* Budget is committed only behind an execution on record, or one a request  *)
(* in flight is about to record, or one whose intent a restart forgot.       *)
THEOREM CommitIsForAnExecution == Spec => []CommittedForExecution
<1>1. CommitInv => CommittedForExecution
    BY DEF CommitInv, CommittedForExecution, Committed, Committing
<1>. QED BY <1>1, InvInit, InvStep, CommitInit, CommitStep, PTL DEF Spec
-----------------------------------------------------------------------------
(* What follows holds of clients that wait for an answer before their next   *)
(* request about an intent (OneRequestPerIntent): racing requests do record  *)
(* two executions or release executed budget.  Then an intent's row, state   *)
(* and trace are tied together by where the one request that may be underway *)
(* stands.                                                                   *)

(* The requests in flight for an intent. *)
Serving(i) == {s \in Slots : InFlight(s) /\ request[s].intent = i}

(* A request that has written the ledger, or tried to, and not yet the trace. *)
Settling(r) == r.op = "validate" \/ r.pc = "settled"

(* The state and the row's status of an intent that no request has settled.  *)
Agrees(state, status) ==
    \/ state = "DRAFT" /\ status = "none"
    \/ state = "POLICY_VALIDATED" /\ status = "reserved"
    \/ state = "EXECUTED" /\ status = "committed"
    \/ state = "REJECTED" /\ status # "reserved"

(* A request before it writes the ledger, and after.  *)
BeforeLedger(r, state, status) ==
    /\ Agrees(state, status)
    /\ \/ r.op = "confirm" /\ r.pc = "body"
       \/ r.op = "confirm" /\ r.pc = "node" /\ state = "POLICY_VALIDATED"
       \/ r.op = "mark" /\ r.pc = "body" /\ state = "POLICY_VALIDATED"
       \/ r.op = "reject" /\ r.pc = "body" /\ state # "REJECTED"

AfterLedger(r, state, status) ==
    \/ r.op = "validate" /\ state = "DRAFT"
        /\ status = IF r.pc = "ok" THEN "reserved" ELSE "none"
    \/ r.op \in {"mark", "confirm"} /\ r.pc = "settled"
        /\ state = "POLICY_VALIDATED" /\ status = "committed"
    \/ r.op = "reject" /\ r.pc = "settled"
        /\ state = "POLICY_VALIDATED" /\ status = "released"

Underway(r, state, status) ==
    \/ BeforeLedger(r, state, status) /\ ~ Settling(r)
    \/ AfterLedger(r, state, status) /\ Settling(r)

(* The row agrees with the state, but for what a request underway has done.  *)
RowFollows(i) ==
    /\ \A s, t \in Serving(i) : s = t
    /\ Exists(i) /\ Serving(i) = {} => Agrees(StateOf(i), rows[i].status)
    /\ \A s \in Serving(i) : Underway(request[s], StateOf(i), rows[i].status)

(* The trace ends in the state, and has one execution at most, of committed  *)
(* budget.                                                                   *)
TraceFollows(i) ==
    /\ Exists(i) => trace[i] # <<>> /\ trace[i][Len(trace[i])].state = StateOf(i)
    /\ Executed(i) => rows[i].status = "committed"
    /\ Executed(i) /\ Exists(i) => StateOf(i) \in {"EXECUTED", "REJECTED"}
    /\ \A j, k \in DOMAIN trace[i] :
        trace[i][j].state = "EXECUTED" /\ trace[i][k].state = "EXECUTED" => j = k

(* Its rows are in the order of their times, none later than the clock or    *)
(* than the time a request underway has read.                                *)
TimesFollow(i) ==
    /\ \A j, k \in DOMAIN trace[i] : j <= k => trace[i][j].at <= trace[i][k].at
    /\ \A k \in DOMAIN trace[i] : trace[i][k].at <= now
    /\ \A s \in Serving(i) : Settling(request[s]) =>
        /\ request[s].t <= now
        /\ \A k \in DOMAIN trace[i] : trace[i][k].at <= request[s].t

Follows(i) == RowFollows(i) /\ TraceFollows(i) /\ TimesFollow(i)

WaitingInv == \A i \in Intents : Follows(i)

(* A handler's step is about one intent and its own slot. *)
Touches(s, i) ==
    /\ \A k \in Intents \ {i} :
        entry'[k] = entry[k] /\ rows'[k] = rows[k] /\ trace'[k] = trace[k]
    /\ \A q \in Slots \ {s} : request'[q] = request[q]
    /\ InFlight(s) => request[s].intent = i
    /\ InFlight(s)' => request'[s].intent = i
    /\ now' = now

LEMMA OthersFollow ==
    ASSUME NEW s \in Slots, NEW i \in Intents, Touches(s, i),
           NEW k \in Intents, k # i, Follows(k)
    PROVE  Follows(k)'
<1>1. entry'[k] = entry[k] /\ rows'[k] = rows[k] /\ trace'[k] = trace[k] /\ now' = now
    BY DEF Touches
<1>2. /\ \A q \in Slots : q \in Serving(k)' <=> q \in Serving(k)
      /\ \A q \in Serving(k) : request'[q] = request[q]
    BY DEF Touches, Serving, InFlight
<1>3. Serving(k)' = Serving(k)
    BY <1>2 DEF Serving
<1>4. RowFollows(k)'
    BY <1>1, <1>2, <1>3 DEF Follows, RowFollows, Exists, StateOf
<1>5. TraceFollows(k)'
    BY <1>1 DEF Follows, TraceFollows, Exists, StateOf, Executed
<1>6. TimesFollow(k)'
    BY <1>1, <1>2, <1>3 DEF Follows, TimesFollow
<1>. QED BY <1>4, <1>5, <1>6 DEF Follows

(* The three things a handler's step may do with its intent. *)
Suspends(s, i) ==
    /\ Exists(i) /\ InFlight(s)'
    /\ entry'[i] = entry[i] /\ trace'[i] = trace[i]
    /\ Underway(request'[s], StateOf(i), rows'[i].status)
    /\ Settling(request'[s]) => request'[s].t = now
    /\ Executed(i) => rows'[i].status = "committed"

Ends(s, i) ==
    /\ ~ InFlight(s)'
    /\ entry'[i] = entry[i] /\ trace'[i] = trace[i] /\ rows'[i] = rows[i]
    /\ Agrees(StateOf(i), rows[i].status)

Completes(s, i) ==
    /\ ~ InFlight(s)' /\ Exists(i)
    /\ StateOf(i) \notin Terminal
    /\ rows'[i] = rows[i]
    /\ \E e \in Entry, t \in 0 .. MaxTime :
        /\ entry'[i] = e
        /\ trace'[i] = Append(trace[i], [state |-> e.state, at |-> t])
        /\ Agrees(e.state, rows[i].status)
        /\ e.state = "EXECUTED" => ~ Executed(i)
        /\ Executed(i) => e.state \in {"EXECUTED", "REJECTED"}
        /\ t <= now
        /\ \A k \in DOMAIN trace[i] : trace[i][k].at <= t

Moves(s, i) ==
    /\ Touches(s, i)
    /\ Serving(i) \subseteq {s}
    /\ Suspends(s, i) \/ Ends(s, i) \/ Completes(s, i)

LEMMA ServingAfter ==
    ASSUME NEW s \in Slots, NEW i \in Intents, Touches(s, i), Serving(i) \subseteq {s}
    PROVE  /\ InFlight(s)' => Serving(i)' = {s}
           /\ ~ InFlight(s)' => Serving(i)' = {}
<1>1. \A q \in Slots : q # s => q \notin Serving(i)'
    BY DEF Touches, Serving, InFlight
<1>2. InFlight(s)' <=> s \in Serving(i)'
    BY DEF Touches, Serving
<1>3. Serving(i)' \subseteq Slots
    BY DEF Serving
<1>. QED BY <1>1, <1>2, <1>3

LEMMA SuspendsFollow ==
    ASSUME TypeOK, NEW s \in Slots, NEW i \in Intents, Follows(i),
           Touches(s, i), Serving(i) \subseteq {s}, Suspends(s, i)
    PROVE  Follows(i)'
<1>1. Serving(i)' = {s}
    BY ServingAfter DEF Suspends
<1>2. entry'[i] = entry[i] /\ trace'[i] = trace[i] /\ now' = now /\ Exists(i)
    BY DEF Suspends, Touches
<1>3. RowFollows(i)'
    BY <1>1, <1>2 DEF Suspends, RowFollows, StateOf
<1>4. TraceFollows(i)'
    BY <1>2 DEF Suspends, Follows, TraceFollows, Executed, Exists, StateOf
<1>5. now <= now
    BY NowTypes
<1>6. TimesFollow(i)'
    BY <1>1, <1>2, <1>5 DEF Suspends, Follows, TimesFollow
<1>. QED BY <1>3, <1>4, <1>6 DEF Follows

LEMMA EndsFollow ==
    ASSUME NEW s \in Slots, NEW i \in Intents, Follows(i),
           Touches(s, i), Serving(i) \subseteq {s}, Ends(s, i)
    PROVE  Follows(i)'
<1>1. Serving(i)' = {}
    BY ServingAfter DEF Ends
<1>2. entry'[i] = entry[i] /\ trace'[i] = trace[i] /\ rows'[i] = rows[i] /\ now' = now
    BY DEF Ends, Touches
<1>3. RowFollows(i)'
    BY <1>1, <1>2 DEF Ends, RowFollows, StateOf
<1>4. TraceFollows(i)'
    BY <1>2 DEF Follows, TraceFollows, Executed, Exists, StateOf
<1>5. TimesFollow(i)'
    BY <1>1, <1>2 DEF Follows, TimesFollow
<1>. QED BY <1>3, <1>4, <1>5 DEF Follows

LEMMA CompletesFollow ==
    ASSUME TypeOK, NEW s \in Slots, NEW i \in Intents, Follows(i),
           Touches(s, i), Serving(i) \subseteq {s}, Completes(s, i)
    PROVE  Follows(i)'
<1>1. Serving(i)' = {}
    BY ServingAfter DEF Completes
<1>2. PICK e \in Entry, t \in 0 .. MaxTime :
        /\ entry'[i] = e
        /\ trace'[i] = Append(trace[i], [state |-> e.state, at |-> t])
        /\ Agrees(e.state, rows[i].status)
        /\ e.state = "EXECUTED" => ~ Executed(i)
        /\ Executed(i) => e.state \in {"EXECUTED", "REJECTED"}
        /\ t <= now
        /\ \A k \in DOMAIN trace[i] : trace[i][k].at <= t
    BY DEF Completes
<1> DEFINE row == [state |-> e.state, at |-> t]
           n == Len(trace[i]) + 1
<1>3. row \in AuditRow /\ row.state = e.state /\ row.at = t /\ trace[i] \in Seq(AuditRow)
    BY DEF TypeOK, AuditRow, Entry
<1>4. rows'[i] = rows[i] /\ now' = now /\ Exists(i)
    BY DEF Completes, Touches
<1>5. StateOf(i)' = e.state
    BY <1>2 DEF StateOf
<1>6. trace'[i] = Append(trace[i], row)
    BY <1>2
<1>. HIDE DEF row
<1>7. /\ Len(trace'[i]) = n /\ n \in Nat /\ trace'[i][n] = row /\ trace'[i] # <<>>
      /\ DOMAIN trace'[i] = DOMAIN trace[i] \cup {n} /\ n \notin DOMAIN trace[i]
      /\ \A k \in DOMAIN trace[i] : trace'[i][k] = trace[i][k]
      /\ \A k \in DOMAIN trace[i] : k \in Nat /\ k < n
    BY <1>3, <1>6
<1>. HIDE DEF n
<1>8. RowFollows(i)'
    BY <1>1, <1>2, <1>4, <1>5 DEF RowFollows
<1>9. Executed(i)' => Executed(i) \/ e.state = "EXECUTED"
    BY <1>3, <1>7 DEF Executed
<1>10. ~ Executed(i) => \A k \in DOMAIN trace[i] : trace[i][k].state # "EXECUTED"
    BY DEF Executed
<1>11. TraceFollows(i)'
    <2>1. (Exists(i) => trace[i] # <<>> /\ trace[i][Len(trace[i])].state = StateOf(i))'
        BY <1>3, <1>5, <1>7
    <2>2. (Executed(i) => rows[i].status = "committed")'
        BY <1>2, <1>4, <1>9 DEF Follows, TraceFollows, Agrees
    <2>3. (Executed(i) /\ Exists(i) => StateOf(i) \in {"EXECUTED", "REJECTED"})'
        BY <1>2, <1>5, <1>9
    <2>4. (\A j, k \in DOMAIN trace[i] :
            trace[i][j].state = "EXECUTED" /\ trace[i][k].state = "EXECUTED" => j = k)'
        BY <1>2, <1>3, <1>7, <1>10 DEF Follows, TraceFollows
    <2>. QED BY <2>1, <2>2, <2>3, <2>4 DEF TraceFollows
<1>12. TimesFollow(i)'
    <2>1. t <= t /\ t \in Nat
        OBVIOUS
    <2>2. (\A j, k \in DOMAIN trace[i] : j <= k => trace[i][j].at <= trace[i][k].at)'
        BY <1>2, <1>3, <1>7, <2>1 DEF Follows, TimesFollow
    <2>3. (\A k \in DOMAIN trace[i] : trace[i][k].at <= now)'
        BY <1>2, <1>3, <1>4, <1>7 DEF Follows, TimesFollow
    <2>. QED BY <1>1, <2>2, <2>3 DEF TimesFollow
<1>. QED BY <1>8, <1>11, <1>12 DEF Follows

LEMMA MovesFollow ==
    ASSUME TypeOK, WaitingInv, NEW s \in Slots, NEW i \in Intents, Moves(s, i)
    PROVE  WaitingInv'
<1> SUFFICES ASSUME NEW k \in Intents PROVE Follows(k)'
    BY DEF WaitingInv
<1>1. CASE k = i
    BY <1>1, SuspendsFollow, EndsFollow, CompletesFollow DEF Moves, WaitingInv
<1>2. CASE k # i
    BY <1>2, OthersFollow DEF Moves, WaitingInv
<1>. QED BY <1>1, <1>2

-----------------------------------------------------------------------------
(* Each handler, for clients that wait. *)
LEMMA TouchForm ==
    ASSUME TypeOK, NEW s \in Slots, NEW i \in Intents, NEW e, NEW x, NEW u, NEW r,
           entry' = entry \/ entry' = [entry EXCEPT ![i] = e],
           rows' = rows \/ rows' = [rows EXCEPT ![i] = x],
           trace' = trace \/ trace' = [trace EXCEPT ![i] = u],
           request' = [request EXCEPT ![s] = r],
           InFlight(s) => request[s].intent = i,
           r # Idle => r.intent = i, now' = now
    PROVE  Touches(s, i) /\ request'[s] = r
BY DEF TypeOK, Ledger!TypeOK, Touches, InFlight

(* What a request finds when it arrives for an intent, and what it is at     *)
(* when it is woken.                                                         *)
LEMMA AtArrival ==
    ASSUME IInv, WaitingInv, OneRequestPerIntent,
           NEW s \in Slots, NEW i \in Intents, Arrives(s, i)
    PROVE  /\ ~ InFlight(s) /\ Exists(i) /\ Serving(i) = {}
           /\ Agrees(StateOf(i), rows[i].status)
           /\ Executed(i) => StateOf(i) \in {"EXECUTED", "REJECTED"}
           /\ \A k \in DOMAIN trace[i] : trace[i][k].at <= now
BY DEF Arrives, Busy, Serving, InFlight, WaitingInv, Follows, RowFollows, TraceFollows, TimesFollow

LEMMA WhenWoken ==
    ASSUME IInv, WaitingInv, NEW s \in Slots, InFlight(s), NEW i, i = request[s].intent
    PROVE  /\ i \in Intents /\ Exists(i) /\ request[s] \in Request
           /\ Serving(i) = {s}
           /\ Underway(request[s], StateOf(i), rows[i].status)
           /\ Executed(i) => StateOf(i) \in {"EXECUTED", "REJECTED"}
           /\ \A k \in DOMAIN trace[i] : trace[i][k].at <= now
           /\ Settling(request[s]) =>
                /\ request[s].t <= now
                /\ \A k \in DOMAIN trace[i] : trace[i][k].at <= request[s].t
<1>1. i \in Intents /\ Exists(i) /\ request[s] \in Request
    BY RequestTypes DEF IInv, InFlightExists
<1>2. s \in Serving(i)
    BY DEF Serving
<1>3. Follows(i)
    BY <1>1 DEF WaitingInv
<1>4. Serving(i) = {s} /\ Underway(request[s], StateOf(i), rows[i].status)
    BY <1>2, <1>3 DEF Follows, RowFollows
<1>. QED BY <1>1, <1>2, <1>3, <1>4 DEF Follows, TraceFollows, TimesFollow

(* A request is suspended before it writes the ledger. *)
LEMMA SuspendMoves ==
    ASSUME IInv, WaitingInv, NEW s \in Slots, NEW i \in Intents, Exists(i),
           Serving(i) \subseteq {s}, InFlight(s) => request[s].intent = i,
           NEW op \in {"mark", "confirm", "reject"}, NEW pc \in {"body", "node"}, NEW t, NEW hash,
           Suspend(s, i, op, pc, t, hash), UNCHANGED <<entry, rows, trace, now>>,
           BeforeLedger([op |-> op, pc |-> pc, intent |-> i, t |-> t, hash |-> hash],
                        StateOf(i), rows[i].status)
    PROVE  Moves(s, i)
<1> DEFINE r == [op |-> op, pc |-> pc, intent |-> i, t |-> t, hash |-> hash]
<1>1. r # Idle /\ r.intent = i /\ r.op = op /\ r.pc = pc
    BY DEF Idle
<1>2. request' = [request EXCEPT ![s] = r] /\ BeforeLedger(r, StateOf(i), rows[i].status)
    BY DEF Suspend
<1>. HIDE DEF r
<1>3. Touches(s, i) /\ request'[s] = r
    BY <1>1, <1>2, TouchForm DEF IInv
<1>4. ~ Settling(r)
    BY <1>1 DEF Settling
<1>5. Executed(i) => rows[i].status = "committed"
    BY DEF WaitingInv, Follows, TraceFollows
<1>6. Suspends(s, i)
    BY <1>1, <1>2, <1>3, <1>4, <1>5 DEF Suspends, Underway, InFlight, StateOf
<1>. QED BY <1>3, <1>6 DEF Moves

(* A request settles the row of its intent. *)
LEMMA SettleMoves ==
    ASSUME IInv, WaitingInv, NEW s \in Slots, InFlight(s), NEW i, i = request[s].intent,
           NEW op \in {"mark", "confirm", "reject"}, NEW hash,
           NEW status, status = IF op = "reject" THEN "released" ELSE "committed",
           SettleThenWait(s, i, op, hash, Ledger!Settle(i, status)), UNCHANGED now,
           BeforeLedger(request[s], StateOf(i), rows[i].status)
    PROVE  Moves(s, i)
<1> DEFINE r == [op |-> op, pc |-> "settled", intent |-> i, t |-> now, hash |-> hash]
           x == [rows[i] EXCEPT !.status = status]
<1>1. r # Idle /\ r.intent = i /\ r.op = op /\ r.pc = "settled" /\ r.t = now
    BY DEF Idle
<1>2. /\ request' = [request EXCEPT ![s] = r] /\ UNCHANGED <<entry, trace, now>>
      /\ Ledger!IsReserved(i) /\ rows' = [rows EXCEPT ![i] = x]
    BY DEF SettleThenWait, Suspend, Ledger!Settle
<1>3. i \in Intents /\ Exists(i) /\ Serving(i) = {s}
      /\ (Executed(i) => StateOf(i) \in {"EXECUTED", "REJECTED"})
    BY WhenWoken
<1>4. rows[i].status = "reserved" /\ rows[i] \in Ledger!Row
    BY <1>2, <1>3 DEF IInv, TypeOK, Ledger!TypeOK, Ledger!IsReserved, Ledger!HasStatus, Ledger!NoRow
<1>5. x.status = status
    BY <1>4 DEF Ledger!Row
<1>6. rows'[i] = x
    BY <1>2, <1>3 DEF IInv, TypeOK, Ledger!TypeOK
<1>. HIDE DEF r, x
<1>7. Touches(s, i) /\ request'[s] = r
    BY <1>1, <1>2, <1>3, TouchForm DEF IInv
<1>8. StateOf(i) = "POLICY_VALIDATED"
    BY <1>4 DEF BeforeLedger, Agrees
<1>9. Settling(r) /\ AfterLedger(r, StateOf(i), rows'[i].status)
    BY <1>1, <1>5, <1>6, <1>8 DEF Settling, AfterLedger
<1>10. Suspends(s, i)
    BY <1>1, <1>2, <1>3, <1>7, <1>8, <1>9 DEF Suspends, Underway, InFlight
<1>. QED BY <1>3, <1>7, <1>10 DEF Moves

(* A request ends with nothing recorded. *)
LEMMA AnswerMoves ==
    ASSUME IInv, WaitingInv, NEW s \in Slots, InFlight(s), NEW i, i = request[s].intent,
           Answer(s), UNCHANGED <<entry, rows, trace, now>>,
           BeforeLedger(request[s], StateOf(i), rows[i].status)
    PROVE  Moves(s, i)
<1>1. i \in Intents /\ Serving(i) = {s}
    BY WhenWoken
<1>2. Touches(s, i) /\ request'[s] = Idle
    BY <1>1, TouchForm DEF Answer, IInv
<1>3. Ends(s, i)
    BY <1>2 DEF Ends, InFlight, BeforeLedger
<1>. QED BY <1>1, <1>2, <1>3 DEF Moves

(* A request ends with a record. *)
LEMMA RecordMoves ==
    ASSUME IInv, WaitingInv, NEW s \in Slots, NEW i \in Intents, Exists(i),
           Serving(i) \subseteq {s}, InFlight(s) => request[s].intent = i,
           NEW e \in Entry, NEW t \in 0 .. MaxTime, t <= now,
           \A k \in DOMAIN trace[i] : trace[i][k].at <= t,
           StateOf(i) \notin Terminal, Agrees(e.state, rows[i].status),
           e.state = "EXECUTED" => ~ Executed(i),
           Executed(i) => e.state \in {"EXECUTED", "REJECTED"},
           entry' = [entry EXCEPT ![i] = e],
           trace' = [trace EXCEPT ![i] = Append(@, [state |-> e.state, at |-> t])],
           request' = [request EXCEPT ![s] = Idle], UNCHANGED <<rows, now>>
    PROVE  Moves(s, i)
<1> DEFINE u == Append(trace[i], [state |-> e.state, at |-> t])
<1>1. trace' = [trace EXCEPT ![i] = u]
    OBVIOUS
<1>2. trace'[i] = u /\ entry'[i] = e
    BY DEF IInv, TypeOK
<1>. HIDE DEF u
<1>3. Touches(s, i) /\ request'[s] = Idle
    BY <1>1, TouchForm DEF IInv
<1>4. Completes(s, i)
    BY <1>2, <1>3 DEF Completes, InFlight, u
<1>. QED BY <1>3, <1>4 DEF Moves

LEMMA PlainRecordMoves ==
    ASSUME IInv, WaitingInv, NEW s \in Slots, NEW i \in Intents, Exists(i),
           Serving(i) \subseteq {s}, InFlight(s) => request[s].intent = i,
           NEW newState \in {"POLICY_VALIDATED", "REJECTED", "EXECUTED"},
           NEW t \in 0 .. MaxTime, t <= now,
           \A k \in DOMAIN trace[i] : trace[i][k].at <= t,
           StateOf(i) \notin Terminal, Agrees(newState, rows[i].status),
           newState = "EXECUTED" => ~ Executed(i),
           Executed(i) => newState \in {"EXECUTED", "REJECTED"},
           Record(i, newState, t), request' = [request EXCEPT ![s] = Idle],
           UNCHANGED <<rows, now>>
    PROVE  Moves(s, i)
<1> DEFINE e == [entry[i] EXCEPT !.state = newState]
<1>1. e \in Entry /\ e.state = newState
    BY EntryTypes DEF IInv, Entry, States
<1>2. entry' = [entry EXCEPT ![i] = e]
    BY DEF Record
<1>3. trace' = [trace EXCEPT ![i] = Append(@, [state |-> e.state, at |-> t])]
    BY <1>1 DEF Record
<1>. HIDE DEF e
<1>. QED BY <1>1, <1>2, <1>3, RecordMoves

LEMMA ExecutionMoves ==
    ASSUME IInv, WaitingInv, NEW s \in Slots, InFlight(s), NEW i, i = request[s].intent,
           NEW t \in 0 .. MaxTime, t <= now, NEW hash \in Deploys \cup {NoHash},
           \A k \in DOMAIN trace[i] : trace[i][k].at <= t,
           StateOf(i) = "POLICY_VALIDATED", rows[i].status = "committed",
           RecordExecution(i, hash, t), Answer(s), UNCHANGED <<rows, now>>
    PROVE  Moves(s, i)
<1> DEFINE e == [entry[i] EXCEPT !.state = "EXECUTED", !.hash = hash]
<1>0. i \in Intents /\ Exists(i) /\ Serving(i) = {s}
      /\ (Executed(i) => StateOf(i) \in {"EXECUTED", "REJECTED"})
    BY WhenWoken
<1>1. e \in Entry /\ e.state = "EXECUTED"
    BY <1>0, EntryTypes DEF IInv, Entry, States
<1>2. entry' = [entry EXCEPT ![i] = e]
    BY <1>0 DEF RecordExecution, IInv, TypeOK
<1>3. trace' = [trace EXCEPT ![i] = Append(@, [state |-> e.state, at |-> t])]
    BY <1>1 DEF RecordExecution
<1>. HIDE DEF e
<1>4. StateOf(i) \notin Terminal /\ Agrees(e.state, rows[i].status) /\ ~ Executed(i)
    BY <1>0, <1>1 DEF Terminal, Agrees
<1>. QED BY <1>0, <1>1, <1>2, <1>3, <1>4, RecordMoves DEF Answer

LEMMA MarkOrConfirmMoves ==
    ASSUME IInv, WaitingInv, NEW s \in Slots,
           MarkBody(s) \/ MarkEnds(s) \/ ConfirmFails(s) \/ ConfirmFinalized(s) \/ ConfirmEnds(s)
    PROVE  \E i \in Intents : Moves(s, i)
<1> DEFINE i == request[s].intent
           r == request[s]
<1>1. InFlight(s) /\ request[s].op \in {"mark", "confirm"}
    BY DEF MarkBody, MarkEnds, ConfirmFails, ConfirmFinalized, ConfirmEnds, Woken, At,
           InFlight, Idle
<1>2. /\ i \in Intents /\ Exists(i) /\ request[s] \in Request
      /\ Serving(i) = {s}
      /\ Underway(r, StateOf(i), rows[i].status)
      /\ Executed(i) => StateOf(i) \in {"EXECUTED", "REJECTED"}
      /\ Settling(r) =>
            /\ r.t <= now
            /\ \A k \in DOMAIN trace[i] : trace[i][k].at <= r.t
    BY <1>1, WhenWoken
<1>3. r.t \in 0 .. MaxTime /\ r.hash \in Deploys \cup {NoHash}
    BY <1>2 DEF Request
<1>4. ASSUME MarkBody(s) \/ ConfirmFails(s) \/ ConfirmFinalized(s)
      PROVE  /\ BeforeLedger(r, StateOf(i), rows[i].status) /\ StateOf(i) = "POLICY_VALIDATED"
             /\ Ledger!IsReserved(i)
    <2>1. /\ r.pc \in {"body", "node"} /\ r.op \in {"mark", "confirm"}
          /\ r.op = "mark" \/ r.pc = "node"
        BY <1>4 DEF MarkBody, ConfirmFails, ConfirmFinalized, Woken, At
    <2>2. BeforeLedger(r, StateOf(i), rows[i].status)
        BY <1>2, <2>1 DEF Underway, Settling
    <2>. QED BY <2>1, <2>2 DEF BeforeLedger, Agrees, Ledger!IsReserved, Ledger!HasStatus
<1>5. ASSUME MarkEnds(s) \/ ConfirmEnds(s)
      PROVE  /\ StateOf(i) = "POLICY_VALIDATED" /\ rows[i].status = "committed"
             /\ Settling(r)
    <2>1. r.pc = "settled" /\ r.op \in {"mark", "confirm"}
        BY <1>5 DEF MarkEnds, ConfirmEnds, At
    <2>. QED BY <1>2, <2>1 DEF Underway, AfterLedger, Settling
<1>6. CASE MarkBody(s)
    <2>1. SettleThenWait(s, i, "mark", NoHash, Ledger!Settle(i, "committed")) /\ UNCHANGED now
        BY <1>4, <1>6 DEF MarkBody, NothingToSettle, Ledger!Commit
    <2>2. Moves(s, i)
        BY <1>1, <1>4, <1>6, <2>1, SettleMoves
    <2>. QED BY <1>2, <2>2
<1>7. CASE ConfirmFinalized(s)
    <2>1. SettleThenWait(s, i, "confirm", r.hash, Ledger!Settle(i, "committed")) /\ UNCHANGED now
        BY <1>4, <1>7 DEF ConfirmFinalized, NothingToSettle, Ledger!Commit
    <2>2. Moves(s, i)
        BY <1>1, <1>4, <1>7, <2>1, SettleMoves
    <2>. QED BY <1>2, <2>2
<1>8. CASE ConfirmFails(s)
    <2>1. Moves(s, i)
        BY <1>1, <1>4, <1>8, AnswerMoves DEF ConfirmFails
    <2>. QED BY <1>2, <2>1
<1>9. CASE MarkEnds(s)
    <2>1. /\ Record(i, "EXECUTED", r.t) /\ request' = [request EXCEPT ![s] = Idle]
          /\ UNCHANGED <<rows, now>>
        BY <1>9 DEF MarkEnds, Answer
    <2>2. StateOf(i) \notin Terminal /\ Agrees("EXECUTED", rows[i].status) /\ ~ Executed(i)
        BY <1>2, <1>5, <1>9 DEF Terminal, Agrees
    <2>3. Moves(s, i)
        BY <1>1, <1>2, <1>3, <1>5, <1>9, <2>1, <2>2, PlainRecordMoves
    <2>. QED BY <1>2, <2>3
<1>10. CASE ConfirmEnds(s)
    <2>1. Moves(s, i)
        BY <1>1, <1>2, <1>3, <1>5, <1>10, ExecutionMoves DEF ConfirmEnds
    <2>. QED BY <1>2, <2>1
<1>. QED BY <1>6, <1>7, <1>8, <1>9, <1>10

LEMMA ValidateMoves ==
    ASSUME IInv, WaitingInv, OneRequestPerIntent, NEW s \in Slots, NEW i \in Intents,
           ValidateReserves(s, i)
    PROVE  Moves(s, i)
<1> DEFINE amount == entry[i].body.amount
           day == Ledger!DayOf(now)
           result == Ledger!ReserveResult(i, Signer, day, amount)
           r == [op |-> "validate", pc |-> result, intent |-> i, t |-> now, hash |-> NoHash]
           x == [status |-> "reserved", signer |-> Signer, day |-> day, amount |-> amount,
                 createdAt |-> now]
<1>1. /\ ~ InFlight(s) /\ Exists(i) /\ Serving(i) = {} /\ StateOf(i) = "DRAFT"
      /\ Agrees(StateOf(i), rows[i].status)
      /\ ~ Executed(i)
    BY AtArrival DEF ValidateReserves
<1>2. rows[i].status = "none"
    BY <1>1 DEF Agrees
<1>3. rows[i] = Ledger!NoRow
    BY <1>2 DEF IInv, TypeOK, Ledger!TypeOK, Ledger!Row, Ledger!NoRow
<1>4. /\ Ledger!Reserve(i, Signer, day, amount) /\ UNCHANGED <<entry, trace, now>>
      /\ request' = [request EXCEPT ![s] = r]
    BY DEF ValidateReserves, Suspend
<1>5. /\ result \in {"ok", "day_cap_exceeded"}
      /\ result = "ok" => rows' = [rows EXCEPT ![i] = x]
      /\ result # "ok" => rows' = rows
    BY <1>3, <1>4 DEF Ledger!Reserve, Ledger!ReserveResult, Ledger!InsertReserved
<1>6. /\ r # Idle /\ r.intent = i /\ r.op = "validate" /\ r.pc = result /\ r.t = now
      /\ x.status = "reserved"
    BY DEF Idle
<1>. HIDE DEF r, x, result
<1>7. Touches(s, i) /\ request'[s] = r
    <2>1. rows' = rows \/ rows' = [rows EXCEPT ![i] = x]
        BY <1>5
    <2>2. entry' = entry /\ trace' = trace /\ now' = now
        BY <1>4
    <2>. QED BY <1>1, <1>4, <1>6, <2>1, <2>2
             DEF Touches, InFlight, IInv, TypeOK, Ledger!TypeOK
<1>8. result = "ok" => rows'[i] = x
    BY <1>5 DEF IInv, TypeOK, Ledger!TypeOK
<1>9. AfterLedger(r, StateOf(i), rows'[i].status) /\ Settling(r)
    BY <1>1, <1>2, <1>5, <1>6, <1>8 DEF AfterLedger, Settling
<1>10. Suspends(s, i)
    BY <1>1, <1>4, <1>6, <1>7, <1>9 DEF Suspends, Underway, InFlight
<1>. QED BY <1>1, <1>7, <1>10 DEF Moves

LEMMA RejectMoves ==
    ASSUME IInv, WaitingInv, NEW s \in Slots, RejectBody(s) \/ RejectEnds(s)
    PROVE  \E i \in Intents : Moves(s, i)
<1> DEFINE i == request[s].intent
           r == request[s]
<1>1. InFlight(s) /\ r.op = "reject"
    BY DEF RejectBody, RejectEnds, Woken, At, InFlight, Idle
<1>2. /\ i \in Intents /\ Exists(i) /\ r \in Request
      /\ Serving(i) = {s}
      /\ Underway(r, StateOf(i), rows[i].status)
      /\ \A k \in DOMAIN trace[i] : trace[i][k].at <= now
      /\ Settling(r) =>
            /\ r.t <= now
            /\ \A k \in DOMAIN trace[i] : trace[i][k].at <= r.t
    BY <1>1, WhenWoken
<1>3. r.t \in 0 .. MaxTime /\ now \in 0 .. MaxTime /\ now <= now
    BY <1>2, NowTypes DEF Request, IInv
<1>4. CASE RejectBody(s)
    <2>1. r.pc = "body"
        BY <1>4 DEF RejectBody, Woken, At
    <2>2. BeforeLedger(r, StateOf(i), rows[i].status) /\ StateOf(i) # "REJECTED"
        BY <1>1, <1>2, <2>1 DEF Underway, Settling, BeforeLedger
    <2>3. CASE SettleThenWait(s, i, "reject", NoHash, Ledger!Release(i))
        <3>1. /\ SettleThenWait(s, i, "reject", NoHash, Ledger!Settle(i, "released"))
              /\ UNCHANGED now
            BY <1>4, <2>3 DEF RejectBody, Ledger!Release
        <3>2. Moves(s, i)
            BY <1>1, <2>2, <3>1, SettleMoves
        <3>. QED BY <1>2, <3>2
    <2>4. CASE NothingToSettle(s, i) /\ Record(i, "REJECTED", now)
        <3>1. /\ request' = [request EXCEPT ![s] = Idle] /\ UNCHANGED <<rows, now>>
              /\ rows[i].status # "reserved"
            BY <1>4, <2>4
               DEF RejectBody, NothingToSettle, Answer, Ledger!IsReserved, Ledger!HasStatus
        <3>2. StateOf(i) \notin Terminal /\ Agrees("REJECTED", rows[i].status)
            BY <2>2, <3>1 DEF BeforeLedger, Agrees, Terminal
        <3>3. Moves(s, i)
            BY <1>2, <1>3, <2>4, <3>1, <3>2, PlainRecordMoves
        <3>. QED BY <1>2, <3>3
    <2>. QED BY <1>4, <2>3, <2>4 DEF RejectBody
<1>5. CASE RejectEnds(s)
    <2>1. r.pc = "settled" /\ Settling(r)
        BY <1>5 DEF RejectEnds, At, Settling
    <2>2. StateOf(i) = "POLICY_VALIDATED" /\ rows[i].status = "released"
        BY <1>1, <1>2, <2>1 DEF Underway, AfterLedger
    <2>3. StateOf(i) \notin Terminal /\ Agrees("REJECTED", rows[i].status)
        BY <2>2 DEF Agrees, Terminal
    <2>4. /\ Record(i, "REJECTED", r.t) /\ request' = [request EXCEPT ![s] = Idle]
          /\ UNCHANGED <<rows, now>>
        BY <1>5 DEF RejectEnds, Answer
    <2>5. Moves(s, i)
        BY <1>2, <1>3, <2>1, <2>3, <2>4, PlainRecordMoves
    <2>. QED BY <1>2, <2>5
<1>. QED BY <1>4, <1>5

LEMMA HandlerMoves ==
    ASSUME IInv, WaitingInv, OneRequestPerIntent, NEW s \in Slots, Handler(s)
    PROVE  \E i \in Intents : Moves(s, i)
<1> DEFINE Goal == \E i \in Intents : Moves(s, i)
           j == request[s].intent
           r == request[s]
<1>1. now \in 0 .. MaxTime /\ now <= now
    BY NowTypes DEF IInv
<1>2. ASSUME InFlight(s)
      PROVE  /\ j \in Intents /\ Exists(j) /\ r \in Request /\ Serving(j) = {s}
             /\ Underway(r, StateOf(j), rows[j].status)
             /\ Executed(j) => StateOf(j) \in {"EXECUTED", "REJECTED"}
             /\ Settling(r) =>
                    /\ r.t <= now
                    /\ \A k \in DOMAIN trace[j] : trace[j][k].at <= r.t
    BY <1>2, WhenWoken
<1>3. ASSUME NEW i \in Intents, ValidateDenied(s, i) PROVE Goal
    <2>1. /\ ~ InFlight(s) /\ Exists(i) /\ Serving(i) = {} /\ StateOf(i) = "DRAFT"
          /\ Agrees(StateOf(i), rows[i].status) /\ ~ Executed(i)
          /\ \A k \in DOMAIN trace[i] : trace[i][k].at <= now
        BY <1>3, AtArrival DEF ValidateDenied
    <2>2. request' = [request EXCEPT ![s] = Idle]
        BY <1>3, <2>1 DEF ValidateDenied, InFlight, IInv, TypeOK
    <2>3. StateOf(i) \notin Terminal /\ Agrees("REJECTED", rows[i].status)
        BY <2>1 DEF Agrees, Terminal
    <2>4. Record(i, "REJECTED", now) /\ UNCHANGED <<rows, now>>
        BY <1>3 DEF ValidateDenied
    <2>5. Moves(s, i)
        BY <1>1, <2>1, <2>2, <2>3, <2>4, PlainRecordMoves
    <2>. QED BY <2>5
<1>4. ASSUME NEW i \in Intents, ValidateReserves(s, i) PROVE Goal
    BY <1>4, ValidateMoves
<1>5. ASSUME NEW i \in Intents, MarkArrives(s, i) PROVE Goal
    <2>1. /\ ~ InFlight(s) /\ Exists(i) /\ Serving(i) = {}
          /\ Agrees(StateOf(i), rows[i].status)
          /\ StateOf(i) \in {"POLICY_VALIDATED", "ACCEPTED_BY_NODE"}
        BY <1>5, AtArrival DEF MarkArrives
    <2>2. BeforeLedger([op |-> "mark", pc |-> "body", intent |-> i, t |-> NoTime, hash |-> NoHash],
                       StateOf(i), rows[i].status)
        BY <2>1 DEF BeforeLedger, Agrees
    <2>3. Moves(s, i)
        BY <1>5, <2>1, <2>2, SuspendMoves DEF MarkArrives
    <2>. QED BY <2>3
<1>6. ASSUME NEW i \in Intents, ConfirmArrives(s, i) PROVE Goal
    <2>1. /\ ~ InFlight(s) /\ Exists(i) /\ Serving(i) = {}
          /\ Agrees(StateOf(i), rows[i].status)
        BY <1>6, AtArrival DEF ConfirmArrives
    <2>2. BeforeLedger([op |-> "confirm", pc |-> "body", intent |-> i, t |-> NoTime,
                        hash |-> NoHash],
                       StateOf(i), rows[i].status)
        BY <2>1 DEF BeforeLedger
    <2>3. Moves(s, i)
        BY <1>6, <2>1, <2>2, SuspendMoves DEF ConfirmArrives
    <2>. QED BY <2>3
<1>7. ASSUME NEW i \in Intents, RejectArrives(s, i) PROVE Goal
    <2>1. /\ ~ InFlight(s) /\ Exists(i) /\ Serving(i) = {}
          /\ Agrees(StateOf(i), rows[i].status) /\ StateOf(i) # "REJECTED"
        BY <1>7, AtArrival DEF RejectArrives, Terminal
    <2>2. BeforeLedger([op |-> "reject", pc |-> "body", intent |-> i, t |-> NoTime,
                        hash |-> NoHash],
                       StateOf(i), rows[i].status)
        BY <2>1 DEF BeforeLedger
    <2>3. Moves(s, i)
        BY <1>7, <2>1, <2>2, SuspendMoves DEF RejectArrives
    <2>. QED BY <2>3
<1>8. CASE ValidateEnds(s)
    <2>1. InFlight(s) /\ r.op = "validate" /\ Settling(r)
        BY <1>8 DEF ValidateEnds, InFlight, Idle, Settling
    <2>2. StateOf(j) = "DRAFT" /\ rows[j].status = IF r.pc = "ok" THEN "reserved" ELSE "none"
        BY <1>2, <2>1 DEF Underway, AfterLedger
    <2>3. PICK new \in {"POLICY_VALIDATED", "REJECTED"} :
            /\ new = IF r.pc = "ok" THEN "POLICY_VALIDATED" ELSE "REJECTED"
            /\ Record(j, new, r.t)
        BY <1>8 DEF ValidateEnds
    <2>4. /\ StateOf(j) \notin Terminal /\ Agrees(new, rows[j].status) /\ ~ Executed(j)
          /\ r.t \in 0 .. MaxTime
        BY <1>2, <2>1, <2>2, <2>3 DEF Agrees, Terminal, Request
    <2>5. request' = [request EXCEPT ![s] = Idle] /\ UNCHANGED <<rows, now>>
        BY <1>8 DEF ValidateEnds, Answer
    <2>6. Moves(s, j)
        BY <1>2, <2>1, <2>3, <2>4, <2>5, PlainRecordMoves
    <2>. QED BY <1>2, <2>1, <2>6
<1>9. ASSUME NEW h \in Deploys, ConfirmBody(s, h) PROVE Goal
    <2>1. InFlight(s) /\ r.op = "confirm" /\ r.pc = "body"
        BY <1>9 DEF ConfirmBody, Woken, At, InFlight, Idle
    <2>2. BeforeLedger(r, StateOf(j), rows[j].status)
        BY <1>2, <2>1 DEF Underway, Settling
    <2>3. CASE StateOf(j) = "POLICY_VALIDATED"
        <3>1. Suspend(s, j, "confirm", "node", NoTime, h) /\ UNCHANGED <<entry, rows, trace, now>>
            BY <1>9, <2>3 DEF ConfirmBody
        <3>2. BeforeLedger([op |-> "confirm", pc |-> "node", intent |-> j, t |-> NoTime,
                            hash |-> h],
                           StateOf(j), rows[j].status)
            BY <2>2, <2>3 DEF BeforeLedger
        <3>3. Moves(s, j)
            BY <1>2, <2>1, <3>1, <3>2, SuspendMoves
        <3>. QED BY <1>2, <2>1, <3>3
    <2>4. CASE StateOf(j) # "POLICY_VALIDATED"
        <3>1. Answer(s) /\ UNCHANGED <<entry, rows, trace, now>>
            BY <1>9, <2>4 DEF ConfirmBody
        <3>2. Moves(s, j)
            BY <2>1, <2>2, <3>1, AnswerMoves
        <3>. QED BY <1>2, <2>1, <3>2
    <2>. QED BY <2>3, <2>4
<1>10. CASE BodyRefused(s)
    <2>1. InFlight(s) /\ r.op \in {"mark", "confirm", "reject"} /\ r.pc = "body"
        BY <1>10 DEF BodyRefused, Woken, At, InFlight, Idle
    <2>2. BeforeLedger(r, StateOf(j), rows[j].status)
        BY <1>2, <2>1 DEF Underway, Settling
    <2>3. Moves(s, j)
        BY <1>10, <2>1, <2>2, AnswerMoves DEF BodyRefused
    <2>. QED BY <1>2, <2>1, <2>3
<1>. QED BY <1>3, <1>4, <1>5, <1>6, <1>7, <1>8, <1>9, <1>10, MarkOrConfirmMoves, RejectMoves
         DEF Handler

LEMMA WaitingInit == Init => WaitingInv
BY DEF Init, WaitingInv, Follows, RowFollows, TraceFollows, TimesFollow, Serving, InFlight,
       Exists, Executed

LEMMA CreatedFollows ==
    ASSUME IInv, CommitInv, WaitingInv, NEW i \in Intents, NEW body \in Body, Create(i, body)
    PROVE  WaitingInv'
<1> SUFFICES ASSUME NEW k \in Intents PROVE Follows(k)'
    BY DEF WaitingInv
<1> DEFINE row == [state |-> "DRAFT", at |-> now]
           e == [state |-> "DRAFT", body |-> body, hash |-> NoHash]
<1>1. /\ ~ Exists(i) /\ trace[i] = <<>> /\ UNCHANGED <<rows, request, now>>
      /\ entry'[i] = e /\ trace'[i] = <<row>>
      /\ \A m \in Intents \ {i} : entry'[m] = entry[m] /\ trace'[m] = trace[m]
    BY DEF Create, IInv, TypeOK
<1>2. \A m \in Intents : Serving(m)' = Serving(m)
    BY <1>1 DEF Serving, InFlight
<1>3. Follows(k)
    BY DEF WaitingInv
<1>4. CASE k # i
    <2>1. entry'[k] = entry[k] /\ trace'[k] = trace[k] /\ UNCHANGED <<rows, request, now>>
        BY <1>1, <1>4
    <2>2. Serving(k)' = Serving(k)
        BY <1>2
    <2>. QED BY <1>3, <2>1, <2>2
             DEF Follows, RowFollows, TraceFollows, TimesFollow, Exists, StateOf, Executed
<1>5. CASE k = i
    <2>1. Serving(i)' = {}
        BY <1>1, <1>2 DEF IInv, InFlightExists, Serving
    <2>2. rows[i] = Ledger!NoRow /\ rows'[i].status = "none"
        BY <1>1 DEF CommitInv, Ledger!NoRow
    <2>3. e.state = "DRAFT" /\ row.state = "DRAFT" /\ row.at = now
        OBVIOUS
    <2>. HIDE DEF e, row
    <2>4. /\ Len(trace'[i]) = 1 /\ trace'[i][1] = row /\ trace'[i] # <<>>
          /\ DOMAIN trace'[i] = {1}
        BY <1>1
    <2>5. now' = now /\ now <= now
        BY <1>1, NowTypes DEF IInv
    <2>6. StateOf(i)' = "DRAFT"
        BY <1>1, <2>3 DEF StateOf
    <2>7. RowFollows(i)'
        BY <2>1, <2>2, <2>6 DEF RowFollows, Agrees
    <2>8. TraceFollows(i)'
        BY <2>3, <2>4, <2>6 DEF TraceFollows, Executed
    <2>9. TimesFollow(i)'
        BY <2>1, <2>3, <2>4, <2>5 DEF TimesFollow
    <2>. QED BY <1>5, <2>7, <2>8, <2>9 DEF Follows
<1>. QED BY <1>4, <1>5

LEMMA RestartFollows ==
    ASSUME IInv, WaitingInv, Restart, NEW i \in Intents PROVE Follows(i)'
<1>1. Serving(i)' = {} /\ ~ Exists(i)' /\ UNCHANGED <<rows, trace, now>>
    BY DEF Restart, Serving, InFlight, Exists
<1>. QED BY <1>1
         DEF WaitingInv, Follows, RowFollows, TraceFollows, TimesFollow, Executed

LEMMA LaterFollows ==
    ASSUME IInv, WaitingInv, UNCHANGED <<entry, rows, trace, request>>,
           now' \in 0 .. MaxTime, now <= now', NEW i \in Intents
    PROVE  Follows(i)'
<1>1. Serving(i)' = Serving(i)
    BY DEF Serving, InFlight
<1>2. Follows(i)
    BY DEF WaitingInv
<1>3. RowFollows(i)' /\ TraceFollows(i)'
    BY <1>1, <1>2 DEF Follows, RowFollows, TraceFollows, Exists, StateOf, Executed
<1>4. /\ \A k \in DOMAIN trace[i] : trace[i][k].at \in Nat
      /\ \A s \in Serving(i) : request[s].t \in Nat
      /\ now \in Nat /\ now' \in Nat
    <2>1. trace[i] \in Seq(AuditRow) /\ now \in 0 .. MaxTime
        BY NowTypes DEF IInv, TypeOK, AuditRow
    <2>2. \A k \in DOMAIN trace[i] : trace[i][k] \in AuditRow
        BY <2>1
    <2>3. \A s \in Serving(i) : request[s] \in Request
        BY RequestTypes DEF IInv, Serving
    <2>. QED BY <2>1, <2>2, <2>3 DEF AuditRow, Request
<1>5. TimesFollow(i)'
    BY <1>1, <1>2, <1>4 DEF Follows, TimesFollow
<1>. QED BY <1>3, <1>5 DEF Follows

LEMMA WaitingStep ==
    ASSUME OneRequestPerIntent
    PROVE  IInv /\ CommitInv /\ WaitingInv /\ [Next]_vars => WaitingInv'
<1> SUFFICES ASSUME IInv, CommitInv, WaitingInv, [Next]_vars PROVE WaitingInv'
    OBVIOUS
<1>1. ASSUME NEW s \in Slots, Handler(s) PROVE WaitingInv'
    BY <1>1, HandlerMoves, MovesFollow DEF IInv
<1>2. ASSUME NEW i \in Intents, NEW body \in Body, Create(i, body) PROVE WaitingInv'
    BY <1>2, CreatedFollows
<1>3. CASE Restart
    BY <1>3, RestartFollows DEF WaitingInv
<1>4. CASE (\E h \in Deploys : ChainDecides(h)) \/ Tick \/ UNCHANGED vars
    <2>1. now' \in 0 .. MaxTime /\ now <= now' /\ UNCHANGED <<entry, rows, trace, request>>
        BY <1>4, NowTypes, ApiAssumption DEF ChainDecides, Tick, vars, IInv, ApiAssumption
    <2>. QED BY <2>1, LaterFollows DEF WaitingInv
<1>. QED BY <1>1, <1>2, <1>3, <1>4 DEF Next

(* All that is inductive for clients that wait. *)
WaitingIInv == IInv /\ CommitInv /\ WaitingInv

LEMMA WaitingInvariant == ASSUME OneRequestPerIntent PROVE Spec => []WaitingIInv
<1>1. Init => WaitingIInv
    BY InvInit, CommitInit, WaitingInit DEF WaitingIInv
<1>2. WaitingIInv /\ [Next]_vars => WaitingIInv'
    BY InvStep, CommitStep, WaitingStep DEF WaitingIInv
<1>. QED BY <1>1, <1>2, PTL DEF Spec

(* An execution on record keeps its budget committed, across restarts too,   *)
(* and a rejected intent no request is working on holds none.                *)
THEOREM BudgetIsKept == ASSUME OneRequestPerIntent PROVE Spec => []BudgetFollowsIntent
<1>1. WaitingIInv => BudgetFollowsIntent
    <2> SUFFICES ASSUME WaitingIInv, NEW i \in Intents
                 PROVE  /\ Executed(i) => Ledger!HasStatus(i, {"committed"})
                        /\ Exists(i) /\ StateOf(i) = "REJECTED" /\ ~ Busy(i)
                                => ~ Ledger!IsReserved(i)
        BY DEF BudgetFollowsIntent
    <2>1. Follows(i)
        BY DEF WaitingIInv, WaitingInv
    <2>2. ~ Busy(i) => Serving(i) = {}
        BY DEF Busy, Serving, InFlight
    <2>. QED BY <2>1, <2>2
             DEF Follows, TraceFollows, RowFollows, Agrees, Ledger!IsReserved, Ledger!HasStatus
<1>. QED BY <1>1, WaitingInvariant, PTL

(* No retry and no repetition of confirm or mark-executed records a second   *)
(* execution of an intent.                                                   *)
THEOREM NeverExecutedTwice == ASSUME OneRequestPerIntent PROVE Spec => []ExecutedOnce
<1>1. WaitingIInv => ExecutedOnce
    BY DEF WaitingIInv, WaitingInv, Follows, TraceFollows, ExecutedOnce
<1>. QED BY <1>1, WaitingInvariant, PTL

LEMMA MaxIs ==
    ASSUME NEW S \in SUBSET Int, NEW x \in S, \A y \in S : y <= x PROVE Max(S) = x
<1>1. \A y \in S : x >= y
    OBVIOUS
<1>2. \A z \in S : (\A y \in S : z >= y) => z = x
    OBVIOUS
<1>. QED BY <1>1, <1>2 DEF Max

(* Sorted by time, the last of the rows in order is the last row. *)
LEMMA LastIsShown ==
    ASSUME TypeOK, NEW i \in Intents, trace[i] # <<>>,
           \A j, k \in DOMAIN trace[i] : j <= k => trace[i][j].at <= trace[i][k].at
    PROVE  ShownState(i) = trace[i][Len(trace[i])].state
<1> DEFINE n == Len(trace[i])
           D == DOMAIN trace[i]
           ats == {trace[i][k].at : k \in D}
           latest == Max(ats)
           tied == {j \in D : trace[i][j].at = latest}
<1>1. trace[i] \in Seq(AuditRow)
    BY DEF TypeOK, AuditRow
<1>2. /\ n \in D /\ D \subseteq Int /\ \A k \in D : k <= n /\ trace[i][k] \in AuditRow
    BY <1>1
<1>3. /\ ats \in SUBSET Int /\ trace[i][n].at \in ats /\ \A a \in ats : a <= trace[i][n].at
    BY <1>2 DEF AuditRow
<1>4. latest = trace[i][n].at
    <2>. HIDE DEF ats
    <2>. QED BY <1>3, MaxIs
<1>5. tied \in SUBSET Int /\ n \in tied /\ \A j \in tied : j <= n
    <2>. HIDE DEF latest
    <2>. QED BY <1>2, <1>4
<1>6. Max(tied) = n
    <2>. HIDE DEF tied
    <2>. QED BY <1>5, MaxIs
<1>7. ShownState(i) = trace[i][Max(tied)].state
    BY DEF ShownState
<1>. HIDE DEF tied
<1>. QED BY <1>6, <1>7

(* The last row of the trace a client is served is the state the API acts    *)
(* on, although a handler may record with a time it read before an await.    *)
THEOREM TraceEndsInState == ASSUME OneRequestPerIntent PROVE Spec => []TraceShowsState
<1>1. WaitingIInv => TraceShowsState
    <2> SUFFICES ASSUME WaitingIInv, NEW i \in Intents, Exists(i)
                 PROVE  ShownState(i) = StateOf(i)
        BY DEF TraceShowsState
    <2>1. Follows(i) /\ TypeOK
        BY DEF WaitingIInv, WaitingInv, IInv
    <2>2. /\ trace[i] # <<>> /\ trace[i][Len(trace[i])].state = StateOf(i)
          /\ \A j, k \in DOMAIN trace[i] : j <= k => trace[i][j].at <= trace[i][k].at
        BY <2>1 DEF Follows, TraceFollows, TimesFollow
    <2>. QED BY <2>1, <2>2, LastIsShown
<1>. QED BY <1>1, WaitingInvariant, PTL

(* A handler that checked the state before an await never overwrites a       *)
(* terminal one after it.                                                    *)
THEOREM TerminalStatesAreFinal == ASSUME OneRequestPerIntent PROVE Spec => TerminalIsFinal
<1> DEFINE Final == \A i \in Intents : Exists(i) /\ StateOf(i) \in Terminal =>
                        entry'[i] \in {entry[i], Absent}
<1>1. WaitingIInv /\ [Next]_vars => [Final]_vars
    <2> SUFFICES ASSUME WaitingIInv, Next, NEW i \in Intents, Exists(i), StateOf(i) \in Terminal
                 PROVE  entry'[i] \in {entry[i], Absent}
        OBVIOUS
    <2>1. ASSUME NEW s \in Slots, Handler(s) PROVE entry'[i] = entry[i]
        <3>1. PICK k \in Intents : Moves(s, k)
            BY <2>1, HandlerMoves DEF WaitingIInv
        <3>. QED BY <3>1 DEF Moves, Touches, Suspends, Ends, Completes
    <2>2. ASSUME NEW k \in Intents, NEW body \in Body, Create(k, body) PROVE entry'[i] = entry[i]
        BY <2>2 DEF Create, WaitingIInv, IInv, TypeOK
    <2>3. CASE Restart
        BY <2>3 DEF Restart
    <2>. QED BY <2>1, <2>2, <2>3 DEF Next, ChainDecides, Tick
<1>2. Init /\ [][Next]_vars => []WaitingIInv
    BY WaitingInvariant DEF Spec
<1>. QED BY <1>1, <1>2, PTL DEF Spec, TerminalIsFinal

-----------------------------------------------------------------------------
(* The cap on a day's budget.  The sums are the ledger's and the API's; what *)
(* SumLaws says of a sum over a set holds of both.                           *)
LEMMA LedgerSum ==
    ASSUME NEW f PROVE Ledger!SumFunction(f) = SumFunctionOnSet(f, DOMAIN f)
BY DEF Ledger!SumFunction, Ledger!SumFunctionOnSet, Ledger!FoldFunctionOnSet,
       Ledger!MapThenFoldSet, SumFunctionOnSet, FoldFunctionOnSet, MapThenFoldSet

(* The rows counted against a day, and their amounts. *)
LEMMA CountedAmounts ==
    ASSUME Ledger!TypeOK, NEW d
    PROVE  /\ IsFiniteSet(Ledger!Counted(Signer, d))
           /\ \A i \in Ledger!Counted(Signer, d) : rows[i].amount \in Nat
<1>1. IsFiniteSet(Ledger!Counted(Signer, d))
    BY ApiAssumption, FS_Subset DEF ApiAssumption, Ledger!Counted
<1>2. ASSUME NEW i \in Ledger!Counted(Signer, d)
      PROVE  rows[i].amount \in Nat
    <2>1. rows[i] \in Ledger!Row
        BY DEF Ledger!Counted, Ledger!Live, Ledger!HasStatus, Ledger!TypeOK, Ledger!NoRow
    <2>2. rows[i].amount \in Amounts
        BY <2>1 DEF Ledger!Row
    <2>. QED BY <2>2, ApiAssumption DEF ApiAssumption
<1>. QED BY <1>1, <1>2

(* A day on which no row is counted that was not counted before, for the     *)
(* same amount, has not spent more.                                          *)
LEMMA DaySpendsNoMore ==
    ASSUME Ledger!TypeOK, Ledger!CapHolds, NEW d \in Ledger!Days,
           \A i \in Ledger!Counted(Signer, d)' :
               i \in Ledger!Counted(Signer, d) /\ rows'[i].amount = rows[i].amount
    PROVE  (Ledger!UsedOnDay(Signer, d) <= DayCap)'
<1> DEFINE C == Ledger!Counted(Signer, d)
           D == Ledger!Counted(Signer, d)'
           f == [i \in C |-> rows[i].amount]
           g == [i \in D |-> rows'[i].amount]
<1>1. IsFiniteSet(C) /\ \A i \in C : f[i] \in Nat
    BY CountedAmounts
<1>2. D \in SUBSET C /\ \A i \in D : g[i] = f[i]
    OBVIOUS
<1>3. Ledger!UsedOnDay(Signer, d) = SumFunctionOnSet(f, C)
    BY LedgerSum DEF Ledger!UsedOnDay
<1>4. Ledger!UsedOnDay(Signer, d)' = SumFunctionOnSet(g, D)
    BY LedgerSum DEF Ledger!UsedOnDay
<1>5. Ledger!UsedOnDay(Signer, d) <= DayCap
    BY DEF Ledger!CapHolds
<1>. HIDE DEF C, D, f, g
<1>6. SumFunctionOnSet(g, D) \in Nat /\ SumFunctionOnSet(g, D) <= SumFunctionOnSet(f, C)
    BY <1>1, <1>2, SumShrinks
<1>7. SumFunctionOnSet(f, C) \in Nat /\ DayCap \in Nat
    BY <1>1, SumType, ApiAssumption DEF ApiAssumption
<1>. QED BY <1>3, <1>4, <1>5, <1>6, <1>7

LEMMA SettleWithinCap ==
    ASSUME Ledger!TypeOK, Ledger!CapHolds, NEW i \in Intents,
           NEW status \in {"committed", "released"}, Ledger!Settle(i, status)
    PROVE  Ledger!CapHolds'
<1> SUFFICES ASSUME NEW d \in Ledger!Days PROVE (Ledger!UsedOnDay(Signer, d) <= DayCap)'
    BY DEF Ledger!CapHolds, Ledger!Days, Ledger!DayOf
<1>1. CASE Ledger!IsReserved(i)
    <2>1. /\ rows'[i] = [rows[i] EXCEPT !.status = status]
          /\ \A k \in Intents \ {i} : rows'[k] = rows[k]
        BY <1>1 DEF Ledger!Settle, Ledger!TypeOK
    <2>2. rows[i] \in Ledger!Row
        BY <1>1 DEF Ledger!TypeOK, Ledger!IsReserved, Ledger!HasStatus, Ledger!NoRow
    <2>3. /\ rows'[i].signer = rows[i].signer /\ rows'[i].day = rows[i].day
          /\ rows'[i].amount = rows[i].amount
        BY <2>1, <2>2 DEF Ledger!Row
    <2>4. \A k \in Ledger!Counted(Signer, d)' :
              k \in Ledger!Counted(Signer, d) /\ rows'[k].amount = rows[k].amount
        BY <1>1, <2>1, <2>3 DEF Ledger!Counted, Ledger!Live, Ledger!IsReserved, Ledger!HasStatus
    <2>. QED BY <2>4, DaySpendsNoMore
<1>2. CASE ~ Ledger!IsReserved(i)
    <2>1. \A k \in Ledger!Counted(Signer, d)' :
              k \in Ledger!Counted(Signer, d) /\ rows'[k].amount = rows[k].amount
        BY <1>2 DEF Ledger!Settle, Ledger!Counted, Ledger!Live, Ledger!HasStatus
    <2>. QED BY <2>1, DaySpendsNoMore
<1>. QED BY <1>1, <1>2

LEMMA ReserveWithinCap ==
    ASSUME Ledger!TypeOK, Ledger!CapHolds, NEW i \in Intents, NEW amount \in Amounts,
           NEW day \in Ledger!Days, Ledger!Reserve(i, Signer, day, amount)
    PROVE  Ledger!CapHolds'
<1> SUFFICES ASSUME NEW d \in Ledger!Days PROVE (Ledger!UsedOnDay(Signer, d) <= DayCap)'
    BY DEF Ledger!CapHolds, Ledger!Days, Ledger!DayOf
<1>1. CASE Ledger!ReserveResult(i, Signer, day, amount) # "ok"
    <2>1. \A k \in Ledger!Counted(Signer, d)' :
              k \in Ledger!Counted(Signer, d) /\ rows'[k].amount = rows[k].amount
        BY <1>1 DEF Ledger!Reserve, Ledger!Counted, Ledger!Live, Ledger!HasStatus
    <2>. QED BY <2>1, DaySpendsNoMore
<1>2. CASE Ledger!ReserveResult(i, Signer, day, amount) = "ok"
    <2>1. rows[i] = Ledger!NoRow /\ ~ (Ledger!UsedOnDay(Signer, day) + amount > DayCap)
        BY <1>2 DEF Ledger!ReserveResult
    <2>2. /\ rows'[i] = [status |-> "reserved", signer |-> Signer, day |-> day,
                         amount |-> amount, createdAt |-> now]
          /\ \A k \in Intents \ {i} : rows'[k] = rows[k]
        BY <1>2 DEF Ledger!Reserve, Ledger!InsertReserved, Ledger!TypeOK
    <2>3. i \notin Ledger!Counted(Signer, d)
        BY <2>1 DEF Ledger!Counted, Ledger!Live, Ledger!HasStatus, Ledger!NoRow
    <2>4. CASE d # day
        <3>1. \A k \in Ledger!Counted(Signer, d)' :
                  k \in Ledger!Counted(Signer, d) /\ rows'[k].amount = rows[k].amount
            BY <2>2, <2>4 DEF Ledger!Counted, Ledger!Live, Ledger!HasStatus
        <3>. QED BY <3>1, DaySpendsNoMore
    <2>5. CASE d = day
        <3> DEFINE C == Ledger!Counted(Signer, d)
                   D == Ledger!Counted(Signer, d)'
                   f == [k \in C |-> rows[k].amount]
                   g == [k \in D |-> rows'[k].amount]
        <3>1. IsFiniteSet(C) /\ \A k \in C : f[k] \in Nat
            BY CountedAmounts
        <3>2. D = C \cup {i}
            BY <2>2, <2>3, <2>5 DEF Ledger!Counted, Ledger!Live, Ledger!HasStatus
        <3>3. g[i] = amount /\ amount \in Nat /\ DayCap \in Nat
            BY <2>2, <3>2, ApiAssumption DEF ApiAssumption
        <3>4. \A k \in C : g[k] = f[k]
            BY <2>2, <2>3, <3>2 DEF Ledger!Counted
        <3>5. Ledger!UsedOnDay(Signer, d) = SumFunctionOnSet(f, C)
            BY LedgerSum DEF Ledger!UsedOnDay
        <3>6. Ledger!UsedOnDay(Signer, d)' = SumFunctionOnSet(g, D)
            BY LedgerSum DEF Ledger!UsedOnDay
        <3>7. i \notin C
            BY <2>3
        <3>. HIDE DEF C, D, f, g
        <3>8. SumFunctionOnSet(g, D) = SumFunctionOnSet(f, C) + g[i]
            BY <3>1, <3>2, <3>3, <3>4, <3>7, SumGrows
        <3>9. SumFunctionOnSet(f, C) \in Nat
            BY <3>1, SumType
        <3>. QED BY <2>1, <2>5, <3>3, <3>5, <3>6, <3>8, <3>9
    <2>. QED BY <2>4, <2>5
<1>. QED BY <1>1, <1>2

(* All a handler does to the table. *)
LEMMA HandlerLedger ==
    ASSUME IInv, NEW s \in Slots, Handler(s)
    PROVE  \/ \E i \in Intents, amount \in Amounts :
                Ledger!Reserve(i, Signer, Ledger!DayOf(now), amount)
           \/ \E i \in Intents, status \in {"committed", "released"} : Ledger!Settle(i, status)
           \/ UNCHANGED rows
<1>1. CASE \E i \in Intents : ValidateReserves(s, i)
    <2>1. PICK i \in Intents : ValidateReserves(s, i)
        BY <1>1
    <2>2. entry[i].body.amount \in Amounts
        BY <2>1, EntryTypes DEF ValidateReserves, Arrives, Entry, Body, IInv
    <2>. QED BY <2>1, <2>2 DEF ValidateReserves
<1>2. CASE MarkBody(s) \/ ConfirmFinalized(s) \/ RejectBody(s)
    <2>1. request[s].intent \in Intents
        BY <1>2, RequestTypes
           DEF MarkBody, ConfirmFinalized, RejectBody, Woken, At, InFlight, Idle, IInv
    <2>2. \/ UNCHANGED rows
          \/ Ledger!Commit(request[s].intent) \/ Ledger!Release(request[s].intent)
        BY <1>2 DEF MarkBody, ConfirmFinalized, RejectBody, SettleThenWait, NothingToSettle
    <2>. QED BY <2>1, <2>2 DEF Ledger!Commit, Ledger!Release
<1>3. CASE /\ ~ \E i \in Intents : ValidateReserves(s, i)
           /\ ~ (MarkBody(s) \/ ConfirmFinalized(s) \/ RejectBody(s))
    BY <1>3 DEF Handler, ValidateDenied, MarkArrives, ConfirmArrives, RejectArrives,
                ValidateEnds,
                MarkEnds, ConfirmBody, ConfirmFails, ConfirmEnds, RejectEnds, BodyRefused
<1>. QED BY <1>1, <1>2, <1>3

LEMMA CapUnchanged == ASSUME Ledger!CapHolds, UNCHANGED rows PROVE Ledger!CapHolds'
BY DEF Ledger!CapHolds, Ledger!Days, Ledger!DayOf, Ledger!UsedOnDay, Ledger!Counted,
       Ledger!Live, Ledger!HasStatus

LEMMA CapInit == Init => Ledger!CapHolds
<1> SUFFICES ASSUME Init, NEW d \in Ledger!Days PROVE Ledger!UsedOnDay(Signer, d) <= DayCap
    BY DEF Ledger!CapHolds
<1> DEFINE f == [i \in Ledger!Counted(Signer, d) |-> rows[i].amount]
<1>1. Ledger!Counted(Signer, d) = {}
    BY DEF Init, Ledger!Counted, Ledger!Live, Ledger!HasStatus, Ledger!NoRow
<1>2. Ledger!UsedOnDay(Signer, d) = SumFunctionOnSet(f, {})
    BY <1>1, LedgerSum DEF Ledger!UsedOnDay
<1>. HIDE DEF f
<1>3. Ledger!UsedOnDay(Signer, d) = 0
    BY <1>2, SumEmpty
<1>. QED BY <1>3, ApiAssumption DEF ApiAssumption

LEMMA CapStep == IInv /\ Ledger!CapHolds /\ [Next]_vars => Ledger!CapHolds'
<1> SUFFICES ASSUME IInv, Ledger!CapHolds, [Next]_vars PROVE Ledger!CapHolds'
    OBVIOUS
<1>1. Ledger!TypeOK
    BY DEF IInv, TypeOK
<1>2. Ledger!DayOf(now) \in Ledger!Days
    BY <1>1, ApiAssumption
       DEF ApiAssumption, Ledger!TypeOK, Ledger!Time, Ledger!Days, Ledger!DayOf
<1>3. ASSUME NEW s \in Slots, Handler(s) PROVE Ledger!CapHolds'
    BY <1>1, <1>2, <1>3, HandlerLedger, SettleWithinCap, ReserveWithinCap, CapUnchanged
<1>4. CASE UNCHANGED rows
    BY <1>4, CapUnchanged
<1>. QED BY <1>3, <1>4 DEF Next, Create, Restart, ChainDecides, Tick, vars

(* Whatever requests race, the table never holds more than the cap of a day. *)
THEOREM TableWithinCap == Spec => []Ledger!CapHolds
BY InvInit, InvStep, CapInit, CapStep, PTL DEF Spec

(* What was executed against a day's budget fits in the day's cap: the row   *)
(* of every execution is still committed, so it is counted.                  *)
LEMMA ExecutedFits ==
    ASSUME WaitingIInv, Ledger!CapHolds PROVE ExecutedWithinCap
<1> SUFFICES ASSUME NEW d \in Ledger!Days
             PROVE  SumFunction([i \in ExecutedOnDay(d) |-> rows[i].amount]) <= DayCap
    BY DEF ExecutedWithinCap
<1> DEFINE C == Ledger!Counted(Signer, d)
           D == ExecutedOnDay(d)
           f == [i \in C |-> rows[i].amount]
           g == [i \in D |-> rows[i].amount]
<1>1. Ledger!TypeOK
    BY DEF WaitingIInv, IInv, TypeOK
<1>2. IsFiniteSet(C) /\ \A i \in C : f[i] \in Nat
    BY <1>1, CountedAmounts
<1>3. D \in SUBSET C
    <2> SUFFICES ASSUME NEW i \in Intents, Executed(i), rows[i].day = d PROVE i \in C
        BY DEF ExecutedOnDay
    <2>1. rows[i].status = "committed"
        BY DEF WaitingIInv, WaitingInv, Follows, TraceFollows
    <2>2. rows[i] \in Ledger!Row
        BY <1>1, <2>1 DEF Ledger!TypeOK, Ledger!NoRow
    <2>. QED BY <2>1, <2>2 DEF Ledger!Row, Ledger!Counted, Ledger!Live, Ledger!HasStatus
<1>4. \A i \in D : g[i] = f[i]
    BY <1>3
<1>5. Ledger!UsedOnDay(Signer, d) = SumFunctionOnSet(f, C)
    BY LedgerSum DEF Ledger!UsedOnDay
<1>6. SumFunction(g) = SumFunctionOnSet(g, D)
    BY DEF SumFunction
<1>7. SumFunctionOnSet(f, C) <= DayCap
    BY <1>5 DEF Ledger!CapHolds
<1>8. SumFunction(g) <= DayCap
    <2>. HIDE DEF C, D, f, g
    <2>1. SumFunctionOnSet(g, D) \in Nat /\ SumFunctionOnSet(g, D) <= SumFunctionOnSet(f, C)
        BY <1>2, <1>3, <1>4, SumShrinks
    <2>2. SumFunctionOnSet(f, C) \in Nat /\ DayCap \in Nat
        BY <1>2, SumType, ApiAssumption DEF ApiAssumption
    <2>. QED BY <1>6, <1>7, <2>1, <2>2
<1>. QED BY <1>8

(* What was executed against a day's budget fits in the day's cap, as long   *)
(* as clients wait: a racing reject gives an executed budget back.           *)
THEOREM ExecutionsWithinCap == ASSUME OneRequestPerIntent PROVE Spec => []ExecutedWithinCap
BY WaitingInvariant, TableWithinCap, ExecutedFits, PTL
=============================================================================
