------------------------ MODULE IntentConsoleProofs ------------------------
(***************************************************************************)
(* The page of one intent, for any number of tabs, jobs and transactions:    *)
(* what the wallet reported is kept, a page says verified only of what is on *)
(* record, and an undisturbed user pays once and finds the payment there.    *)
(*                                                                          *)
(* A reported hash is with the one job that was handed it (KeptInv).  What   *)
(* a page shows is a prefix of the rows; the rows' own laws (RowsInv), what  *)
(* a stopped poll has seen (PollInv) and that the API answers well only what *)
(* is executed (AnswerInv) make it true.                                     *)
(*                                                                          *)
(* Nothing in the code keeps two co-signs apart except a tab's busy flag, so *)
(* paying once is an invariant of the undisturbed runs alone (PaidInv, under *)
(* `smooth`): one job at a time, its page busy or left (OneJob); a job that  *)
(* may still be paid or confirmed is of an intent the API holds validated,   *)
(* so that nothing is on record yet (JobInv, FreshInv); and the one          *)
(* broadcast transaction is carried by that job or on record (ChainInv).  A  *)
(* job in the wallet's popup has no hash yet, so none can have gone out      *)
(* (PopupIsFirst).  Leaving the page disturbs none of this: the job goes on. *)
(***************************************************************************)
EXTENDS IntentConsole, SumLaws, TLAPS

Ops == {"validate", "mark", "reject", "sign"}
Calls == {"validate", "mark", "reject", "confirm"}
Statuses == {None, "verified"}
JobRow == [op : {"sign", "mark", "validate", "reject"}, tab : Tabs, hash : Hashes \cup {None},
           mounted : BOOLEAN, pc : {"build", "popup", "handed", "confirm", "call"}]
TabRow == [poll : {"asked", "sleeping", "stopped", "gone"}, shown : Nat,
           missing : BOOLEAN, busy : BOOLEAN, status : {None, "verified"}]
Requested == [op : Calls, pc : {"sent", "node", "ok", "error"},
              hash : Hashes \cup {None, OtherHash}]

LEMMA TypeInit == Init => TypeOK
<1> SUFFICES ASSUME Init PROVE TypeOK
    OBVIOUS
<1>1. RowOf("DRAFT", None) \in Row /\ RowOf("POLICY_VALIDATED", None) \in Row
    BY DEF RowOf, Row
<1>2. trace \in Seq(Row) /\ trace # <<>>
    <2>1. \A r, s \in Row : <<r>> \in Seq(Row) /\ <<r, s>> \in Seq(Row)
        OBVIOUS
    <2>2. PICK r \in Row, s \in Row : trace = <<r>> \/ trace = <<r, s>>
        BY <1>1 DEF Init
    <2>3. trace \in Seq(Row)
        BY <2>1, <2>2
    <2>4. Len(trace) # 0
        BY <2>2
    <2>. QED BY <2>3, <2>4
<1>3. tab \in [Tabs -> TabRow]
    BY DEF Init, TabRow, Fresh
<1>. QED BY <1>2, <1>3 DEF Init, TypeOK, TabRow

(* A job that runs has a row of its own, with a tab. *)
LEMMA RunningRow ==
    ASSUME TypeOK, NEW j \in Jobs, Running(j)
    PROVE  job[j] \in JobRow /\ job[j].tab \in Tabs
<1>1. job[j] \notin {New, Over}
    BY DEF Running, New, Over
<1>2. job[j] \in JobRow
    BY <1>1 DEF TypeOK, JobRow
<1>. QED BY <1>2 DEF JobRow

(* What a tab shows, apart from its actions, is the same. *)
SameView(t) ==
    /\ tab'[t].poll = tab[t].poll /\ tab'[t].shown = tab[t].shown
    /\ tab'[t].missing = tab[t].missing

LEMMA EndTypes ==
    ASSUME TypeOK, NEW j \in Jobs, Running(j), NEW status \in Statuses, EndJob(j, status)
    PROVE  /\ job' \in [Jobs -> {New, Over} \cup JobRow]
           /\ job'[j] = Over
           /\ \A k \in Jobs \ {j} : job'[k] = job[k]
           /\ tab' \in [Tabs -> TabRow]
           /\ SameView(job[j].tab)
           /\ tab'[job[j].tab].status \in {status, tab[job[j].tab].status}
           /\ \A u \in Tabs \ {job[j].tab} : tab'[u] = tab[u]
<1>1. /\ job \in [Jobs -> {New, Over} \cup JobRow]
      /\ tab \in [Tabs -> TabRow]
    BY DEF TypeOK, JobRow, TabRow
<1>2. PICK t \in Tabs : t = job[j].tab
    BY RunningRow
<1>3. tab[t] \in TabRow
    BY <1>1
<1>4. [tab[t] EXCEPT !.busy = FALSE, !.status = status] \in TabRow
    BY <1>3 DEF TabRow, Statuses
<1>5. /\ job' = [job EXCEPT ![j] = Over]
      /\ \/ UNCHANGED tab
         \/ tab' = [tab EXCEPT ![t] = [tab[t] EXCEPT !.busy = FALSE, !.status = status]]
    BY <1>1, <1>2, <1>3 DEF EndJob, TabRow
<1>6. tab'[t] \in {tab[t], [tab[t] EXCEPT !.busy = FALSE, !.status = status]}
    BY <1>1, <1>5
<1>7. SameView(t) /\ tab'[t].status \in {status, tab[t].status}
    BY <1>3, <1>6 DEF SameView, TabRow
<1>8. /\ tab' \in [Tabs -> TabRow] /\ job' \in [Jobs -> {New, Over} \cup JobRow]
    BY <1>1, <1>4, <1>5
<1>9. /\ job'[j] = Over
      /\ \A k \in Jobs \ {j} : job'[k] = job[k]
      /\ \A u \in Tabs \ {t} : tab'[u] = tab[u]
    BY <1>1, <1>5
<1>. QED BY <1>2, <1>7, <1>8, <1>9

LEMMA StatusTypes ==
    ASSUME TypeOK
    PROVE  /\ \A t \in Tabs : tab[t].status \in Statuses
           /\ \A j \in Jobs : Running(j) => StatusOf(j) \in Statuses
<1>1. \A t \in Tabs : tab[t] \in TabRow
    BY DEF TypeOK, TabRow
<1>2. \A t \in Tabs : tab[t].status \in Statuses
    BY <1>1 DEF TabRow, Statuses
<1>. QED BY <1>2, RunningRow DEF StatusOf

LEMMA Appended ==
    ASSUME TypeOK, NEW row \in Row, Record(row)
    PROVE  /\ trace' \in Seq(Row) /\ trace' # <<>>
           /\ Len(trace') = Len(trace) + 1
           /\ \A k \in 1 .. Len(trace) : trace'[k] = trace[k]
           /\ trace'[Len(trace')] = row
BY DEF TypeOK, Record

-----------------------------------------------------------------------------
(* Who writes what. *)
TraceStep(j) == ServeValidate(j) \/ ServeMark(j) \/ ServeReject(j) \/ ConfirmFinalized(j)

LEMMA TraceFrame ==
    ASSUME [Next]_vars
    PROVE  UNCHANGED trace \/ \E j \in Jobs : TraceStep(j)
BY DEF Next, vars, api, history, Polling, PollAnswered, PollFails, PollAgain, LeavePage,
       OpenPage, CloseTab, Click, ClickSign, ClickMark, ClickValidate, ClickReject, JobStep,
       BuildAnswered, BuildRefused, Cancel, SendFails, BroadcastUnanswered, BroadcastReported,
       ConfirmSent, Answered, AnswerLost, ApiStep, ServeConfirm, ConfirmFails, Restart, TraceStep

ChainStep(j, h) == BroadcastUnanswered(j, h) \/ BroadcastReported(j, h)

LEMMA ChainFrame ==
    ASSUME [Next]_vars
    PROVE  UNCHANGED chain \/ \E j \in Jobs, h \in Hashes : ChainStep(j, h)
BY DEF Next, vars, Polling, PollAnswered, PollFails, PollAgain, LeavePage, OpenPage,
       CloseTab, Click, ClickSign, ClickMark, ClickValidate, ClickReject, JobStep, BuildAnswered,
       BuildRefused, Cancel, SendFails, ConfirmSent, Answered, AnswerLost,
       ApiStep, ServeValidate, ServeMark, ServeReject, Serve, ServeConfirm, ConfirmFinalized,
       ConfirmFails, Restart, ChainStep

(* The row of a job that begins. *)
Started(op, pc, t) == [op |-> op, pc |-> pc, tab |-> t, hash |-> None, mounted |-> TRUE]

LEMMA Begun ==
    ASSUME TypeOK, NEW j \in Jobs, NEW t \in Tabs, Click(j, t)
    PROVE  \E op \in Ops, pc \in {"build", "call"}, status \in {None, tab[t].status} :
            /\ Begin(j, t, op, pc, status)
            /\ op = "sign" <=> pc = "build"
            /\ pc = "build" => UNCHANGED request
            /\ pc = "call" => \E hash \in Hashes \cup {None, OtherHash} :
                    Post(j, op, hash) /\ (op = "mark" => hash # None)
<1>1. CASE ClickSign(j, t)
    BY <1>1 DEF ClickSign, Ops, api
<1>2. CASE \E hash \in Hashes \cup {OtherHash} : ClickMark(j, t, hash)
    <2>1. PICK hash \in Hashes \cup {OtherHash} : ClickMark(j, t, hash)
        BY <1>2
    <2>2. hash # None
        BY ConsoleAssumption DEF ConsoleAssumption, None, OtherHash
    <2>. QED BY <2>1, <2>2 DEF ClickMark, Ops
<1>3. CASE ClickValidate(j, t)
    BY <1>3 DEF ClickValidate, Ops
<1>4. CASE ClickReject(j, t)
    BY <1>4 DEF ClickReject, Ops
<1>. QED BY <1>1, <1>2, <1>3, <1>4 DEF Click

LEMMA Clicked ==
    ASSUME TypeOK, NEW j \in Jobs, NEW t \in Tabs, Click(j, t)
    PROVE  /\ job[j].pc = "new" /\ UNCHANGED <<known, trace, chain, toConfirm>>
           /\ \A k \in Jobs \ {j} : job'[k] = job[k] /\ request'[k] = request[k]
           /\ \E op \in Ops, pc \in {"build", "call"}, status \in {None, tab[t].status} :
                /\ job'[j] = Started(op, pc, t)
                /\ SameView(t) /\ tab'[t].busy /\ tab'[t].status = status
                /\ op = "sign" <=> pc = "build"
                /\ pc = "build" => UNCHANGED request
                /\ pc = "call" => \E hash \in Hashes \cup {None, OtherHash} :
                        /\ request'[j] = [op |-> op, pc |-> "sent", hash |-> hash]
                        /\ op = "mark" => hash # None
           /\ \A u \in Tabs \ {t} : tab'[u] = tab[u]
           /\ job' \in [Jobs -> {New, Over} \cup JobRow] /\ tab' \in [Tabs -> TabRow]
<1>1. PICK op \in Ops, pc \in {"build", "call"}, status \in {None, tab[t].status} :
        /\ Begin(j, t, op, pc, status)
        /\ op = "sign" <=> pc = "build"
        /\ pc = "build" => UNCHANGED request
        /\ pc = "call" => \E hash \in Hashes \cup {None, OtherHash} :
                Post(j, op, hash) /\ (op = "mark" => hash # None)
    BY Begun
<1>2. /\ job \in [Jobs -> {New, Over} \cup JobRow]
      /\ tab \in [Tabs -> TabRow]
    BY DEF TypeOK, JobRow, TabRow
<1>3. status \in Statuses
    BY StatusTypes DEF Statuses
<1>4. Started(op, pc, t) \in JobRow
    BY DEF JobRow, Ops, Started
<1>5. tab[t] \in TabRow
    BY <1>2
<1>6. [tab[t] EXCEPT !.busy = TRUE, !.status = status] \in TabRow
    BY <1>3, <1>5 DEF TabRow, Statuses
<1>7. /\ job' = [job EXCEPT ![j] = Started(op, pc, t)]
      /\ tab' = [tab EXCEPT ![t] = [tab[t] EXCEPT !.busy = TRUE, !.status = status]]
    BY <1>1, <1>2, <1>5 DEF Begin, TabRow, Started
<1>8. tab'[t] = [tab[t] EXCEPT !.busy = TRUE, !.status = status]
    BY <1>2, <1>7
<1>9. SameView(t) /\ tab'[t].busy /\ tab'[t].status = status
    BY <1>5, <1>8 DEF SameView, TabRow
<1>10. /\ tab' \in [Tabs -> TabRow] /\ job' \in [Jobs -> {New, Over} \cup JobRow]
    BY <1>2, <1>4, <1>6, <1>7
<1>11. /\ job'[j] = Started(op, pc, t)
       /\ \A k \in Jobs \ {j} : job'[k] = job[k]
       /\ \A u \in Tabs \ {t} : tab'[u] = tab[u]
    BY <1>2, <1>7
<1>12. /\ \A k \in Jobs \ {j} : request'[k] = request[k]
       /\ pc = "call" => \E hash \in Hashes \cup {None, OtherHash} :
            /\ request'[j] = [op |-> op, pc |-> "sent", hash |-> hash]
            /\ op = "mark" => hash # None
    BY <1>1 DEF Post, TypeOK
<1>13. job[j].pc = "new" /\ UNCHANGED <<known, trace, chain, toConfirm>>
    BY DEF Click, ClickSign, ClickMark, ClickValidate, ClickReject, Begin, api
<1>. QED BY <1>1, <1>9, <1>10, <1>11, <1>12, <1>13

EndStep(j) ==
    \/ BuildRefused(j) \/ Cancel(j) \/ SendFails(j) \/ Answered(j) \/ AnswerLost(j)
    \/ \E h \in Hashes : BroadcastUnanswered(j, h)

LEMMA Ended ==
    ASSUME TypeOK, NEW j \in Jobs, EndStep(j)
    PROVE  \E status \in Statuses :
            /\ Running(j) /\ job[j].pc # "handed" /\ EndJob(j, status)
            /\ \/ status \in {None, StatusOf(j)}
               \/ job[j].op = "sign" /\ request[j].pc = "ok" /\ Awaits(j)
<1>1. CASE BuildRefused(j)
    <2>1. Running(j) /\ job[j].pc # "handed" /\ EndJob(j, StatusOf(j))
        BY <1>1 DEF BuildRefused, EndInError, Running
    <2>. QED BY <2>1, StatusTypes
<1>2. CASE Cancel(j) \/ SendFails(j) \/ \E h \in Hashes : BroadcastUnanswered(j, h)
    <2>1. Running(j) /\ job[j].pc # "handed" /\ EndJob(j, None)
        BY <1>2 DEF Cancel, SendFails, BroadcastUnanswered, Signed, EndInError, Running
    <2>. QED BY <2>1 DEF Statuses
<1>3. CASE Answered(j)
    <2>1. Running(j) /\ job[j].pc # "handed" /\ Awaits(j)
        BY <1>3 DEF Answered, Awaits, Running
    <2>2. \/ request[j].pc = "ok"
                /\ EndJob(j, IF job[j].op = "sign" THEN "verified" ELSE StatusOf(j))
          \/ EndJob(j, StatusOf(j))
        BY <1>3 DEF Answered, EndInError
    <2>. QED BY <2>1, <2>2, StatusTypes DEF Statuses
<1>4. CASE AnswerLost(j)
    <2>1. Running(j) /\ job[j].pc # "handed" /\ EndJob(j, StatusOf(j))
        BY <1>4 DEF AnswerLost, Awaits, EndInError, Running
    <2>. QED BY <2>1, StatusTypes
<1>. QED BY <1>1, <1>2, <1>3, <1>4 DEF EndStep

(* A step inside a job: its tab sees nothing of it. *)
MoveStep(j) ==
    BuildAnswered(j) \/ ConfirmSent(j) \/ \E h \in Hashes : BroadcastReported(j, h)

LEMMA Moved ==
    ASSUME TypeOK, NEW j \in Jobs, MoveStep(j)
    PROVE  /\ Running(j) /\ UNCHANGED tab
           /\ job' \in [Jobs -> {New, Over} \cup JobRow]
           /\ job'[j] \in JobRow
           /\ job'[j].tab = job[j].tab /\ job'[j].op = job[j].op
           /\ \A k \in Jobs \ {j} : job'[k] = job[k]
<1>1. job \in [Jobs -> {New, Over} \cup JobRow]
    BY DEF TypeOK, JobRow
<1>2. Running(j) /\ UNCHANGED tab
    BY DEF MoveStep, BuildAnswered, ConfirmSent, BroadcastReported, Signed, Running
<1>3. job[j] \in JobRow
    BY <1>2, RunningRow
<1>4. \E pc \in {"popup", "handed", "confirm"}, hash \in Hashes \cup {None} :
        job' = [job EXCEPT ![j] = [job[j] EXCEPT !.pc = pc, !.hash = hash]]
    <2>1. CASE BuildAnswered(j) \/ ConfirmSent(j)
        <3>1. PICK pc \in {"popup", "confirm"} : job' = [job EXCEPT ![j].pc = pc]
            BY <2>1 DEF BuildAnswered, ConfirmSent
        <3>2. [job[j] EXCEPT !.pc = pc] = [job[j] EXCEPT !.pc = pc, !.hash = job[j].hash]
            BY <1>3 DEF JobRow
        <3>3. job[j].hash \in Hashes \cup {None}
            BY <1>3 DEF JobRow
        <3>. QED BY <3>1, <3>2, <3>3
    <2>2. CASE \E h \in Hashes : BroadcastReported(j, h)
        <3>1. PICK h \in Hashes : job' = [job EXCEPT ![j].pc = "handed", ![j].hash = h]
            BY <2>2 DEF BroadcastReported
        <3>2. job' = [job EXCEPT ![j] = [job[j] EXCEPT !.pc = "handed", !.hash = h]]
            BY <1>1, <1>3, <3>1 DEF JobRow
        <3>. QED BY <3>2
    <2>. QED BY <2>1, <2>2 DEF MoveStep
<1>5. PICK pc \in {"popup", "handed", "confirm"}, hash \in Hashes \cup {None} :
        job' = [job EXCEPT ![j] = [job[j] EXCEPT !.pc = pc, !.hash = hash]]
    BY <1>4
<1>6. [job[j] EXCEPT !.pc = pc, !.hash = hash] \in JobRow
    BY <1>3 DEF JobRow
<1>7. job'[j] = [job[j] EXCEPT !.pc = pc, !.hash = hash]
    BY <1>1, <1>5
<1>8. job'[j].tab = job[j].tab /\ job'[j].op = job[j].op
    BY <1>3, <1>7 DEF JobRow
<1>. QED BY <1>1, <1>2, <1>5, <1>6, <1>7, <1>8

-----------------------------------------------------------------------------
LEMMA ServedRow ==
    ASSUME TypeOK, NEW j \in Jobs, TraceStep(j)
    PROVE  \/ UNCHANGED trace
           \/ \E row \in Row :
                /\ Record(row)
                /\ \/ At(j, "validate", "sent") /\ ApiState = "DRAFT"
                        /\ row.state \in {"POLICY_VALIDATED", "REJECTED"}
                        /\ row.hash = None /\ row.hashKind = None
                   \/ At(j, "reject", "sent") /\ row = RowOf("REJECTED", None)
                   \/ At(j, "mark", "sent") /\ row = RowOf("EXECUTED", request[j].hash)
                   \/ At(j, "confirm", "node") /\ row = Confirmed(request[j].hash)
                        /\ chain[request[j].hash] = "success"
<1>1. NoRequest.op = "none"
    BY DEF NoRequest
<1>2. request[j].op # "none" => request[j].hash \in Hashes \cup {None, OtherHash}
    BY <1>1 DEF TypeOK
<1>3. CASE ServeValidate(j)
    <2>1. \A s \in {"POLICY_VALIDATED", "REJECTED"} :
            /\ RowOf(s, None) \in Row
            /\ RowOf(s, None).state = s
            /\ RowOf(s, None).hash = None /\ RowOf(s, None).hashKind = None
        BY DEF RowOf, Row
    <2>. QED BY <1>3, <2>1 DEF ServeValidate, Serve
<1>4. CASE ServeReject(j)
    <2>1. RowOf("REJECTED", None) \in Row
        BY DEF RowOf, Row
    <2>. QED BY <1>4, <2>1 DEF ServeReject, Serve
<1>5. CASE ServeMark(j)
    <2>1. request[j].op # "none"
        BY <1>5 DEF ServeMark, Serve, At
    <2>2. RowOf("EXECUTED", request[j].hash) \in Row
        BY <1>2, <2>1 DEF RowOf, Row
    <2>. QED BY <1>5, <2>2 DEF ServeMark, Serve
<1>6. CASE ConfirmFinalized(j)
    <2>1. request[j].op # "none"
        BY <1>6 DEF ConfirmFinalized, At
    <2>2. Confirmed(request[j].hash) \in Row
        BY <1>2, <2>1 DEF Confirmed, RowOf, Row
    <2>. QED BY <1>6, <2>2 DEF ConfirmFinalized
<1>. QED BY <1>3, <1>4, <1>5, <1>6 DEF TraceStep

(* The trace only grows. *)
LEMMA TraceGrows ==
    ASSUME TypeOK, [Next]_vars
    PROVE  /\ trace' \in Seq(Row) /\ trace' # <<>>
           /\ Len(trace) \in Nat \ {0} /\ Len(trace') \in Nat /\ Len(trace') >= Len(trace)
           /\ \A k \in 1 .. Len(trace) : trace'[k] = trace[k]
<1>1. Len(trace) \in Nat \ {0}
    BY DEF TypeOK
<1>2. CASE UNCHANGED trace
    BY <1>1, <1>2 DEF TypeOK
<1>3. CASE \E row \in Row : Record(row)
    BY <1>1, <1>3, Appended
<1>. QED BY <1>2, <1>3, TraceFrame, ServedRow

LEMMA RequestTypes ==
    ASSUME TypeOK, [Next]_vars
    PROVE  request' \in [Jobs -> {NoRequest} \cup Requested]
<1>1. request \in [Jobs -> {NoRequest} \cup Requested]
    BY DEF TypeOK, Requested, Calls
<1>2. ASSUME NEW j \in Jobs, NEW t \in Tabs, Click(j, t)
      PROVE  request' \in [Jobs -> {NoRequest} \cup Requested]
    <2>1. PICK op \in Ops, pc \in {"build", "call"} :
            /\ op = "sign" <=> pc = "build"
            /\ pc = "build" => UNCHANGED request
            /\ pc = "call" => \E hash \in Hashes \cup {None, OtherHash} : Post(j, op, hash)
        BY <1>2, Begun
    <2>2. ASSUME NEW hash \in Hashes \cup {None, OtherHash}, op # "sign"
          PROVE  [op |-> op, pc |-> "sent", hash |-> hash] \in Requested
        BY <2>2 DEF Requested, Calls, Ops
    <2>. QED BY <1>1, <2>1, <2>2 DEF Post
<1>3. ASSUME NEW j \in Jobs, ConfirmSent(j) PROVE request' \in [Jobs -> {NoRequest} \cup Requested]
    <2>1. job[j].hash \in Hashes \cup {None}
        BY <1>3, RunningRow DEF ConfirmSent, Running, JobRow
    <2>2. [op |-> "confirm", pc |-> "sent", hash |-> job[j].hash] \in Requested
        BY <2>1 DEF Requested, Calls
    <2>. QED BY <1>1, <1>3, <2>2 DEF ConfirmSent, Post
<1>4. ASSUME NEW j \in Jobs, NEW pc \in {"node", "ok", "error"},
             Reply(j, pc), request[j].op # "none"
      PROVE  request' \in [Jobs -> {NoRequest} \cup Requested]
    <2>1. request[j] \in Requested
        BY <1>1, <1>4 DEF NoRequest
    <2>2. [request[j] EXCEPT !.pc = pc] \in Requested
        BY <2>1 DEF Requested
    <2>. QED BY <1>1, <1>4, <2>2 DEF Reply
<1>5. ASSUME NEW j \in Jobs, ApiStep(j) PROVE request' \in [Jobs -> {NoRequest} \cup Requested]
    <2>1. request[j].op # "none" /\ \E pc \in {"node", "ok", "error"} : Reply(j, pc)
        BY <1>5 DEF ApiStep, ServeValidate, ServeMark, ServeReject, Serve, ServeConfirm,
                    ConfirmFinalized, ConfirmFails, At
    <2>. QED BY <1>4, <2>1
<1>6. CASE Restart
    <2>1. \A j \in Jobs : request[j] # NoRequest => [request[j] EXCEPT !.pc = "error"] \in Requested
        BY <1>1 DEF Requested
    <2>. QED BY <1>6, <2>1 DEF Restart
<1>7. ASSUME NEW j \in Jobs, Answered(j) PROVE request' \in [Jobs -> {NoRequest} \cup Requested]
    BY <1>1, <1>7 DEF Answered
<1>8. CASE UNCHANGED request
    BY <1>1, <1>8
<1>9. \/ \E j \in Jobs, t \in Tabs : Click(j, t)
      \/ \E j \in Jobs : ConfirmSent(j) \/ ApiStep(j) \/ Answered(j)
      \/ Restart \/ UNCHANGED request
    BY DEF Next, vars, api, Polling, PollAnswered, PollFails, PollAgain, LeavePage, OpenPage,
           CloseTab, JobStep, BuildAnswered, BuildRefused, Cancel, SendFails, BroadcastUnanswered,
           BroadcastReported, AnswerLost
<1>. QED BY <1>2, <1>3, <1>5, <1>6, <1>7, <1>8, <1>9

LEMMA TabTypes ==
    ASSUME TypeOK, NEW t \in Tabs, Polling(t)
    PROVE  tab' \in [Tabs -> TabRow]
<1>1. tab \in [Tabs -> TabRow] /\ Len(trace) \in Nat
    BY DEF TypeOK, TabRow
<1>2. \A poll \in {"asked", "sleeping", "stopped", "gone"}, shown \in Nat, missing \in BOOLEAN :
        /\ [tab[t] EXCEPT !.poll = poll] \in TabRow
        /\ [tab[t] EXCEPT !.shown = shown, !.poll = poll] \in TabRow
        /\ [tab[t] EXCEPT !.poll = poll, !.missing = missing] \in TabRow
    BY <1>1 DEF TabRow
<1>3. ASSUME NEW row \in TabRow, tab' = [tab EXCEPT ![t] = row]
      PROVE  tab' \in [Tabs -> TabRow]
    BY <1>1, <1>3
<1>4. CASE \E poll \in {"asked", "sleeping", "stopped", "gone"} :
                tab' = [tab EXCEPT ![t].poll = poll]
    <2>1. PICK poll \in {"asked", "sleeping", "stopped", "gone"} :
                tab' = [tab EXCEPT ![t].poll = poll]
        BY <1>4
    <2>2. tab' = [tab EXCEPT ![t] = [tab[t] EXCEPT !.poll = poll]]
        BY <2>1
    <2>. QED BY <1>2, <1>3, <2>2
<1>5. CASE \E poll \in {"asked", "sleeping", "stopped", "gone"} :
                tab' = [tab EXCEPT ![t].shown = Len(trace), ![t].poll = poll]
    <2>1. PICK poll \in {"asked", "sleeping", "stopped", "gone"} :
                tab' = [tab EXCEPT ![t].shown = Len(trace), ![t].poll = poll]
        BY <1>5
    <2>2. tab' = [tab EXCEPT ![t] = [tab[t] EXCEPT !.shown = Len(trace), !.poll = poll]]
        BY <1>1, <2>1
    <2>. QED BY <1>1, <1>2, <1>3, <2>2
<1>6. CASE \E poll \in {"asked", "sleeping", "stopped", "gone"} :
                tab' = [tab EXCEPT ![t].poll = poll, ![t].missing = TRUE]
    <2>1. PICK poll \in {"asked", "sleeping", "stopped", "gone"} :
                tab' = [tab EXCEPT ![t].poll = poll, ![t].missing = TRUE]
        BY <1>6
    <2>2. tab' = [tab EXCEPT ![t] = [tab[t] EXCEPT !.poll = poll, !.missing = TRUE]]
        BY <1>1, <2>1
    <2>. QED BY <1>2, <1>3, <2>2
<1>7. \E poll \in {"asked", "sleeping", "stopped", "gone"} :
        \/ tab' = [tab EXCEPT ![t].poll = poll]
        \/ tab' = [tab EXCEPT ![t].shown = Len(trace), ![t].poll = poll]
        \/ tab' = [tab EXCEPT ![t].poll = poll, ![t].missing = TRUE]
    BY DEF Polling, PollAnswered, PollFails, PollAgain
<1>. QED BY <1>4, <1>5, <1>6, <1>7

(* The user leaves the page, comes back or closes the tab. *)
Navigation(t) == LeavePage(t) \/ OpenPage(t) \/ CloseTab(t)

(* A job goes on as it was, its page mounted or not. *)
GoesOn(j) ==
    /\ job'[j].pc = job[j].pc /\ job'[j].op = job[j].op
    /\ job'[j].tab = job[j].tab /\ job'[j].hash = job[j].hash

LEMMA Navigated ==
    ASSUME TypeOK, NEW t \in Tabs, Navigation(t)
    PROVE  /\ UNCHANGED <<api, chain>>
           /\ tab' \in [Tabs -> TabRow] /\ tab'[t] \in {Fresh, Gone}
           /\ \A u \in Tabs \ {t} : tab'[u] = tab[u]
           /\ job' \in [Jobs -> {New, Over} \cup JobRow]
           /\ \A j \in Jobs : job'[j] = Over \/ GoesOn(j)
           /\ ~ CloseTab(t) => UNCHANGED toConfirm /\ \A j \in Jobs : GoesOn(j)
<1>1. tab \in [Tabs -> TabRow] /\ job \in [Jobs -> {New, Over} \cup JobRow]
    BY DEF TypeOK, TabRow, JobRow
<1>2. Fresh \in TabRow /\ Gone \in TabRow
    BY DEF Fresh, Gone, TabRow
<1>3. /\ UNCHANGED <<api, chain>>
      /\ tab' = [tab EXCEPT ![t] = Fresh] \/ tab' = [tab EXCEPT ![t] = Gone]
    BY DEF Navigation, LeavePage, OpenPage, CloseTab
<1>4. /\ tab' \in [Tabs -> TabRow] /\ tab'[t] \in {Fresh, Gone}
      /\ \A u \in Tabs \ {t} : tab'[u] = tab[u]
    BY <1>1, <1>2, <1>3
<1>5. CASE LeavePage(t)
    <2>1. ASSUME NEW j \in Jobs
          PROVE  job'[j] \in {New, Over} \cup JobRow /\ GoesOn(j)
        <3>1. CASE j \in JobsOf(t)
            <4>1. job[j] \in JobRow
                BY <3>1, RunningRow DEF JobsOf
            <4>2. job'[j] = [job[j] EXCEPT !.mounted = FALSE]
                BY <1>5, <3>1 DEF LeavePage
            <4>. QED BY <4>1, <4>2 DEF JobRow, GoesOn
        <3>2. CASE j \notin JobsOf(t)
            <4>1. job'[j] = job[j]
                BY <1>5, <3>2 DEF LeavePage
            <4>. QED BY <1>1, <4>1 DEF GoesOn
        <3>. QED BY <3>1, <3>2
    <2>2. /\ job' = [j \in Jobs |-> IF j \in JobsOf(t) THEN [job[j] EXCEPT !.mounted = FALSE]
                                    ELSE job[j]]
          /\ UNCHANGED toConfirm
        BY <1>5 DEF LeavePage, history
    <2>3. job' \in [Jobs -> {New, Over} \cup JobRow]
        BY <2>1, <2>2
    <2>. QED BY <1>3, <1>4, <2>1, <2>2, <2>3
<1>6. CASE OpenPage(t)
    BY <1>1, <1>3, <1>4, <1>6 DEF OpenPage, GoesOn
<1>7. CASE CloseTab(t)
    <2>1. job' = [j \in Jobs |-> IF j \in JobsOf(t) THEN Over ELSE job[j]]
        BY <1>7 DEF CloseTab
    <2>2. \A j \in Jobs : job'[j] = Over \/ GoesOn(j)
        BY <2>1 DEF GoesOn
    <2>. QED BY <1>1, <1>3, <1>4, <1>7, <2>1, <2>2
<1>. QED BY <1>5, <1>6, <1>7 DEF Navigation

(* What a page shows that was just mounted, or none. *)
LEMMA BlankRow ==
    ASSUME NEW row \in {Fresh, Gone}
    PROVE  /\ row.shown = 0 /\ ~ row.missing /\ ~ row.busy /\ row.status = None
           /\ row.poll \in {"asked", "gone"}
BY DEF Fresh, Gone

LEMMA TypeStep == TypeOK /\ [Next]_vars => TypeOK'
<1> SUFFICES ASSUME TypeOK, [Next]_vars PROVE TypeOK'
    OBVIOUS
<1>1. trace' \in Seq(Row) /\ trace' # <<>>
    BY TraceGrows
<1>2. request' \in [Jobs -> {NoRequest} \cup Requested]
    BY RequestTypes
<1>3. chain' \in [Hashes -> {None, "success", "reverted"}]
    <2>1. chain \in [Hashes -> {None, "success", "reverted"}]
        BY DEF TypeOK
    <2>2. \/ UNCHANGED chain
          \/ \E h \in Hashes, fate \in {"success", "reverted"} :
                chain' = [chain EXCEPT ![h] = fate]
        BY ChainFrame DEF ChainStep, BroadcastUnanswered, BroadcastReported, Signed
    <2>. QED BY <2>1, <2>2
<1>4. /\ known' \in BOOLEAN /\ smooth' \in BOOLEAN /\ toConfirm' \subseteq Hashes
    BY DEF TypeOK, Next, vars, api, history, Polling, PollAnswered, PollFails, PollAgain,
           LeavePage, OpenPage, CloseTab, Click, ClickSign, ClickMark, ClickValidate,
           ClickReject, JobStep, BuildAnswered, BuildRefused, Cancel, SendFails,
           BroadcastUnanswered, BroadcastReported, ConfirmSent, Answered, AnswerLost,
           EndInError, ApiStep, ServeValidate, ServeMark, ServeReject, Serve, ServeConfirm, ConfirmFinalized,
           ConfirmFails, Restart
<1>5. tab' \in [Tabs -> TabRow] /\ job' \in [Jobs -> {New, Over} \cup JobRow]
    <2>1. tab \in [Tabs -> TabRow] /\ job \in [Jobs -> {New, Over} \cup JobRow]
        BY DEF TypeOK, TabRow, JobRow
    <2>2. ASSUME NEW t \in Tabs, Polling(t) PROVE tab' \in [Tabs -> TabRow]
        BY <2>2, TabTypes
    <2>3. ASSUME NEW t \in Tabs, Navigation(t)
          PROVE  tab' \in [Tabs -> TabRow] /\ job' \in [Jobs -> {New, Over} \cup JobRow]
        BY <2>3, Navigated
    <2>4. ASSUME NEW j \in Jobs, NEW t \in Tabs, Click(j, t)
          PROVE  tab' \in [Tabs -> TabRow] /\ job' \in [Jobs -> {New, Over} \cup JobRow]
        BY <2>4, Clicked
    <2>5. ASSUME NEW j \in Jobs, EndStep(j)
          PROVE  tab' \in [Tabs -> TabRow] /\ job' \in [Jobs -> {New, Over} \cup JobRow]
        BY <2>5, Ended, EndTypes
    <2>6. ASSUME NEW j \in Jobs, MoveStep(j)
          PROVE  tab' \in [Tabs -> TabRow] /\ job' \in [Jobs -> {New, Over} \cup JobRow]
        BY <2>1, <2>6, Moved
    <2>7. \/ \E t \in Tabs : Polling(t) /\ UNCHANGED job
          \/ \E t \in Tabs : Navigation(t)
          \/ \E j \in Jobs, t \in Tabs : Click(j, t)
          \/ \E j \in Jobs : EndStep(j) \/ MoveStep(j)
          \/ UNCHANGED <<tab, job>>
        BY DEF Next, vars, Navigation, Polling, PollAnswered, PollFails, PollAgain, JobStep,
               EndStep, MoveStep, ApiStep, ServeValidate, ServeMark, ServeReject, Serve,
               ServeConfirm, ConfirmFinalized, ConfirmFails, Restart
    <2>. QED BY <2>1, <2>2, <2>3, <2>4, <2>5, <2>6, <2>7
<1>. QED BY <1>1, <1>2, <1>3, <1>4, <1>5 DEF TypeOK, Requested, Calls, TabRow, JobRow

(* The trace, requests, tabs and jobs stay well formed, whatever the users,  *)
(* the wallet, the chain and the API do.                                     *)
THEOREM TypeCorrect == Spec => []TypeOK
BY TypeInit, TypeStep, PTL DEF Spec

-----------------------------------------------------------------------------
(* A reported hash is carried by the job it was handed to until that job     *)
(* sends it.                                                                 *)
KeptInv == \A h \in toConfirm : \E j \in Jobs : job[j].pc = "handed" /\ job[j].hash = h

LEMMA KeptStep == TypeOK /\ KeptInv /\ [Next]_vars => KeptInv'
<1> SUFFICES ASSUME TypeOK, KeptInv, [Next]_vars PROVE KeptInv'
    OBVIOUS
<1>1. ASSUME \A j \in Jobs : job[j].pc = "handed" => job'[j] = job[j],
             toConfirm' \subseteq toConfirm
      PROVE  KeptInv'
    BY <1>1 DEF KeptInv
<1>2. ASSUME NEW t \in Tabs, Navigation(t) PROVE KeptInv'
    <2>1. CASE CloseTab(t)
        <3>1. \A j \in Jobs \ JobsOf(t) : job'[j] = job[j]
            BY <2>1 DEF CloseTab
        <3>2. \A h \in toConfirm' : \E j \in Jobs :
                job[j].pc = "handed" /\ job[j].hash = h /\ j \notin JobsOf(t)
            BY <2>1 DEF CloseTab, KeptInv
        <3>. QED BY <3>1, <3>2 DEF KeptInv
    <2>2. CASE ~ CloseTab(t)
        <3>1. UNCHANGED toConfirm /\ \A j \in Jobs : GoesOn(j)
            BY <1>2, <2>2, Navigated
        <3>. QED BY <3>1 DEF KeptInv, GoesOn
    <2>. QED BY <2>1, <2>2
<1>3. ASSUME NEW j \in Jobs, NEW t \in Tabs, Click(j, t) PROVE KeptInv'
    <2>1. /\ job[j].pc = "new" /\ UNCHANGED toConfirm
          /\ \A k \in Jobs \ {j} : job'[k] = job[k]
        BY <1>3, Clicked
    <2>. QED BY <1>1, <2>1
<1>4. ASSUME NEW j \in Jobs, NEW h \in Hashes, BroadcastReported(j, h) PROVE KeptInv'
    <2>1. job \in [Jobs -> {New, Over} \cup JobRow] /\ job[j] \in JobRow
        BY <1>4, RunningRow DEF TypeOK, JobRow, BroadcastReported, Signed, Running
    <2>2. /\ job[j].pc = "popup" /\ toConfirm' = toConfirm \cup {h}
          /\ job' = [job EXCEPT ![j].pc = "handed", ![j].hash = h]
        BY <1>4 DEF BroadcastReported, Signed
    <2>3. job'[j].pc = "handed" /\ job'[j].hash = h /\ \A k \in Jobs \ {j} : job'[k] = job[k]
        BY <2>1, <2>2 DEF JobRow
    <2>4. ASSUME NEW g \in toConfirm
          PROVE  \E k \in Jobs : job'[k].pc = "handed" /\ job'[k].hash = g
        <3>1. PICK k \in Jobs : job[k].pc = "handed" /\ job[k].hash = g
            BY DEF KeptInv
        <3>2. job'[k] = job[k]
            BY <2>2, <2>3, <3>1
        <3>. QED BY <3>1, <3>2
    <2>. QED BY <2>2, <2>3, <2>4 DEF KeptInv
<1>5. ASSUME NEW j \in Jobs, ConfirmSent(j) PROVE KeptInv'
    <2>1. \A k \in Jobs \ {j} : job'[k] = job[k]
        BY <1>5, Moved DEF MoveStep
    <2>2. toConfirm' = toConfirm \ {job[j].hash}
        BY <1>5 DEF ConfirmSent
    <2>. QED BY <2>1, <2>2 DEF KeptInv
<1>6. ASSUME NEW j \in Jobs, EndStep(j) PROVE KeptInv'
    <2>1. job[j].pc # "handed" /\ \A k \in Jobs \ {j} : job'[k] = job[k]
        BY <1>6, Ended, EndTypes
    <2>2. UNCHANGED toConfirm
        BY <1>6 DEF EndStep, BuildRefused, Cancel, SendFails, Answered, AnswerLost,
                    BroadcastUnanswered, history
    <2>. QED BY <1>1, <2>1, <2>2
<1>7. ASSUME NEW j \in Jobs, BuildAnswered(j) PROVE KeptInv'
    BY <1>1, <1>7, Moved DEF BuildAnswered, MoveStep, history
<1>8. CASE UNCHANGED <<job, toConfirm>>
    BY <1>8 DEF KeptInv
<1>9. \/ \E t \in Tabs : Navigation(t)
      \/ \E j \in Jobs, t \in Tabs : Click(j, t)
      \/ \E j \in Jobs : EndStep(j) \/ BuildAnswered(j) \/ ConfirmSent(j)
      \/ \E j \in Jobs, h \in Hashes : BroadcastReported(j, h)
      \/ UNCHANGED <<job, toConfirm>>
    BY DEF Next, vars, history, Navigation, Polling, PollAnswered, PollFails, PollAgain, JobStep,
           EndStep, ApiStep, ServeValidate, ServeMark, ServeReject, Serve, ServeConfirm,
           ConfirmFinalized, ConfirmFails, Restart
<1>. QED BY <1>2, <1>3, <1>4, <1>5, <1>6, <1>7, <1>8, <1>9

(* A hash the wallet reported is on its way to the API as long as its tab    *)
(* lives, however many jobs run and however the wallet's call ends.          *)
THEOREM ReportedHashesAreKept == Spec => []ReportedHashIsKept
<1>1. Init => KeptInv
    BY DEF Init, KeptInv
<1>2. KeptInv => ReportedHashIsKept
    BY DEF KeptInv, ReportedHashIsKept, Carried, Running
<1>. QED BY <1>1, <1>2, TypeInit, TypeStep, KeptStep, PTL DEF Spec

-----------------------------------------------------------------------------
(* What a job has at the API. *)
SentInv ==
    \A j \in Jobs :
        /\ job[j].pc = "new" => request[j] = NoRequest
        /\ job[j].op = "sign" => job[j].pc # "call"
        /\ job[j].pc = "handed" => job[j].hash \in Hashes
        /\ job[j].pc = "confirm" => request[j].op = "confirm"
        /\ request[j].op = "mark" => request[j].hash # None
        /\ request[j].op = "confirm" => request[j].hash \in Hashes

LEMMA Served ==
    ASSUME TypeOK, NEW j \in Jobs, ApiStep(j)
    PROVE  /\ UNCHANGED <<known, chain, tab, job, history>>
           /\ request[j] \in Requested /\ \A k \in Jobs \ {j} : request'[k] = request[k]
           /\ \E pc \in {"node", "ok", "error"} : request'[j] = [request[j] EXCEPT !.pc = pc]
<1>1. request \in [Jobs -> {NoRequest} \cup Requested]
    BY DEF TypeOK, Requested, Calls
<1>2. /\ UNCHANGED <<known, chain, tab, job, history>>
      /\ request[j].op # "none" /\ \E pc \in {"node", "ok", "error"} : Reply(j, pc)
    BY DEF ApiStep, ServeValidate, ServeMark, ServeReject, Serve, ServeConfirm,
           ConfirmFinalized, ConfirmFails, At
<1>3. request[j] \in Requested
    BY <1>1, <1>2 DEF NoRequest
<1>. QED BY <1>1, <1>2, <1>3 DEF Reply

LEMMA EndedJob ==
    ASSUME TypeOK, NEW j \in Jobs, EndStep(j)
    PROVE  /\ Running(j) /\ job[j].tab \in Tabs /\ job'[j] = Over
           /\ UNCHANGED <<known, trace, toConfirm>>
           /\ \A k \in Jobs \ {j} : job'[k] = job[k] /\ request'[k] = request[k]
           /\ request'[j] \in {request[j], NoRequest}
           /\ \A u \in Tabs \ {job[j].tab} : tab'[u] = tab[u]
           /\ SameView(job[j].tab)
           /\ \/ tab'[job[j].tab].status \in {None, tab[job[j].tab].status}
              \/ job[j].op = "sign" /\ request[j].pc = "ok" /\ Awaits(j)
<1>1. PICK status \in Statuses :
        /\ Running(j) /\ EndJob(j, status)
        /\ \/ status \in {None, StatusOf(j)}
           \/ job[j].op = "sign" /\ request[j].pc = "ok" /\ Awaits(j)
    BY Ended
<1>2. /\ job'[j] = Over
      /\ \A k \in Jobs \ {j} : job'[k] = job[k]
      /\ SameView(job[j].tab)
      /\ tab'[job[j].tab].status \in {status, tab[job[j].tab].status}
      /\ \A u \in Tabs \ {job[j].tab} : tab'[u] = tab[u]
    BY <1>1, EndTypes
<1>3. request' = request \/ request' = [request EXCEPT ![j] = NoRequest]
    BY DEF EndStep, BuildRefused, Cancel, SendFails, Answered, AnswerLost,
           BroadcastUnanswered, api
<1>4. /\ \A k \in Jobs \ {j} : request'[k] = request[k]
      /\ request'[j] \in {request[j], NoRequest}
    BY <1>3 DEF TypeOK
<1>5. UNCHANGED <<known, trace, toConfirm>>
    BY DEF EndStep, BuildRefused, Cancel, SendFails, Answered, AnswerLost,
           BroadcastUnanswered, api, history
<1>. QED BY <1>1, <1>2, <1>4, <1>5, RunningRow DEF StatusOf

LEMMA SentStep == TypeOK /\ SentInv /\ [Next]_vars => SentInv'
<1> SUFFICES ASSUME TypeOK, SentInv, [Next]_vars PROVE SentInv'
    OBVIOUS
<1> DEFINE Sent(rowj, req) ==
        /\ rowj.pc = "new" => req = NoRequest
        /\ rowj.op = "sign" => rowj.pc # "call"
        /\ rowj.pc = "handed" => rowj.hash \in Hashes
        /\ rowj.pc = "confirm" => req.op = "confirm"
        /\ req.op = "mark" => req.hash # None
        /\ req.op = "confirm" => req.hash \in Hashes
<1>1. \A k \in Jobs : Sent(job[k], request[k])
    BY DEF SentInv
<1>2. ASSUME \A k \in Jobs : Sent(job'[k], request'[k]) PROVE SentInv'
    BY <1>2 DEF SentInv
<1>3. /\ Over.op # "sign" /\ Over.pc = "over"
      /\ NoRequest.op \notin {"mark", "confirm"}
    BY DEF Over, New, NoRequest, None
<1>4. ASSUME NEW j \in Jobs, NEW t \in Tabs, Click(j, t) PROVE SentInv'
    <2>1. Sent(job'[j], request'[j])
        <3>1. request[j] = NoRequest
            BY <1>1, <1>4, Clicked
        <3>2. PICK op \in Ops, pc \in {"build", "call"}, status \in {None, tab[t].status} :
                /\ job'[j] = Started(op, pc, t)
                /\ SameView(t) /\ tab'[t].busy /\ tab'[t].status = status
                /\ op = "sign" <=> pc = "build"
                /\ pc = "build" => UNCHANGED request
                /\ pc = "call" => \E hash \in Hashes \cup {None, OtherHash} :
                        /\ request'[j] = [op |-> op, pc |-> "sent", hash |-> hash]
                        /\ op = "mark" => hash # None
            BY <1>4, Clicked, Zenon
        <3>3. CASE pc = "build"
            BY <1>3, <3>1, <3>2, <3>3 DEF Ops, Started
        <3>4. CASE pc = "call"
            <4>1. PICK hash \in Hashes \cup {None, OtherHash} :
                    /\ request'[j] = [op |-> op, pc |-> "sent", hash |-> hash]
                    /\ op = "mark" => hash # None
                BY <3>2, <3>4
            <4>2. /\ job'[j].pc = "call" /\ job'[j].op = op
                  /\ request'[j].op = op /\ request'[j].hash = hash
                BY <3>2, <3>4, <4>1 DEF Started
            <4>3. op \notin {"sign", "confirm"}
                BY <3>2, <3>4 DEF Ops
            <4>. QED BY <4>1, <4>2, <4>3
        <3>. QED BY <3>3, <3>4
    <2>2. \A k \in Jobs \ {j} : job'[k] = job[k] /\ request'[k] = request[k]
        BY <1>4, Clicked
    <2>. HIDE DEF Sent
    <2>. QED BY <1>1, <1>2, <2>1, <2>2
<1>5. ASSUME NEW j \in Jobs, EndStep(j) PROVE SentInv'
    <2>1. Sent(job'[j], request'[j])
        BY <1>1, <1>3, <1>5, EndedJob
    <2>2. \A k \in Jobs \ {j} : job'[k] = job[k] /\ request'[k] = request[k]
        BY <1>5, EndedJob
    <2>. HIDE DEF Sent
    <2>. QED BY <1>1, <1>2, <2>1, <2>2
<1>6. ASSUME NEW j \in Jobs, ApiStep(j) PROVE SentInv'
    <2>1. Sent(job'[j], request'[j])
        <3>1. PICK pc \in {"node", "ok", "error"} : request'[j] = [request[j] EXCEPT !.pc = pc]
            BY <1>6, Served
        <3>2. request[j] \in Requested /\ UNCHANGED job
            BY <1>6, Served
        <3>3. /\ job'[j] = job[j] /\ request'[j].op = request[j].op
              /\ request'[j].hash = request[j].hash
            BY <3>1, <3>2 DEF Requested
        <3>4. job[j].pc # "new"
            BY <1>1, <3>2 DEF NoRequest, Requested, Calls
        <3>. QED BY <1>1, <3>3, <3>4
    <2>2. \A k \in Jobs \ {j} : job'[k] = job[k] /\ request'[k] = request[k]
        BY <1>6, Served
    <2>. HIDE DEF Sent
    <2>. QED BY <1>1, <1>2, <2>1, <2>2
<1>7. ASSUME NEW j \in Jobs, MoveStep(j) PROVE SentInv'
    <2>0. job \in [Jobs -> {New, Over} \cup JobRow] /\ job[j] \in JobRow
        BY <1>7, Moved, RunningRow DEF TypeOK, JobRow
    <2>1. CASE BuildAnswered(j)
        <3>1. job[j].pc = "build" /\ job' = [job EXCEPT ![j].pc = "popup"] /\ UNCHANGED request
            BY <2>1 DEF BuildAnswered, api
        <3>2. job'[j].pc = "popup" /\ \A k \in Jobs \ {j} : job'[k] = job[k]
            BY <2>0, <3>1 DEF JobRow
        <3>3. Sent(job'[j], request'[j])
            BY <1>1, <3>1, <3>2
        <3>. HIDE DEF Sent
        <3>. QED BY <1>1, <1>2, <3>1, <3>2, <3>3
    <2>2. CASE \E h \in Hashes : BroadcastReported(j, h)
        <3>1. PICK h \in Hashes : /\ job[j].pc = "popup" /\ UNCHANGED request
                                  /\ job' = [job EXCEPT ![j].pc = "handed", ![j].hash = h]
            BY <2>2 DEF BroadcastReported, Signed, api
        <3>2. job'[j].pc = "handed" /\ job'[j].hash = h /\ \A k \in Jobs \ {j} : job'[k] = job[k]
            BY <2>0, <3>1 DEF JobRow
        <3>3. Sent(job'[j], request'[j])
            BY <1>1, <3>1, <3>2
        <3>. HIDE DEF Sent
        <3>. QED BY <1>1, <1>2, <3>1, <3>2, <3>3
    <2>3. CASE ConfirmSent(j)
        <3>1. /\ job[j].pc = "handed" /\ job' = [job EXCEPT ![j].pc = "confirm"]
              /\ request' = [request EXCEPT ![j] =
                    [op |-> "confirm", pc |-> "sent", hash |-> job[j].hash]]
            BY <2>3 DEF ConfirmSent, Post
        <3>2. job'[j].pc = "confirm" /\ \A k \in Jobs \ {j} : job'[k] = job[k]
            BY <2>0, <3>1 DEF JobRow
        <3>3. /\ request'[j] = [op |-> "confirm", pc |-> "sent", hash |-> job[j].hash]
              /\ \A k \in Jobs \ {j} : request'[k] = request[k]
            BY <3>1 DEF TypeOK
        <3>4. Sent(job'[j], request'[j])
            BY <1>1, <3>1, <3>2, <3>3
        <3>. HIDE DEF Sent
        <3>. QED BY <1>1, <1>2, <3>2, <3>3, <3>4
    <2>. QED BY <1>7, <2>1, <2>2, <2>3 DEF MoveStep
<1>8. ASSUME NEW t \in Tabs, Navigation(t) PROVE SentInv'
    <2>1. UNCHANGED request /\ \A k \in Jobs : job'[k] = Over \/ GoesOn(k)
        BY <1>8, Navigated DEF api
    <2>. QED BY <1>1, <1>2, <1>3, <2>1 DEF GoesOn
<1>9. CASE Restart
    <2>1. ASSUME NEW k \in Jobs PROVE Sent(job'[k], request'[k])
        <3>1. CASE request[k] = NoRequest
            BY <1>1, <1>9, <3>1 DEF Restart
        <3>2. CASE request[k] # NoRequest
            <4>1. request[k] \in Requested
                BY <3>2 DEF TypeOK, Requested, Calls
            <4>2. request'[k] = [request[k] EXCEPT !.pc = "error"] /\ job'[k] = job[k]
                BY <1>9, <3>2 DEF Restart
            <4>3. request'[k].op = request[k].op /\ request'[k].hash = request[k].hash
                BY <4>1, <4>2 DEF Requested
            <4>. QED BY <1>1, <3>2, <4>2, <4>3
        <3>. QED BY <3>1, <3>2
    <2>. QED BY <1>2, <2>1
<1>10. CASE UNCHANGED <<job, request>>
    BY <1>10 DEF SentInv
<1>11. \/ \E t \in Tabs : Navigation(t)
       \/ \E j \in Jobs, t \in Tabs : Click(j, t)
       \/ \E j \in Jobs : EndStep(j) \/ MoveStep(j) \/ ApiStep(j)
       \/ Restart \/ UNCHANGED <<job, request>>
    BY DEF Next, vars, api, Polling, PollAnswered, PollFails, PollAgain, Navigation, JobStep,
           EndStep, MoveStep
<1>. QED BY <1>4, <1>5, <1>6, <1>7, <1>8, <1>9, <1>10, <1>11

-----------------------------------------------------------------------------
Executed == \E k \in 1 .. Len(trace) : trace[k].state = "EXECUTED"

(* Only executions have a hash, and the chain gives kinds to successes only. *)
RowsInv ==
    \A k \in 1 .. Len(trace) :
        /\ trace[k].hash # None <=> trace[k].state = "EXECUTED"
        /\ trace[k].hashKind # None =>
            trace[k].hash \in Hashes /\ chain[trace[k].hash] = "success"

LEMMA ChainKept ==
    ASSUME TypeOK, [Next]_vars, NEW h \in Hashes, chain[h] # None
    PROVE  chain'[h] = chain[h]
<1>1. chain \in [Hashes -> {None, "success", "reverted"}]
    BY DEF TypeOK
<1>2. \/ UNCHANGED chain
      \/ \E g \in Hashes, fate \in {"success", "reverted"} :
            chain[g] = None /\ chain' = [chain EXCEPT ![g] = fate]
    BY ChainFrame DEF ChainStep, BroadcastUnanswered, BroadcastReported, Signed
<1>. QED BY <1>1, <1>2

LEMMA ExecutedStays == ASSUME TypeOK, [Next]_vars, Executed PROVE Executed'
BY TraceGrows DEF Executed

LEMMA RowsStep == TypeOK /\ SentInv /\ RowsInv /\ [Next]_vars => RowsInv'
<1> SUFFICES ASSUME TypeOK, SentInv, RowsInv, [Next]_vars PROVE RowsInv'
    OBVIOUS
<1>1. ASSUME NEW k \in 1 .. Len(trace)
      PROVE  /\ trace'[k].hash # None <=> trace'[k].state = "EXECUTED"
             /\ trace'[k].hashKind # None =>
                    trace'[k].hash \in Hashes /\ chain'[trace'[k].hash] = "success"
    <2>1. trace'[k] = trace[k]
        BY TraceGrows
    <2>2. trace[k].hashKind # None => chain'[trace[k].hash] = chain[trace[k].hash]
        BY ChainKept DEF RowsInv, None
    <2>. QED BY <2>1, <2>2 DEF RowsInv
<1>2. CASE UNCHANGED trace
    BY <1>1, <1>2 DEF RowsInv
<1>3. ASSUME NEW j \in Jobs, NEW row \in Row, Record(row), TraceStep(j),
             \/ At(j, "validate", "sent") /\ ApiState = "DRAFT"
                     /\ row.state \in {"POLICY_VALIDATED", "REJECTED"}
                     /\ row.hash = None /\ row.hashKind = None
             \/ At(j, "reject", "sent") /\ row = RowOf("REJECTED", None)
             \/ At(j, "mark", "sent") /\ row = RowOf("EXECUTED", request[j].hash)
             \/ At(j, "confirm", "node") /\ row = Confirmed(request[j].hash)
                     /\ chain[request[j].hash] = "success"
      PROVE  RowsInv'
    <2>1. /\ Len(trace') = Len(trace) + 1 /\ trace'[Len(trace')] = row
          /\ Len(trace) \in Nat
        BY <1>3, Appended DEF TypeOK
    <2>2. UNCHANGED chain
        BY <1>3, Served DEF TraceStep, ApiStep
    <2>3. /\ row.hash # None <=> row.state = "EXECUTED"
          /\ row.hashKind # None => row.hash \in Hashes /\ chain[row.hash] = "success"
        <3>1. /\ request[j].op = "mark" => request[j].hash # None
              /\ request[j].op = "confirm" => request[j].hash \in Hashes
            BY DEF SentInv
        <3>2. None \notin Hashes
            BY ConsoleAssumption DEF ConsoleAssumption
        <3>3. ASSUME NEW s, NEW h PROVE /\ RowOf(s, h).state = s /\ RowOf(s, h).hash = h
                                        /\ RowOf(s, h).hashKind = None
            BY DEF RowOf
        <3>4. ASSUME NEW h PROVE Confirmed(h).state = "EXECUTED" /\ Confirmed(h).hash = h
            BY DEF Confirmed, RowOf
        <3>. QED BY <1>3, <3>1, <3>2, <3>3, <3>4 DEF At
    <2>4. ASSUME NEW k \in 1 .. Len(trace')
          PROVE  /\ trace'[k].hash # None <=> trace'[k].state = "EXECUTED"
                 /\ trace'[k].hashKind # None =>
                        trace'[k].hash \in Hashes /\ chain'[trace'[k].hash] = "success"
        <3>1. CASE k \in 1 .. Len(trace)
            BY <1>1, <3>1
        <3>2. CASE k = Len(trace')
            BY <2>1, <2>2, <2>3, <3>2
        <3>. QED BY <2>1, <3>1, <3>2
    <2>. QED BY <2>4 DEF RowsInv
<1>. QED BY <1>2, <1>3, TraceFrame, ServedRow

(* A tab has stopped polling exactly if the last row it shows is a stop. *)
PollInv ==
    \A t \in Tabs :
        /\ tab[t].shown <= Len(trace)
        /\ Open(t) /\ ~ tab[t].missing =>
            (tab[t].poll = "stopped" <=>
                tab[t].shown > 0 /\ trace[tab[t].shown].state \in Stop)

LEMMA ViewFrame ==
    ASSUME TypeOK, [Next]_vars, NEW t \in Tabs
    PROVE  SameView(t) \/ Polling(t) \/ Navigation(t)
<1>1. ASSUME NEW j \in Jobs, NEW u \in Tabs, Click(j, u) PROVE SameView(t)
    BY <1>1, Clicked DEF SameView
<1>2. ASSUME NEW j \in Jobs, EndStep(j) PROVE SameView(t)
    BY <1>2, EndedJob DEF SameView
<1>3. ASSUME NEW u \in Tabs, u # t, Polling(u) \/ Navigation(u) PROVE SameView(t)
    <2>1. CASE Polling(u)
        BY <1>3, <2>1 DEF Polling, PollAnswered, PollFails, PollAgain, TypeOK, SameView
    <2>2. CASE Navigation(u)
        BY <1>3, <2>2, Navigated DEF SameView
    <2>. QED BY <1>3, <2>1, <2>2
<1>4. CASE UNCHANGED tab
    BY <1>4 DEF SameView
<1>5. \/ \E u \in Tabs : Polling(u) \/ Navigation(u)
      \/ \E j \in Jobs, u \in Tabs : Click(j, u)
      \/ \E j \in Jobs : EndStep(j)
      \/ UNCHANGED tab
    BY DEF Next, vars, Navigation, JobStep, EndStep, BuildAnswered, BroadcastReported,
           ConfirmSent, ApiStep, ServeValidate, ServeMark, ServeReject, Serve, ServeConfirm,
           ConfirmFinalized, ConfirmFails, Restart
<1>. QED BY <1>1, <1>2, <1>3, <1>4, <1>5

LEMMA PollStep == TypeOK /\ PollInv /\ [Next]_vars => PollInv'
<1> SUFFICES ASSUME TypeOK, PollInv, [Next]_vars, NEW t \in Tabs
             PROVE  /\ tab'[t].shown <= Len(trace')
                    /\ tab'[t].poll # "gone" /\ ~ tab'[t].missing =>
                        (tab'[t].poll = "stopped" <=>
                            tab'[t].shown > 0 /\ trace'[tab'[t].shown].state \in Stop)
    BY DEF PollInv, Open
<1>1. /\ Len(trace) \in Nat \ {0} /\ Len(trace') \in Nat /\ Len(trace') >= Len(trace)
      /\ \A k \in 1 .. Len(trace) : trace'[k] = trace[k]
    BY TraceGrows
<1>2. /\ tab[t].shown \in Nat /\ tab[t].shown <= Len(trace)
      /\ tab[t].poll # "gone" /\ ~ tab[t].missing =>
            (tab[t].poll = "stopped" <=>
                tab[t].shown > 0 /\ trace[tab[t].shown].state \in Stop)
    BY DEF TypeOK, PollInv, Open
<1>3. tab[t].shown > 0 => trace'[tab[t].shown] = trace[tab[t].shown]
    BY <1>1, <1>2
<1>4. CASE SameView(t)
    BY <1>1, <1>2, <1>3, <1>4 DEF SameView
<1>5. CASE Navigation(t)
    BY <1>1, <1>5, Navigated, BlankRow
<1>6. CASE PollFails(t) \/ PollAgain(t)
    <2>1. /\ tab'[t].shown = tab[t].shown /\ tab'[t].missing = tab[t].missing
          /\ tab[t].poll \notin {"stopped", "gone"} /\ tab'[t].poll \notin {"stopped", "gone"}
        BY <1>6 DEF PollFails, PollAgain, TypeOK
    <2>. QED BY <1>1, <1>2, <1>3, <2>1
<1>7. CASE PollAnswered(t)
    <2>1. UNCHANGED trace
        BY <1>7 DEF PollAnswered, api
    <2>2. CASE known
        <3>1. /\ tab'[t].shown = Len(trace)
              /\ tab'[t].poll = IF ApiState \in Stop THEN "stopped" ELSE "sleeping"
            BY <1>7, <2>2 DEF PollAnswered, TypeOK
        <3>. QED BY <1>1, <2>1, <3>1 DEF ApiState
    <2>3. CASE ~ known
        <3>1. tab'[t].missing /\ tab'[t].shown = tab[t].shown
            BY <1>7, <2>3 DEF PollAnswered, TypeOK
        <3>. QED BY <1>2, <2>1, <3>1
    <2>. QED BY <2>2, <2>3
<1>. QED BY <1>4, <1>5, <1>6, <1>7, ViewFrame DEF Polling

(* A co-sign is answered well, and a tab says so, only behind an execution. *)
AnswerInv ==
    /\ \A j \in Jobs : At(j, "confirm", "ok") => Executed
    /\ \A t \in Tabs : tab[t].status = "verified" => Executed

LEMMA AnswerStep == TypeOK /\ SentInv /\ AnswerInv /\ [Next]_vars => AnswerInv'
<1> SUFFICES ASSUME TypeOK, SentInv, AnswerInv, [Next]_vars PROVE AnswerInv'
    OBVIOUS
<1> USE DEF At
<1>1. Executed => Executed'
    BY ExecutedStays
<1>2. ASSUME NEW k \in Jobs, At(k, "confirm", "ok")' PROVE Executed'
    <2>1. CASE UNCHANGED request
        BY <1>1, <1>2, <2>1 DEF AnswerInv
    <2>2. ASSUME NEW j \in Jobs, j # k, request'[k] = request[k] PROVE Executed'
        BY <1>1, <1>2, <2>2 DEF AnswerInv
    <2>3. ASSUME NEW t \in Tabs, Click(k, t) PROVE Executed'
        <3>1. PICK op \in Ops, pc \in {"build", "call"}, status \in {None, tab[t].status} :
                /\ job'[k] = Started(op, pc, t)
                /\ SameView(t) /\ tab'[t].busy /\ tab'[t].status = status
                /\ op = "sign" <=> pc = "build"
                /\ pc = "build" => UNCHANGED request
                /\ pc = "call" => \E hash \in Hashes \cup {None, OtherHash} :
                        /\ request'[k] = [op |-> op, pc |-> "sent", hash |-> hash]
                        /\ op = "mark" => hash # None
            BY <2>3, Clicked, Zenon
        <3>2. UNCHANGED request \/ request'[k].pc = "sent"
            <4>1. CASE pc = "build"
                BY <3>1, <4>1, Zenon
            <4>2. CASE pc = "call"
                <5>1. PICK hash \in Hashes \cup {None, OtherHash} :
                        request'[k] = [op |-> op, pc |-> "sent", hash |-> hash]
                    BY <3>1, <4>2, Zenon
                <5>. QED BY <5>1
            <4>. QED BY <4>1, <4>2
        <3>. QED BY <1>1, <1>2, <3>2 DEF AnswerInv
    <2>4. CASE EndStep(k)
        <3>1. request'[k] \in {request[k], NoRequest}
            BY <2>4, EndedJob
        <3>. QED BY <1>1, <1>2, <3>1 DEF AnswerInv, NoRequest
    <2>5. CASE MoveStep(k)
        <3>1. UNCHANGED request \/ request'[k].pc = "sent"
            BY <2>5 DEF MoveStep, BuildAnswered, BroadcastReported, ConfirmSent, Post, TypeOK, api
        <3>. QED BY <1>1, <1>2, <3>1 DEF AnswerInv
    <2>6. CASE ApiStep(k)
        <3>1. request[k] \in Requested /\ request[k].op = "confirm"
            <4>1. PICK pc \in {"node", "ok", "error"} : request'[k] = [request[k] EXCEPT !.pc = pc]
                BY <2>6, Served
            <4>2. request[k] \in Requested
                BY <2>6, Served
            <4>3. request'[k].op = request[k].op
                BY <4>1, <4>2 DEF Requested
            <4>. QED BY <1>2, <4>2, <4>3
        <3>2. CASE ServeConfirm(k)
            <4>1. request'[k] = [request[k] EXCEPT !.pc =
                        IF ~ known THEN "error"
                        ELSE IF ApiState = "EXECUTED" THEN "ok"
                        ELSE IF ApiState = "POLICY_VALIDATED" THEN "node" ELSE "error"]
                BY <3>2 DEF ServeConfirm, Reply, TypeOK
            <4>2. ApiState = "EXECUTED"
                BY <1>2, <3>1, <4>1 DEF Requested
            <4>3. Len(trace) \in Nat \ {0}
                BY TraceGrows
            <4>4. Executed
                BY <4>2, <4>3 DEF Executed, ApiState
            <4>. QED BY <1>1, <4>4
        <3>3. CASE ConfirmFinalized(k)
            <4>1. TraceStep(k) /\ Record(Confirmed(request[k].hash))
                BY <3>3 DEF TraceStep, ConfirmFinalized
            <4>2. /\ Confirmed(request[k].hash) \in Row
                  /\ Confirmed(request[k].hash).state = "EXECUTED"
                BY <3>1 DEF Confirmed, RowOf, Row, Requested
            <4>3. Len(trace') = Len(trace) + 1 /\ trace'[Len(trace')] = Confirmed(request[k].hash)
                BY <4>1, <4>2, Appended
            <4>4. Len(trace) \in Nat
                BY TraceGrows
            <4>. QED BY <4>2, <4>3, <4>4 DEF Executed
        <3>4. CASE ConfirmFails(k)
            <4>1. request'[k] = [request[k] EXCEPT !.pc = "error"]
                BY <3>4 DEF ConfirmFails, Reply, TypeOK
            <4>. QED BY <1>2, <3>1, <4>1 DEF Requested
        <3>5. ~ ServeValidate(k) /\ ~ ServeMark(k) /\ ~ ServeReject(k)
            BY <3>1 DEF ServeValidate, ServeMark, ServeReject, Serve
        <3>. QED BY <2>6, <3>2, <3>3, <3>4, <3>5 DEF ApiStep
    <2>7. CASE Restart
        <3>1. CASE request[k] = NoRequest
            BY <1>2, <2>7, <3>1 DEF Restart, NoRequest
        <3>2. CASE request[k] # NoRequest
            <4>1. request[k] \in Requested /\ request'[k] = [request[k] EXCEPT !.pc = "error"]
                BY <2>7, <3>2 DEF Restart, TypeOK, Requested, Calls
            <4>. QED BY <1>2, <4>1 DEF Requested
        <3>. QED BY <3>1, <3>2
    <2>8. ASSUME NEW j \in Jobs, j # k, MoveStep(j) PROVE request'[k] = request[k]
        BY <2>8 DEF MoveStep, BuildAnswered, BroadcastReported, ConfirmSent, Post, TypeOK, api
    <2>9. \/ UNCHANGED request
          \/ \E j \in Jobs : j # k /\ request'[k] = request[k]
          \/ \E t \in Tabs : Click(k, t)
          \/ EndStep(k) \/ MoveStep(k) \/ ApiStep(k) \/ Restart
        <3>1. \/ UNCHANGED request
              \/ \E j \in Jobs, t \in Tabs : Click(j, t)
              \/ \E j \in Jobs : EndStep(j) \/ MoveStep(j) \/ ApiStep(j)
              \/ Restart
            BY DEF Next, vars, api, Polling, PollAnswered, PollFails, PollAgain, LeavePage,
                   OpenPage, CloseTab, JobStep, EndStep, MoveStep
        <3>2. ASSUME NEW j \in Jobs, NEW t \in Tabs, Click(j, t), j # k
              PROVE  request'[k] = request[k]
            <4>1. \A i \in Jobs \ {j} : job'[i] = job[i] /\ request'[i] = request[i]
                BY <3>2, Clicked
            <4>. QED BY <3>2, <4>1
        <3>3. ASSUME NEW j \in Jobs, EndStep(j), j # k PROVE request'[k] = request[k]
            <4>1. \A i \in Jobs \ {j} : job'[i] = job[i] /\ request'[i] = request[i]
                BY <3>3, EndedJob
            <4>. QED BY <3>3, <4>1
        <3>4. ASSUME NEW j \in Jobs, ApiStep(j), j # k PROVE request'[k] = request[k]
            <4>1. \A i \in Jobs \ {j} : request'[i] = request[i]
                BY <3>4, Served
            <4>. QED BY <3>4, <4>1
        <3>. QED BY <2>8, <3>1, <3>2, <3>3, <3>4
    <2>. QED BY <2>1, <2>2, <2>3, <2>4, <2>5, <2>6, <2>7, <2>9
<1>3. ASSUME NEW t \in Tabs, tab'[t].status = "verified" PROVE Executed'
    <2>1. CASE tab'[t].status = tab[t].status
        BY <1>1, <1>3, <2>1 DEF AnswerInv
    <2>2. ASSUME NEW j \in Jobs, NEW u \in Tabs, Click(j, u), tab'[t].status # tab[t].status
          PROVE  FALSE
        <3>1. tab'[u].status \in {None, tab[u].status} /\ \A v \in Tabs \ {u} : tab'[v] = tab[v]
            BY <2>2, Clicked
        <3>. QED BY <1>3, <2>2, <3>1 DEF None
    <2>3. ASSUME NEW j \in Jobs, EndStep(j), tab'[t].status # tab[t].status PROVE Executed'
        <3>1. \A v \in Tabs \ {job[j].tab} : tab'[v] = tab[v]
            BY <2>3, EndedJob
        <3>2. t = job[j].tab
            BY <2>3, <3>1
        <3>3. job[j].op = "sign" /\ request[j].pc = "ok" /\ Awaits(j)
            BY <1>3, <2>3, <3>2, EndedJob DEF None
        <3>4. request[j].op = "confirm"
            BY <3>3 DEF SentInv, Awaits
        <3>. QED BY <1>1, <3>3, <3>4 DEF AnswerInv
    <2>4. ASSUME NEW u \in Tabs, Navigation(u) PROVE tab'[t].status \in {None, tab[t].status}
        <3>1. CASE u # t
            BY <2>4, <3>1, Navigated
        <3>2. CASE u = t
            BY <2>4, <3>2, Navigated, BlankRow
        <3>. QED BY <3>1, <3>2
    <2>5. ASSUME NEW u \in Tabs, Polling(u) PROVE tab'[t].status = tab[t].status
        <3>1. tab \in [Tabs -> TabRow]
            BY DEF TypeOK, TabRow
        <3>2. CASE u # t
            BY <2>5, <3>1, <3>2 DEF Polling, PollAnswered, PollFails, PollAgain
        <3>3. CASE u = t
            <4>1. tab[t] \in TabRow
                BY <3>1
            <4>2. CASE PollFails(t) \/ PollAgain(t)
                BY <3>1, <4>1, <4>2 DEF PollFails, PollAgain, TabRow
            <4>3. CASE PollAnswered(t)
                BY <3>1, <4>1, <4>3 DEF PollAnswered, TabRow
            <4>. QED BY <2>5, <3>3, <4>2, <4>3 DEF Polling
        <3>. QED BY <3>2, <3>3
    <2>6. \/ \E u \in Tabs : Polling(u) \/ Navigation(u)
          \/ \E j \in Jobs, u \in Tabs : Click(j, u)
          \/ \E j \in Jobs : EndStep(j)
          \/ UNCHANGED tab
        BY DEF Next, vars, Navigation, JobStep, EndStep, BuildAnswered, BroadcastReported,
               ConfirmSent, ApiStep, ServeValidate, ServeMark, ServeReject, Serve, ServeConfirm,
               ConfirmFinalized, ConfirmFails, Restart
    <2>. QED BY <1>3, <2>1, <2>2, <2>3, <2>4, <2>5, <2>6 DEF None
<1>. QED BY <1>2, <1>3 DEF AnswerInv

(* A nonempty set of indices has a maximum. *)
LEMMA MaxExists ==
    ASSUME NEW n \in Nat, NEW S \in SUBSET (1 .. n), S # {}
    PROVE  Max(S) \in S
<1> DEFINE I == 1 .. n
           P == {T \in SUBSET I : T # {} => \E x \in T : \A y \in T : x >= y}
<1>1. IsFiniteSet(I)
    BY FS_Interval
<1>2. ASSUME NEW T \in SUBSET I, \A U \in SUBSET T : U # T => U \in P PROVE T \in P
    <2>1. SUFFICES ASSUME T # {} PROVE \E x \in T : \A y \in T : x >= y
        OBVIOUS
    <2>2. PICK x \in T : TRUE
        BY <2>1
    <2>3. T \ {x} \in P
        BY <1>2, <2>2
    <2>4. CASE T \ {x} = {}
        BY <2>2, <2>4
    <2>5. CASE T \ {x} # {}
        <3>1. PICK m \in T \ {x} : \A y \in T \ {x} : m >= y
            BY <2>3, <2>5
        <3>2. CASE x >= m
            BY <2>2, <3>1, <3>2
        <3>3. CASE ~ (x >= m)
            BY <2>2, <3>1, <3>3
        <3>. QED BY <3>2, <3>3
    <2>. QED BY <2>4, <2>5
<1>3. \A T \in SUBSET I : T \in P
    <2>. HIDE DEF I, P
    <2>. QED BY <1>1, <1>2, SubsetInduction
<1>4. \E x \in S : \A y \in S : x >= y
    BY <1>3
<1>. QED BY <1>4 DEF Max

(* What the page shows of the executions on the rows it has. *)
LEMMA DerivedView ==
    ASSUME TypeOK, RowsInv, PollInv, NEW t \in Tabs
    PROVE  /\ Derived(t).state = IF tab[t].shown = 0 THEN None ELSE trace[tab[t].shown].state
           /\ Derived(t).hash # None <=>
                \E k \in 1 .. tab[t].shown : trace[k].state = "EXECUTED"
           /\ Derived(t).hashKind # None =>
                \E k \in 1 .. Len(trace) :
                    /\ Derived(t).hash = trace[k].hash
                    /\ Derived(t).hashKind = trace[k].hashKind
<1> DEFINE n == tab[t].shown
           E == Executions(t)
<1>1. n \in Nat /\ Len(trace) \in Nat /\ n <= Len(trace)
    BY DEF TypeOK, PollInv
<1>2. E \subseteq 1 .. n /\ \A k \in 1 .. n : k \in E <=> trace[k].state = "EXECUTED"
    <2>1. E = {k \in 1 .. n : trace[k].hash # None}
        BY DEF Executions
    <2>2. \A k \in 1 .. n : k \in 1 .. Len(trace)
        BY <1>1
    <2>. QED BY <2>1, <2>2 DEF RowsInv
<1>3. /\ Derived(t).state = IF n = 0 THEN None ELSE trace[n].state
      /\ Derived(t).hash = IF E = {} THEN None ELSE trace[Max(E)].hash
      /\ Derived(t).hashKind = IF E = {} THEN None ELSE trace[Max(E)].hashKind
    BY DEF Derived
<1>4. E # {} => Max(E) \in 1 .. Len(trace) /\ trace[Max(E)].state = "EXECUTED"
    <2>1. ASSUME E # {} PROVE Max(E) \in E
        <3>. HIDE DEF E, n
        <3>. QED BY <1>1, <1>2, <2>1, MaxExists
    <2>. QED BY <1>1, <1>2, <2>1
<1>5. E # {} => trace[Max(E)].hash # None
    BY <1>4 DEF RowsInv
<1>. HIDE DEF E
<1>. QED BY <1>1, <1>2, <1>3, <1>4, <1>5

LEMMA PageFields ==
    ASSUME NEW t \in Tabs
    PROVE  /\ Page(t).proof.verified <=> Derived(t).hash # None
           /\ Page(t).proof.link =
                <<IF Derived(t).hashKind = "transaction" THEN "transaction" ELSE "deploy",
                  Derived(t).hash>>
           /\ Page(t).live <=> ~ tab[t].missing /\ Derived(t).state \notin Stop
           /\ Page(t).offRamp = {state \in OffRamp : state = Derived(t).state}
           /\ \A state \in HappyPath : Page(t).rail[state] = Step(t, state)
<1>1. /\ Page(t).proof = Proof(t) /\ Page(t).live = Live(t) /\ Page(t).rail = Rail(t)
      /\ Page(t).offRamp = {state \in OffRamp : state = Derived(t).state}
    BY DEF Page
<1>2. /\ Proof(t).verified = (Derived(t).hash # None)
      /\ Proof(t).link =
            <<IF Derived(t).hashKind = "transaction" THEN "transaction" ELSE "deploy",
              Derived(t).hash>>
    BY Zenon DEF Proof
<1>3. \A state \in HappyPath : Rail(t)[state] = Step(t, state)
    BY DEF Rail
<1>. QED BY <1>1, <1>2, <1>3 DEF Live

PageInv == TypeOK /\ SentInv /\ RowsInv /\ PollInv /\ AnswerInv

LEMMA PageInvInit == Init => PageInv
<1> SUFFICES ASSUME Init PROVE PageInv
    OBVIOUS
<1>1. TypeOK
    BY TypeInit
<1>2. SentInv
    BY DEF Init, SentInv, New, NoRequest, None
<1>3. \A k \in 1 .. Len(trace) :
        /\ trace[k].state \in {"DRAFT", "POLICY_VALIDATED"}
        /\ trace[k].hash = None /\ trace[k].hashKind = None
    <2>1. PICK r, s : /\ r = RowOf("DRAFT", None) /\ s = RowOf("POLICY_VALIDATED", None)
                      /\ trace = <<r>> \/ trace = <<r, s>>
        BY DEF Init
    <2>2. /\ r.state = "DRAFT" /\ r.hash = None /\ r.hashKind = None
          /\ s.state = "POLICY_VALIDATED" /\ s.hash = None /\ s.hashKind = None
        BY <2>1 DEF RowOf
    <2>. QED BY <2>1, <2>2
<1>4. RowsInv
    BY <1>3 DEF RowsInv
<1>5. \A t \in Tabs : /\ tab[t].shown = 0 /\ tab[t].poll = "asked"
                      /\ tab[t].status = None
    BY DEF Init, Fresh
<1>6. PollInv
    BY <1>1, <1>5 DEF PollInv, TypeOK
<1>7. AnswerInv
    BY <1>5 DEF Init, AnswerInv, At, NoRequest, None
<1>. QED BY <1>1, <1>2, <1>4, <1>6, <1>7 DEF PageInv

LEMMA PageInvStep == PageInv /\ [Next]_vars => PageInv'
BY TypeStep, SentStep, RowsStep, PollStep, AnswerStep DEF PageInv

LEMMA PageTrue == PageInv => PageIsTrue
<1> SUFFICES ASSUME PageInv, NEW t \in Tabs, Open(t), ~ tab[t].missing
             PROVE  LET page == Page(t) IN
                    /\ tab[t].status = "verified" \/ page.proof.verified =>
                            \E k \in DOMAIN trace : trace[k].state = "EXECUTED"
                    /\ page.proof.verified <=> page.rail["EXECUTED"] # "future"
                    /\ Derived(t).hashKind # None =>
                            /\ Derived(t).hash \in Hashes /\ chain[Derived(t).hash] = "success"
                            /\ page.proof.link = <<Kind, Derived(t).hash>>
                    /\ page.live <=> tab[t].poll # "stopped"
                    /\ tab[t].shown > 0 =>
                        (page.offRamp = {} <=>
                            \E state \in HappyPath : page.rail[state] = "current")
    BY DEF PageIsTrue
<1> DEFINE n == tab[t].shown
<1>1. /\ n \in Nat /\ Len(trace) \in Nat /\ n <= Len(trace) /\ DOMAIN trace = 1 .. Len(trace)
      /\ \A k \in 1 .. Len(trace) : trace[k] \in Row
    BY DEF PageInv, TypeOK, PollInv
<1>2. /\ Derived(t).state = IF n = 0 THEN None ELSE trace[n].state
      /\ Derived(t).hash # None <=> \E k \in 1 .. n : trace[k].state = "EXECUTED"
      /\ Derived(t).hashKind # None =>
            \E k \in 1 .. Len(trace) :
                Derived(t).hash = trace[k].hash /\ Derived(t).hashKind = trace[k].hashKind
    BY DerivedView DEF PageInv
<1>3. /\ Page(t).proof.verified <=> Derived(t).hash # None
      /\ Page(t).proof.link =
            <<IF Derived(t).hashKind = "transaction" THEN "transaction" ELSE "deploy",
              Derived(t).hash>>
      /\ Page(t).live <=> Derived(t).state \notin Stop
      /\ Page(t).offRamp = {state \in OffRamp : state = Derived(t).state}
      /\ \A state \in HappyPath : Page(t).rail[state] = Step(t, state)
    BY PageFields
<1>4. n > 0 => Derived(t).state \in {"DRAFT", "POLICY_VALIDATED", "REJECTED", "EXECUTED"}
    BY <1>1, <1>2 DEF Row
<1>5. /\ "EXECUTED" \in HappyPath
      /\ \A s \in {"DRAFT", "POLICY_VALIDATED", "EXECUTED"} : s \in HappyPath /\ s \notin OffRamp
      /\ "REJECTED" \in OffRamp /\ "REJECTED" \notin HappyPath
    BY DEF HappyPath, OffRamp
<1>6. tab[t].status = "verified" \/ Page(t).proof.verified =>
            \E k \in DOMAIN trace : trace[k].state = "EXECUTED"
    <2>1. CASE tab[t].status = "verified"
        BY <1>1, <2>1 DEF PageInv, AnswerInv, Executed
    <2>2. CASE Page(t).proof.verified
        <3>1. PICK k \in 1 .. n : trace[k].state = "EXECUTED"
            BY <1>2, <1>3, <2>2
        <3>. QED BY <1>1, <3>1
    <2>. QED BY <2>1, <2>2
<1>7. Page(t).proof.verified <=> Page(t).rail["EXECUTED"] # "future"
    <2>1. Page(t).rail["EXECUTED"] =
            IF Derived(t).state = "EXECUTED" THEN "current"
            ELSE IF \E k \in 1 .. n : trace[k].state = "EXECUTED" THEN "done" ELSE "future"
        BY <1>3, <1>5 DEF Step
    <2>2. Derived(t).state = "EXECUTED" => \E k \in 1 .. n : trace[k].state = "EXECUTED"
        <3>1. ASSUME Derived(t).state = "EXECUTED" PROVE n > 0 /\ trace[n].state = "EXECUTED"
            BY <1>1, <1>2, <3>1 DEF None
        <3>. QED BY <1>1, <3>1
    <2>. QED BY <1>2, <1>3, <2>1, <2>2
<1>8. Derived(t).hashKind # None =>
            /\ Derived(t).hash \in Hashes /\ chain[Derived(t).hash] = "success"
            /\ Page(t).proof.link = <<Kind, Derived(t).hash>>
    <2>1. SUFFICES ASSUME Derived(t).hashKind # None
                   PROVE  /\ Derived(t).hash \in Hashes /\ chain[Derived(t).hash] = "success"
                          /\ Page(t).proof.link = <<Kind, Derived(t).hash>>
        OBVIOUS
    <2>2. PICK k \in 1 .. Len(trace) :
            Derived(t).hash = trace[k].hash /\ Derived(t).hashKind = trace[k].hashKind
        BY <1>2, <2>1
    <2>3. trace[k].hash \in Hashes /\ chain[trace[k].hash] = "success"
        BY <2>1, <2>2 DEF PageInv, RowsInv
    <2>4. Derived(t).hashKind = Kind
        BY <1>1, <2>1, <2>2 DEF Row
    <2>5. (IF Kind = "transaction" THEN "transaction" ELSE "deploy") = Kind
        BY ConsoleAssumption DEF ConsoleAssumption
    <2>. QED BY <1>3, <2>2, <2>3, <2>4, <2>5
<1>9. Page(t).live <=> tab[t].poll # "stopped"
    <2>1. tab[t].poll = "stopped" <=> n > 0 /\ trace[n].state \in Stop
        BY DEF PageInv, PollInv
    <2>2. None \notin Stop
        BY DEF None, Stop, Terminal
    <2>. QED BY <1>1, <1>2, <1>3, <2>1, <2>2
<1>10. n > 0 => (Page(t).offRamp = {} <=>
                    \E state \in HappyPath : Page(t).rail[state] = "current")
    <2>1. SUFFICES ASSUME n > 0
                   PROVE  Page(t).offRamp = {} <=>
                            \E state \in HappyPath : Page(t).rail[state] = "current"
        OBVIOUS
    <2>2. \A state \in HappyPath :
            Page(t).rail[state] = "current" <=> Derived(t).state = state
        BY <1>3 DEF Step
    <2>3. Page(t).offRamp = {} <=> Derived(t).state \notin OffRamp
        BY <1>3
    <2>. QED BY <1>4, <1>5, <2>1, <2>2, <2>3
<1>. QED BY <1>6, <1>7, <1>8, <1>9, <1>10

(* An open page says verified only when an execution of the intent is on     *)
(* record, which does not mean that the chain was asked: a mark's hash is    *)
(* recorded unread.  A hash that was given a kind is of a transaction that   *)
(* succeeded, linked under that kind.  The rail agrees with the proof, and   *)
(* the page is live exactly while it polls.                                  *)
THEOREM PagesAreTrue == Spec => []PageIsTrue
BY PageInvInit, PageInvStep, PageTrue, PTL DEF Spec

-----------------------------------------------------------------------------
(* An intent that can still be executed has not been. *)
FreshInv == ApiState \in {"DRAFT", "POLICY_VALIDATED"} => ~ Executed

LEMMA FreshStep == TypeOK /\ FreshInv /\ [Next]_vars => FreshInv'
<1> SUFFICES ASSUME TypeOK, FreshInv, [Next]_vars PROVE FreshInv'
    OBVIOUS
<1>1. CASE UNCHANGED trace
    BY <1>1 DEF FreshInv, ApiState, Executed
<1>2. ASSUME NEW row \in Row, Record(row),
             \/ ApiState = "DRAFT" /\ row.state \in {"POLICY_VALIDATED", "REJECTED"}
             \/ row.state \in {"REJECTED", "EXECUTED"}
      PROVE  FreshInv'
    <2>1. /\ Len(trace') = Len(trace) + 1 /\ trace'[Len(trace')] = row /\ Len(trace) \in Nat
          /\ \A k \in 1 .. Len(trace) : trace'[k] = trace[k]
        BY <1>2, Appended DEF TypeOK
    <2>2. ApiState' = row.state
        BY <2>1 DEF ApiState
    <2>3. CASE row.state \in {"REJECTED", "EXECUTED"}
        BY <2>2, <2>3 DEF FreshInv
    <2>4. CASE ApiState = "DRAFT" /\ row.state \in {"POLICY_VALIDATED", "REJECTED"}
        <3>1. \A k \in 1 .. Len(trace) : trace[k].state # "EXECUTED"
            BY <2>4 DEF FreshInv, Executed
        <3>2. \A k \in 1 .. Len(trace') : trace'[k].state # "EXECUTED"
            BY <2>1, <2>4, <3>1
        <3>. QED BY <3>2 DEF FreshInv, Executed
    <2>. QED BY <1>2, <2>3, <2>4
<1>3. ASSUME NEW h PROVE /\ RowOf("REJECTED", h).state = "REJECTED"
                         /\ RowOf("EXECUTED", h).state = "EXECUTED"
                         /\ Confirmed(h).state = "EXECUTED"
    BY DEF Confirmed, RowOf
<1>. QED BY <1>1, <1>2, <1>3, TraceFrame, ServedRow

(* One job at a time, whose page is busy or was left, with the only request. *)
OneJob ==
    /\ \A j, k \in Jobs : Running(j) /\ Running(k) => j = k
    /\ \A j \in Jobs : Running(j) => tab[job[j].tab].busy \/ ~ Open(job[j].tab)
    /\ \A j \in Jobs : request[j] # NoRequest => Awaits(j)

(* A co-sign that may still be executed is of an intent that can be; when it *)
(* is answered well its transaction is on record.                            *)
Paying(j) ==
    job[j].pc \in {"popup", "handed"} \/ At(j, "confirm", "sent") \/ At(j, "confirm", "node")

JobInv ==
    \A j \in Jobs :
        /\ job[j].pc \in {"build", "popup", "call"} => job[j].hash = None
        /\ Paying(j) => ApiState = "POLICY_VALIDATED"
        /\ job[j].pc = "confirm" => request[j].hash = job[j].hash
        /\ At(j, "confirm", "ok") => Recorded(request[j].hash)

(* At most one transaction was broadcast; it is carried by its job or on     *)
(* record.                                                                   *)
ChainInv ==
    /\ \A g, h \in Broadcast : g = h
    /\ \A h \in Broadcast : Recorded(h) \/ Carried(h)

PaidInv == smooth => OneJob /\ JobInv /\ ChainInv

LEMMA RecordedStays ==
    ASSUME TypeOK, [Next]_vars, NEW h, Recorded(h) PROVE Recorded(h)'
<1>1. DOMAIN trace = 1 .. Len(trace)
    BY DEF TypeOK
<1>2. trace' \in Seq(Row)
    BY TraceGrows
<1>3. DOMAIN trace' = 1 .. Len(trace')
    BY <1>2
<1>4. PICK k \in 1 .. Len(trace) : trace[k] = Confirmed(h)
    BY <1>1 DEF Recorded
<1>5. k \in DOMAIN trace' /\ trace'[k] = Confirmed(h)
    BY <1>3, <1>4, TraceGrows
<1>. QED BY <1>5 DEF Recorded

LEMMA ClickPays ==
    ASSUME TypeOK, SentInv, PaidInv, [Next]_vars, smooth',
           NEW j \in Jobs, NEW t \in Tabs, Click(j, t)
    PROVE  OneJob' /\ JobInv' /\ ChainInv'
<1>1. smooth /\ OneJob /\ JobInv /\ ChainInv
    BY DEF Click, ClickSign, ClickMark, ClickValidate, ClickReject, PaidInv
<1>2. \A k \in Jobs : ~ Running(k)
    <2>1. CASE AllIdle
        BY <2>1 DEF AllIdle
    <2>2. CASE Open(t) /\ ~ tab[t].busy /\ OthersIdle(t)
        BY <1>1, <2>2 DEF OneJob, OthersIdle, JobsOf
    <2>3. PrimaryEnabled(t) => Open(t) /\ ~ tab[t].busy
        BY DEF PrimaryEnabled, Panel, None
    <2>. QED BY <2>1, <2>2, <2>3 DEF Click, ClickSign, ClickMark, ClickValidate, ClickReject
<1>3. \A k \in Jobs : request[k] = NoRequest
    BY <1>1, <1>2 DEF OneJob, Awaits, Running
<1>4. PICK op \in Ops, pc \in {"build", "call"}, status \in {None, tab[t].status} :
        /\ job'[j] = Started(op, pc, t)
        /\ SameView(t) /\ tab'[t].busy /\ tab'[t].status = status
        /\ op = "sign" <=> pc = "build"
        /\ pc = "build" => UNCHANGED request
        /\ pc = "call" => \E hash \in Hashes \cup {None, OtherHash} :
                /\ request'[j] = [op |-> op, pc |-> "sent", hash |-> hash]
                /\ op = "mark" => hash # None
    BY Clicked, Zenon
<1>5. /\ \A k \in Jobs \ {j} : job'[k] = job[k] /\ request'[k] = request[k]
      /\ UNCHANGED <<known, trace, chain, toConfirm>>
    BY Clicked
<1>6. /\ job'[j].pc = pc /\ job'[j].tab = t /\ job'[j].hash = None
      /\ request'[j].op # "confirm"
      /\ request'[j] # NoRequest => pc = "call"
    <2>1. CASE pc = "build"
        BY <1>3, <1>4, <2>1 DEF NoRequest, Started
    <2>2. CASE pc = "call"
        <3>1. PICK hash \in Hashes \cup {None, OtherHash} :
                request'[j] = [op |-> op, pc |-> "sent", hash |-> hash]
            BY <1>4, <2>2, Zenon
        <3>2. op # "confirm"
            BY DEF Ops
        <3>. QED BY <1>4, <2>2, <3>1, <3>2 DEF Started
    <2>. QED BY <2>1, <2>2
<1>7. OneJob'
    BY <1>2, <1>3, <1>4, <1>5, <1>6 DEF OneJob, Running, Awaits
<1>8. JobInv'
    <2>1. ApiState' = ApiState /\ \A h : Recorded(h)' <=> Recorded(h)
        BY <1>5 DEF ApiState, Recorded
    <2>2. ~ Paying(j)'
        BY <1>6 DEF Paying, At
    <2>3. \A k \in Jobs \ {j} : ~ Paying(k)' /\ job'[k].pc # "confirm" /\ ~ At(k, "confirm", "ok")'
        BY <1>2, <1>3, <1>5 DEF Paying, At, Running, NoRequest
    <2>4. ~ At(j, "confirm", "ok")'
        BY <1>6 DEF At
    <2>. QED BY <1>1, <1>5, <1>6, <2>2, <2>3, <2>4 DEF JobInv
<1>9. ChainInv'
    BY <1>1, <1>2, <1>5 DEF ChainInv, Broadcast, Carried, Recorded
<1>. QED BY <1>7, <1>8, <1>9

LEMMA EndPays ==
    ASSUME TypeOK, SentInv, PaidInv, [Next]_vars, smooth', NEW j \in Jobs, EndStep(j)
    PROVE  OneJob' /\ JobInv' /\ ChainInv'
<1>1. /\ smooth /\ UNCHANGED <<trace, chain>>
      /\ \/ job[j].pc = "popup" /\ UNCHANGED request
         \/ Awaits(j) /\ request[j].pc = "ok" /\ request' = [request EXCEPT ![j] = NoRequest]
    BY DEF EndStep, BuildRefused, Cancel, SendFails, Answered, AnswerLost, EndInError,
           BroadcastUnanswered, api, history
<1>2. OneJob /\ JobInv /\ ChainInv
    BY <1>1 DEF PaidInv
<1>3. /\ Running(j) /\ job'[j] = Over
      /\ \A k \in Jobs \ {j} : job'[k] = job[k] /\ request'[k] = request[k]
    BY EndedJob
<1>4. \A k \in Jobs : ~ Running(k)'
    BY <1>2, <1>3 DEF OneJob, Running, Over, New
<1>5. request'[j] = NoRequest
    <2>1. CASE job[j].pc = "popup" /\ UNCHANGED request
        BY <1>2, <2>1 DEF OneJob, Awaits
    <2>2. CASE request' = [request EXCEPT ![j] = NoRequest]
        BY <2>2 DEF TypeOK
    <2>. QED BY <1>1, <2>1, <2>2
<1>6. \A k \in Jobs : request'[k] = NoRequest
    BY <1>2, <1>3, <1>4, <1>5 DEF OneJob, Awaits, Running
<1>7. OneJob'
    BY <1>4, <1>6 DEF OneJob
<1>8. JobInv'
    <2>1. \A k \in Jobs : ~ Paying(k)' /\ ~ At(k, "confirm", "ok")'
        BY <1>4, <1>6 DEF Paying, At, Running, NoRequest
    <2>2. \A k \in Jobs : job'[k].pc \notin {"build", "popup", "call", "confirm"}
        BY <1>4 DEF Running
    <2>. QED BY <2>1, <2>2 DEF JobInv
<1>9. ChainInv'
    <2>1. ASSUME NEW h \in Broadcast, ~ Recorded(h) PROVE FALSE
        <3>1. Carried(h)
            BY <1>2, <2>1 DEF ChainInv
        <3>2. job[j].hash = h
            BY <1>2, <1>3, <3>1 DEF Carried, OneJob
        <3>3. h # None
            BY ConsoleAssumption DEF ConsoleAssumption, Broadcast
        <3>4. job[j].pc = "confirm" /\ request[j].pc = "ok"
            BY <1>1, <1>2, <3>2, <3>3 DEF JobInv, Awaits
        <3>5. At(j, "confirm", "ok") /\ request[j].hash = h
            BY <1>2, <3>2, <3>4 DEF SentInv, JobInv, At
        <3>. QED BY <1>2, <2>1, <3>5 DEF JobInv
    <2>. QED BY <1>1, <1>2, <2>1 DEF ChainInv, Broadcast, Recorded
<1>. QED BY <1>7, <1>8, <1>9

(* While a job is in the wallet's popup, no transaction has gone out. *)
LEMMA PopupIsFirst ==
    ASSUME FreshInv, OneJob, JobInv, ChainInv, TypeOK, NEW j \in Jobs, job[j].pc = "popup"
    PROVE  Broadcast = {}
<1>1. ASSUME NEW h \in Broadcast PROVE FALSE
    <2>1. h # None
        BY ConsoleAssumption DEF ConsoleAssumption, Broadcast
    <2>2. ~ Executed
        BY DEF JobInv, Paying, FreshInv
    <2>3. Confirmed(h).state = "EXECUTED"
        BY DEF Confirmed, RowOf
    <2>4. DOMAIN trace = 1 .. Len(trace)
        BY DEF TypeOK
    <2>5. ~ Recorded(h)
        BY <2>2, <2>3, <2>4 DEF Executed, Recorded
    <2>6. PICK k \in Jobs : Running(k) /\ job[k].hash = h
        BY <2>5 DEF ChainInv, Carried
    <2>7. k = j
        BY <2>6 DEF OneJob, Running
    <2>. QED BY <2>1, <2>6, <2>7 DEF JobInv
<1>. QED BY <1>1

LEMMA MovePays ==
    ASSUME TypeOK, SentInv, FreshInv, PaidInv, [Next]_vars, smooth',
           NEW j \in Jobs, MoveStep(j)
    PROVE  OneJob' /\ JobInv' /\ ChainInv'
<1>1. smooth /\ UNCHANGED <<known, trace, tab>>
    BY DEF MoveStep, BuildAnswered, BroadcastReported, ConfirmSent, api, history
<1>2. OneJob /\ JobInv /\ ChainInv
    BY <1>1 DEF PaidInv
<1>3. /\ Running(j) /\ job[j] \in JobRow /\ job'[j] \in JobRow
      /\ job'[j].tab = job[j].tab /\ \A k \in Jobs \ {j} : job'[k] = job[k]
    BY Moved, RunningRow
<1>4. /\ \A k \in Jobs : Running(k)' <=> Running(k)
      /\ \A k \in Jobs : Running(k) => k = j
    <2>1. Running(j)'
        BY <1>3 DEF Running, JobRow
    <2>. QED BY <1>2, <1>3, <2>1 DEF Running, OneJob
<1>5. ApiState' = ApiState /\ \A h : Recorded(h)' <=> Recorded(h)
    BY <1>1 DEF ApiState, Recorded
<1>6. job \in [Jobs -> {New, Over} \cup JobRow]
    BY DEF TypeOK, JobRow
<1>7. \A k \in Jobs \ {j} :
        /\ request[k] = NoRequest /\ ~ Paying(k) /\ ~ At(k, "confirm", "ok")
        /\ job[k].pc \notin {"build", "popup", "call", "confirm", "handed"}
    BY <1>2, <1>4 DEF OneJob, Awaits, Running, Paying, At, NoRequest
<1>8. \A k \in Jobs : Running(k)' => tab'[job'[k].tab].busy \/ tab'[job'[k].tab].poll = "gone"
    <2>1. tab[job[j].tab].busy \/ tab[job[j].tab].poll = "gone"
        BY <1>2, <1>3 DEF OneJob, Open
    <2>. QED BY <1>1, <1>3, <1>4, <2>1
<1>9. CASE BuildAnswered(j)
    <2>1. /\ job[j].pc = "build" /\ ApiState = "POLICY_VALIDATED"
          /\ job' = [job EXCEPT ![j].pc = "popup"] /\ UNCHANGED <<request, chain>>
        BY <1>9 DEF BuildAnswered, api
    <2>2. job'[j].pc = "popup" /\ job'[j].hash = None
        BY <1>2, <1>3, <1>6, <2>1 DEF JobRow, JobInv
    <2>3. request[j] = NoRequest
        BY <1>2, <2>1 DEF OneJob, Awaits
    <2>4. OneJob'
        BY <1>4, <1>7, <1>8, <2>1, <2>3 DEF OneJob, Open
    <2>5. JobInv'
        <3>1. ~ At(j, "confirm", "ok")'
            BY <2>1, <2>3 DEF At, NoRequest
        <3>2. \A k \in Jobs \ {j} : job'[k] = job[k] /\ request'[k] = request[k]
            BY <1>3, <2>1
        <3>3. \A k \in Jobs \ {j} : ~ Paying(k)' /\ ~ At(k, "confirm", "ok")'
            BY <1>7, <3>2 DEF Paying, At
        <3>. QED BY <1>5, <1>7, <2>1, <2>2, <3>1, <3>2, <3>3 DEF JobInv
    <2>6. ChainInv'
        <3>1. \A k \in Jobs : job'[k].hash = job[k].hash
            BY <1>2, <1>3, <2>1, <2>2 DEF JobInv
        <3>. QED BY <1>2, <1>4, <1>5, <2>1, <3>1 DEF ChainInv, Broadcast, Carried
    <2>. QED BY <2>4, <2>5, <2>6
<1>10. ASSUME NEW h \in Hashes, BroadcastReported(j, h) PROVE OneJob' /\ JobInv' /\ ChainInv'
    <2>1. /\ job[j].pc = "popup" /\ UNCHANGED request
          /\ job' = [job EXCEPT ![j].pc = "handed", ![j].hash = h]
        BY <1>10 DEF BroadcastReported, Signed, api
    <2>2. job'[j].pc = "handed" /\ job'[j].hash = h
        BY <1>3, <1>6, <2>1 DEF JobRow
    <2>3. request[j] = NoRequest
        BY <1>2, <2>1 DEF OneJob, Awaits
    <2>4. OneJob'
        BY <1>4, <1>7, <1>8, <2>1, <2>3 DEF OneJob, Open
    <2>5. JobInv'
        <3>1. ~ At(j, "confirm", "ok")'
            BY <2>1, <2>3 DEF At, NoRequest
        <3>2. \A k \in Jobs \ {j} : job'[k] = job[k] /\ request'[k] = request[k]
            BY <1>3, <2>1
        <3>3. \A k \in Jobs \ {j} : ~ Paying(k)' /\ ~ At(k, "confirm", "ok")'
            BY <1>7, <3>2 DEF Paying, At
        <3>4. ApiState = "POLICY_VALIDATED"
            BY <1>2, <2>1 DEF JobInv, Paying
        <3>5. \A k \in Jobs : job'[k].pc \notin {"build", "popup", "call", "confirm"}
            BY <1>7, <2>2, <3>2
        <3>6. \A k \in Jobs : ~ At(k, "confirm", "ok")'
            BY <3>1, <3>3
        <3>7. ApiState' = "POLICY_VALIDATED"
            BY <1>5, <3>4
        <3>. QED BY <3>5, <3>6, <3>7 DEF JobInv
    <2>6. ChainInv'
        <3>1. Broadcast = {}
            BY <1>2, <2>1, PopupIsFirst
        <3>2. \A g \in Hashes \ {h} : chain'[g] = None
            <4>1. PICK fate \in {"success", "reverted"} : chain' = [chain EXCEPT ![h] = fate]
                BY <1>10 DEF BroadcastReported, Signed
            <4>2. \A g \in Hashes \ {h} : chain'[g] = chain[g]
                BY <4>1 DEF TypeOK
            <4>. QED BY <3>1, <4>2 DEF Broadcast
        <3>3. Carried(h)'
            BY <1>4, <1>3, <2>2 DEF Carried
        <3>. QED BY <3>2, <3>3 DEF ChainInv, Broadcast
    <2>. QED BY <2>4, <2>5, <2>6
<1>11. CASE ConfirmSent(j)
    <2>1. /\ job[j].pc = "handed" /\ job' = [job EXCEPT ![j].pc = "confirm"] /\ UNCHANGED chain
          /\ request' = [request EXCEPT ![j] =
                [op |-> "confirm", pc |-> "sent", hash |-> job[j].hash]]
        BY <1>11 DEF ConfirmSent, Post
    <2>2. job'[j].pc = "confirm" /\ job'[j].hash = job[j].hash
        BY <1>3, <1>6, <2>1 DEF JobRow
    <2>3. /\ request'[j] = [op |-> "confirm", pc |-> "sent", hash |-> job[j].hash]
          /\ \A k \in Jobs \ {j} : request'[k] = request[k]
        BY <2>1 DEF TypeOK
    <2>4. OneJob'
        BY <1>4, <1>7, <1>8, <2>2, <2>3 DEF OneJob, Awaits, Open
    <2>5. JobInv'
        <3>1. ~ At(j, "confirm", "ok")'
            BY <2>3 DEF At
        <3>2. \A k \in Jobs \ {j} : job'[k] = job[k] /\ request'[k] = request[k]
            BY <1>3, <2>3
        <3>3. \A k \in Jobs \ {j} : ~ Paying(k)' /\ ~ At(k, "confirm", "ok")'
            BY <1>7, <3>2 DEF Paying, At
        <3>4. ApiState = "POLICY_VALIDATED"
            BY <1>2, <2>1 DEF JobInv, Paying
        <3>5. request'[j].hash = job'[j].hash
            BY <2>2, <2>3
        <3>. QED BY <1>5, <1>7, <2>2, <3>1, <3>2, <3>3, <3>4, <3>5 DEF JobInv
    <2>6. ChainInv'
        <3>1. \A k \in Jobs : job'[k].hash = job[k].hash
            BY <1>3, <2>2
        <3>. QED BY <1>2, <1>4, <1>5, <2>1, <3>1 DEF ChainInv, Broadcast, Carried
    <2>. QED BY <2>4, <2>5, <2>6
<1>. QED BY <1>9, <1>10, <1>11 DEF MoveStep

LEMMA ServePays ==
    ASSUME TypeOK, SentInv, PaidInv, [Next]_vars, smooth', NEW j \in Jobs, ApiStep(j)
    PROVE  OneJob' /\ JobInv' /\ ChainInv'
<1>1. /\ smooth /\ UNCHANGED <<chain, job, tab>>
      /\ request[j] \in Requested /\ \A k \in Jobs \ {j} : request'[k] = request[k]
    BY Served DEF history
<1>2. OneJob /\ JobInv /\ ChainInv
    BY <1>1 DEF PaidInv
<1>3. PICK pc \in {"node", "ok", "error"} : request'[j] = [request[j] EXCEPT !.pc = pc]
    BY Served
<1>4. /\ request'[j] \in Requested /\ request'[j].pc = pc
      /\ request'[j].op = request[j].op /\ request'[j].hash = request[j].hash
    BY <1>1, <1>3 DEF Requested
<1>5. /\ Awaits(j)
      /\ \A k \in Jobs \ {j} : ~ Running(k) /\ request[k] = NoRequest
    <2>1. request[j] # NoRequest
        BY <1>1 DEF Requested, Calls, NoRequest
    <2>2. Awaits(j) /\ Running(j)
        BY <1>2, <2>1 DEF OneJob, Awaits, Running
    <2>. QED BY <1>2, <2>2 DEF OneJob, Awaits, Running
<1>6. OneJob'
    BY <1>1, <1>2, <1>5 DEF OneJob, Running, Awaits, Open
<1>7. ChainInv'
    <2>1. \A h : Recorded(h) => Recorded(h)'
        BY RecordedStays
    <2>2. \A h : Carried(h) => Carried(h)'
        BY <1>1 DEF Carried, Running
    <2>3. Broadcast' = Broadcast
        BY <1>1 DEF Broadcast
    <2>. QED BY <1>2, <2>1, <2>2, <2>3 DEF ChainInv
<1>8. JobInv'
    <2>1. \A k \in Jobs \ {j} : ~ Paying(k)' /\ ~ At(k, "confirm", "ok")'
        BY <1>1, <1>5 DEF Paying, At, Running, NoRequest
    <2>2. \A k \in Jobs :
            /\ job'[k].pc \in {"build", "popup", "call"} => job'[k].hash = None
            /\ job'[k].pc = "confirm" => request'[k].hash = job'[k].hash
        BY <1>1, <1>2, <1>4 DEF JobInv
    <2>3. PICK h : h = request[j].hash
        OBVIOUS
    <2>4. /\ Paying(j)' => ApiState' = "POLICY_VALIDATED"
          /\ At(j, "confirm", "ok")' => Recorded(h)'
        <3>1. CASE request[j].op # "confirm"
            <4>1. job[j].pc = "call"
                BY <1>5, <3>1 DEF Awaits, SentInv
            <4>. QED BY <1>1, <1>4, <3>1, <4>1 DEF Paying, At
        <3>2. CASE ServeConfirm(j)
            <4>1. ApiState = "POLICY_VALIDATED" /\ UNCHANGED trace
                BY <1>2, <3>2 DEF ServeConfirm, JobInv, Paying
            <4>2. request' = [request EXCEPT ![j].pc = "node"]
                  \/ request' = [request EXCEPT ![j].pc = "error"]
                BY <3>2, <4>1 DEF ServeConfirm, Reply
            <4>3. request'[j].pc # "ok"
                BY <1>1, <4>2 DEF TypeOK, Requested
            <4>. QED BY <4>1, <4>3 DEF At, ApiState
        <3>3. CASE ConfirmFinalized(j)
            <4>1. job[j].pc \notin {"popup", "handed"}
                BY <1>5 DEF Awaits
            <4>2. request'[j].pc = "ok"
                BY <1>1, <3>3 DEF ConfirmFinalized, Reply, TypeOK, Requested
            <4>3. Recorded(h)'
                <5>1. trace \in Seq(Row) /\ trace' = Append(trace, Confirmed(h))
                    BY <2>3, <3>3 DEF ConfirmFinalized, Record, TypeOK
                <5>2. Len(trace) + 1 \in DOMAIN trace' /\ trace'[Len(trace) + 1] = Confirmed(h)
                    BY <5>1
                <5>. QED BY <5>2 DEF Recorded
            <4>. QED BY <1>1, <4>1, <4>2, <4>3 DEF Paying, At
        <3>4. CASE ConfirmFails(j)
            <4>1. job[j].pc \notin {"popup", "handed"}
                BY <1>5 DEF Awaits
            <4>2. request'[j].pc = "error"
                BY <1>1, <3>4 DEF ConfirmFails, Reply, TypeOK, Requested
            <4>. QED BY <1>1, <4>1, <4>2 DEF Paying, At
        <3>. QED BY <3>1, <3>2, <3>3, <3>4 DEF ApiStep, ServeValidate, ServeMark, ServeReject,
                    Serve, At
    <2>5. Recorded(h)' => Recorded(request[j].hash)'
        BY <1>4, <2>3 DEF Recorded
    <2>6. \A k \in Jobs :
            /\ Paying(k)' => ApiState' = "POLICY_VALIDATED"
            /\ At(k, "confirm", "ok")' => Recorded(request[k].hash)'
        BY <2>1, <2>4, <2>5
    <2>. QED BY <2>2, <2>6 DEF JobInv
<1>. QED BY <1>6, <1>7, <1>8

(* The polls, what the user does around the page and a restart of the API.   *)
QuietStep ==
    \/ \E t \in Tabs : Polling(t) \/ Navigation(t)
    \/ Restart \/ UNCHANGED vars

LEMMA QuietPays ==
    ASSUME TypeOK, SentInv, PaidInv, [Next]_vars, smooth', QuietStep
    PROVE  OneJob' /\ JobInv' /\ ChainInv'
<1>1. smooth /\ UNCHANGED <<trace, chain>>
    BY DEF QuietStep, Polling, PollAnswered, PollFails, PollAgain, Navigation, LeavePage,
           OpenPage, CloseTab, Restart, vars, api, history
<1>2. OneJob /\ JobInv /\ ChainInv
    BY <1>1 DEF PaidInv
<1>3. \A k \in Jobs : GoesOn(k)
    <2>1. ASSUME NEW t \in Tabs, Navigation(t) PROVE \A k \in Jobs : GoesOn(k)
        <3>1. CASE CloseTab(t)
            <4>1. /\ JobsOf(t) = {}
                  /\ job' = [k \in Jobs |-> IF k \in JobsOf(t) THEN Over ELSE job[k]]
                BY <3>1 DEF CloseTab
            <4>. QED BY <4>1 DEF GoesOn
        <3>2. CASE ~ CloseTab(t)
            BY <2>1, <3>2, Navigated
        <3>. QED BY <3>1, <3>2
    <2>2. CASE UNCHANGED job
        BY <2>2 DEF GoesOn
    <2>. QED BY <2>1, <2>2 DEF QuietStep, Polling, PollAnswered, PollFails, PollAgain, Restart,
                               vars
<1>4. \A k \in Jobs : Running(k) =>
        /\ job[k].tab \in Tabs
        /\ tab'[job[k].tab].busy \/ tab'[job[k].tab].poll = "gone"
    <2>1. SUFFICES ASSUME NEW k \in Jobs, Running(k), NEW u \in Tabs, u = job[k].tab
                   PROVE  tab'[u].busy \/ tab'[u].poll = "gone"
        BY RunningRow
    <2>2. tab[u].busy \/ tab[u].poll = "gone"
        BY <1>2, <2>1 DEF OneJob, Open
    <2>3. tab \in [Tabs -> TabRow] /\ tab[u] \in TabRow
        BY DEF TypeOK, TabRow
    <2>4. CASE tab'[u] = tab[u]
        BY <2>2, <2>4
    <2>5. CASE Polling(u)
        <3>1. tab[u].poll # "gone"
            BY <2>5 DEF Polling, PollAnswered, PollFails, PollAgain
        <3>2. tab'[u].busy = tab[u].busy
            <4>1. CASE PollAnswered(u)
                BY <2>3, <4>1 DEF PollAnswered, TabRow
            <4>2. CASE PollFails(u) \/ PollAgain(u)
                BY <2>3, <4>2 DEF PollFails, PollAgain, TabRow
            <4>. QED BY <2>5, <4>1, <4>2 DEF Polling
        <3>. QED BY <2>2, <3>1, <3>2
    <2>6. CASE Navigation(u)
        <3>1. JobsOf(u) # {}
            BY <2>1 DEF JobsOf
        <3>2. LeavePage(u)
            BY <1>1, <2>6, <3>1 DEF Navigation, OpenPage, CloseTab
        <3>. QED BY <2>3, <3>2 DEF LeavePage, Gone
    <2>7. ASSUME NEW t \in Tabs, t # u, Polling(t) PROVE tab'[u] = tab[u]
        BY <2>3, <2>7 DEF Polling, PollAnswered, PollFails, PollAgain
    <2>8. ASSUME NEW t \in Tabs, t # u, Navigation(t) PROVE tab'[u] = tab[u]
        BY <2>8, Navigated
    <2>. QED BY <2>4, <2>5, <2>6, <2>7, <2>8 DEF QuietStep, Restart, vars
<1>5. \A k \in Jobs :
        /\ request'[k] = NoRequest <=> request[k] = NoRequest
        /\ \/ request'[k] = request[k]
           \/ /\ request'[k].pc = "error" /\ request'[k].op = request[k].op
              /\ request'[k].hash = request[k].hash
    <2>1. CASE Restart
        <3>1. \A k \in Jobs :
                /\ request[k] = NoRequest => request'[k] = NoRequest
                /\ request[k] # NoRequest => request'[k] = [request[k] EXCEPT !.pc = "error"]
            BY <2>1 DEF Restart
        <3>2. \A k \in Jobs : request[k] # NoRequest => request[k] \in Requested
            BY DEF TypeOK, Requested, Calls
        <3>3. ASSUME NEW k \in Jobs, request[k] # NoRequest
              PROVE  /\ request'[k] # NoRequest
                     /\ request'[k].pc = "error" /\ request'[k].op = request[k].op
                     /\ request'[k].hash = request[k].hash
            BY <3>1, <3>2, <3>3 DEF Requested, NoRequest
        <3>. QED BY <3>1, <3>3
    <2>2. CASE UNCHANGED request
        BY <2>2
    <2>. QED BY <2>1, <2>2 DEF QuietStep, Polling, PollAnswered, PollFails, PollAgain,
                Navigation, LeavePage, OpenPage, CloseTab, vars, api
<1>6. OneJob'
    BY <1>2, <1>3, <1>4, <1>5 DEF OneJob, GoesOn, Running, Awaits, Open
<1>7. JobInv'
    <2>1. ApiState' = ApiState /\ \A h : Recorded(h)' <=> Recorded(h)
        BY <1>1 DEF ApiState, Recorded
    <2>2. \A k \in Jobs : Paying(k)' => Paying(k)
        BY <1>3, <1>5 DEF GoesOn, Paying, At
    <2>3. \A k \in Jobs : At(k, "confirm", "ok")' =>
            At(k, "confirm", "ok") /\ request'[k] = request[k]
        BY <1>5 DEF At
    <2>4. \A k \in Jobs : request'[k] = request[k] \/ request'[k].hash = request[k].hash
        BY <1>5
    <2>. QED BY <1>2, <1>3, <2>1, <2>2, <2>3, <2>4 DEF GoesOn, JobInv
<1>8. ChainInv'
    BY <1>1, <1>2, <1>3 DEF ChainInv, Broadcast, Recorded, Carried, GoesOn, Running
<1>. QED BY <1>6, <1>7, <1>8

LEMMA PaidStep == TypeOK /\ SentInv /\ FreshInv /\ PaidInv /\ [Next]_vars => PaidInv'
<1> SUFFICES ASSUME TypeOK, SentInv, FreshInv, PaidInv, [Next]_vars, smooth'
             PROVE  OneJob' /\ JobInv' /\ ChainInv'
    BY DEF PaidInv
<1>1. ASSUME NEW j \in Jobs, JobStep(j) PROVE EndStep(j) \/ MoveStep(j)
    BY <1>1 DEF JobStep, EndStep, MoveStep
<1>2. \/ \E j \in Jobs, t \in Tabs : Click(j, t)
      \/ \E j \in Jobs : EndStep(j) \/ MoveStep(j) \/ ApiStep(j)
      \/ QuietStep
    BY <1>1 DEF Next, QuietStep, Navigation
<1>. QED BY <1>2, ClickPays, EndPays, MovePays, ServePays, QuietPays

LEMMA PaidOnce == TypeOK /\ PaidInv => PaidOnceOnRecord
<1> SUFFICES ASSUME TypeOK, ChainInv PROVE /\ Cardinality(Broadcast) <= 1
             /\ \A h \in Hashes : chain[h] = "success" => Recorded(h) \/ Carried(h)
    BY DEF PaidInv, PaidOnceOnRecord
<1>1. Broadcast = {} \/ \E h : Broadcast = {h}
    BY DEF ChainInv
<1>2. Cardinality(Broadcast) <= 1
    <2>1. CASE Broadcast = {}
        BY <2>1, FS_EmptySet
    <2>2. CASE \E h : Broadcast = {h}
        BY <2>2, FS_Singleton
    <2>. QED BY <1>1, <2>1, <2>2
<1>3. \A h \in Hashes : chain[h] = "success" => h \in Broadcast
    BY DEF Broadcast, None
<1>. QED BY <1>2, <1>3 DEF ChainInv

(* In a history where no job failed and, while one ran, nobody worked in     *)
(* another tab, validated, rejected, closed the tab or came back to the      *)
(* page, at most one payment was broadcast, and one that went through is on  *)
(* record or under way to the API.  The page may be left at any time.        *)
THEOREM PaymentsAreRecorded == Spec => []PaidOnceOnRecord
<1>1. Init => SentInv /\ FreshInv /\ PaidInv
    <2> SUFFICES ASSUME Init PROVE SentInv /\ FreshInv /\ PaidInv
        OBVIOUS
    <2>1. \A j \in Jobs : job[j] = New /\ request[j] = NoRequest
        BY DEF Init
    <2>2. SentInv
        BY <2>1 DEF SentInv, New, NoRequest
    <2>3. FreshInv
        BY DEF Init, FreshInv, Executed, ApiState, RowOf
    <2>4. OneJob /\ JobInv
        BY <2>1 DEF OneJob, JobInv, Running, Paying, At, New, NoRequest
    <2>5. Broadcast = {}
        BY DEF Init, Broadcast
    <2>. QED BY <2>2, <2>3, <2>4, <2>5 DEF PaidInv, ChainInv
<1>. QED BY <1>1, TypeInit, TypeStep, SentStep, FreshStep, PaidStep, PaidOnce, PTL DEF Spec

=============================================================================
