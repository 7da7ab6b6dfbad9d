--------------------------- MODULE IntentConsole ---------------------------
(***************************************************************************)
(* The web console's page of one intent (apps/web): each tab polls the      *)
(* intent's trace and offers the actions its last row allows, among them    *)
(* the live co-sign, in which the user's wallet signs and broadcasts a      *)
(* transaction that the API then verifies on chain.                         *)
(*                                                                          *)
(* A click starts a job: one run() of IntentDetailView, which sends one     *)
(* request, or for a co-sign builds, signs and confirms in turn.  Jobs of a *)
(* page share its busy flag and its status line.  A job outlives the page:  *)
(* when the user goes to another page of the app only the polling ends, and *)
(* a page opened anew knows nothing of it.  A request may fail for the      *)
(* client while the API still serves it.  The API is the one of IntentApi   *)
(* reduced to one intent: a handler is one step, except that confirm-       *)
(* onchain checks the state before it waits for the node and records after. *)
(* The wallet and the chain are external.                                   *)
(***************************************************************************)
EXTENDS Integers, Sequences, FiniteSetsExt

CONSTANTS
    Tabs,
    MaxJobs,   \* bound on the jobs ever started
    Hashes,    \* transactions the wallet may broadcast
    Kind       \* what they are to the node: "deploy" or "transaction"


VARIABLES
    known,     \* the API still has the intent in its map
    trace,     \* the intent's audit rows
    request,   \* job -> its request at the API, or NoRequest
    chain,     \* hash -> what becomes of it on chain, None before it is broadcast
    tab,       \* tab -> what it shows and does
    job,       \* job -> where it stands
    toConfirm, \* history: hashes the wallet reported to a tab that has not yet asked the
               \* API to confirm them
    smooth     \* history: no job failed and nobody acted behind a job's back

api == <<known, trace, request>>
history == <<toConfirm, smooth>>
vars == <<api, chain, tab, job, history>>

None == "none"
Jobs == 1 .. MaxJobs
New == [op |-> None, pc |-> "new", tab |-> None, hash |-> None, mounted |-> FALSE]
Over == [New EXCEPT !.pc = "over"]
NoRequest == [op |-> "none", pc |-> "none"]
Terminal == {"FINALIZED", "EXECUTION_FAILED", "REJECTED", "TIMEOUT"}
(* POLLING_STOP_STATES *)
Stop == Terminal \cup {"EXECUTED"}

(* A deploy hash that is no transaction of this page's wallets. *)
OtherHash == "other"

ASSUME ConsoleAssumption ==
    /\ MaxJobs \in Nat \ {0} /\ Kind \in {"deploy", "transaction"}
    /\ None \notin Hashes /\ OtherHash \notin Hashes

(* An audit row: the state it leaves the intent in, and for an execution its  *)
(* hash and, if the API asked the chain, the kind the chain gave it.          *)
RowOf(state, hash) == [state |-> state, hash |-> hash, hashKind |-> None]
Confirmed(hash) == [RowOf("EXECUTED", hash) EXCEPT !.hashKind = Kind]
ApiState == trace[Len(trace)].state

(* A page as it is mounted, and a tab that does not show the intent's page. *)
Fresh == [poll |-> "asked", shown |-> 0, missing |-> FALSE, busy |-> FALSE, status |-> None]
Gone == [Fresh EXCEPT !.poll = "gone"]

Init ==
    /\ known = TRUE
    /\ trace \in {<<RowOf("DRAFT", None)>>,
                  <<RowOf("DRAFT", None), RowOf("POLICY_VALIDATED", None)>>}
    /\ request = [j \in Jobs |-> NoRequest]
    /\ chain = [h \in Hashes |-> None]
    /\ tab = [t \in Tabs |-> Fresh]
    /\ job = [j \in Jobs |-> New]
    /\ toConfirm = {} /\ smooth = TRUE

Open(t) == tab[t].poll # "gone"
Running(j) == job[j].pc \notin {"new", "over"}
JobsOf(t) == {j \in Jobs : Running(j) /\ job[j].tab = t}

-----------------------------------------------------------------------------
(* Polling (useIntentTrace).  What a tab shows is the first `shown` rows of  *)
(* the trace, taken in the order of its appends.  How long an answer was     *)
(* under way does not matter: what is shown may be old anyway.               *)
PollAnswered(t) ==
    /\ tab[t].poll = "asked"
    /\ \/ known
            /\ tab' = [tab EXCEPT
                   ![t].shown = Len(trace),
                   ![t].poll = IF ApiState \in Stop THEN "stopped" ELSE "sleeping"]
       \/ ~ known
            /\ tab' = [tab EXCEPT ![t].poll = "stopped", ![t].missing = TRUE]
    /\ UNCHANGED <<api, chain, job, history>>

(* A failure other than a 404 is taken for a blip. *)
PollFails(t) ==
    /\ tab[t].poll = "asked"
    /\ tab' = [tab EXCEPT ![t].poll = "sleeping"]
    /\ UNCHANGED <<api, chain, job, history>>

(* Mutated form: no polling while an action runs. *)
PollAgainWhenIdle(t) ==
    /\ tab[t].poll = "sleeping" /\ ~ tab[t].busy
    /\ tab' = [tab EXCEPT ![t].poll = "asked"]
    /\ UNCHANGED <<api, chain, job, history>>

PollAgain(t) ==
    /\ tab[t].poll = "sleeping"
    /\ tab' = [tab EXCEPT ![t].poll = "asked"]
    /\ UNCHANGED <<api, chain, job, history>>

-----------------------------------------------------------------------------
(* What the page makes of the rows it has.                                   *)
HappyPath ==
    {"DRAFT", "POLICY_VALIDATED", "PAYMENT_REQUIRED", "PAYMENT_VERIFIED", "READY_TO_SUBMIT",
     "SIGNED_RECEIVED", "ACCEPTED_BY_NODE", "EXECUTED", "FINALIZED"}
OffRamp == {"REJECTED", "EXECUTION_FAILED", "TIMEOUT"}

Executions(t) == {k \in 1 .. tab[t].shown : trace[k].hash # None}

(* Mutated form: an execution's hash is kept, its kind overwritten. *)
DerivedFirst(t) ==
    [state |-> IF tab[t].shown = 0 THEN None ELSE trace[tab[t].shown].state,
     hash |-> IF Executions(t) = {} THEN None ELSE trace[Min(Executions(t))].hash,
     hashKind |-> IF Executions(t) = {} THEN None ELSE trace[Max(Executions(t))].hashKind]

(* deriveIntent(): the last row's state, the last execution's hash and kind. *)
Derived(t) ==
    [state |-> IF tab[t].shown = 0 THEN None ELSE trace[tab[t].shown].state,
     hash |-> IF Executions(t) = {} THEN None ELSE trace[Max(Executions(t))].hash,
     hashKind |-> IF Executions(t) = {} THEN None ELSE trace[Max(Executions(t))].hashKind]

(* buildStepper(): a node is done when its state is on the trace.            *)
Step(t, state) ==
    IF Derived(t).state = state THEN "current"
    ELSE IF \E k \in 1 .. tab[t].shown : trace[k].state = state THEN "done" ELSE "future"

Rail(t) == [state \in HappyPath |-> Step(t, state)]

(* OnChainProofPanel: any hash is shown as verified, with its explorer link. *)
Proof(t) ==
    LET view == Derived(t) IN
    [verified |-> view.hash # None,
     link |-> <<IF view.hashKind = "transaction" THEN "transaction" ELSE "deploy", view.hash>>]

(* The live label, beside the intent's name and over the trace. *)
Live(t) == ~ tab[t].missing /\ Derived(t).state \notin Stop

Page(t) ==
    [rail |-> Rail(t),
     offRamp |-> {state \in OffRamp : state = Derived(t).state},
     proof |-> Proof(t),
     live |-> Live(t)]

-----------------------------------------------------------------------------
(* Clicks (ActionsPanel).  The panel goes by the last row shown. *)
Panel(t) ==
    IF ~ Open(t) \/ tab[t].missing THEN None ELSE Derived(t).state

(* Mutated form: the button is not disabled. *)
ClickableWhileBusy(t) == Panel(t) = "POLICY_VALIDATED"

(* Sign and Mark are disabled while the tab is busy; Validate and Reject are *)
(* not.                                                                      *)
PrimaryEnabled(t) == Panel(t) = "POLICY_VALIDATED" /\ ~ tab[t].busy

Begin(j, t, op, pc, status) ==
    /\ job[j].pc = "new" /\ \A k \in 1 .. j - 1 : job[k].pc # "new"
    /\ job' = [job EXCEPT ![j] =
                  [op |-> op, pc |-> pc, tab |-> t, hash |-> None, mounted |-> TRUE]]
    /\ tab' = [tab EXCEPT ![t].busy = TRUE, ![t].status = status]

Post(j, op, hash) ==
    request' = [request EXCEPT ![j] = [op |-> op, pc |-> "sent", hash |-> hash]]

OthersIdle(t) == \A k \in Jobs : Running(k) => k \in JobsOf(t)
AllIdle == \A k \in Jobs : ~ Running(k)

ClickSign(j, t) ==
    /\ PrimaryEnabled(t)
    /\ Begin(j, t, "sign", "build", None)
    /\ smooth' = (smooth /\ OthersIdle(t))
    /\ UNCHANGED <<api, chain, toConfirm>>

(* The user types in a hash: of a transaction that was broadcast, or another. *)
ClickMark(j, t, hash) ==
    /\ PrimaryEnabled(t)
    /\ hash # OtherHash => chain[hash] # None
    /\ Begin(j, t, "mark", "call", tab[t].status)
    /\ Post(j, "mark", hash)
    /\ smooth' = (smooth /\ OthersIdle(t))
    /\ UNCHANGED <<known, trace, chain, toConfirm>>

ClickValidate(j, t) ==
    /\ Panel(t) = "DRAFT"
    /\ Begin(j, t, "validate", "call", tab[t].status)
    /\ Post(j, "validate", None)
    /\ smooth' = (smooth /\ AllIdle)
    /\ UNCHANGED <<known, trace, chain, toConfirm>>

ClickReject(j, t) ==
    /\ Panel(t) = "POLICY_VALIDATED"
    /\ Begin(j, t, "reject", "call", tab[t].status)
    /\ Post(j, "reject", None)
    /\ smooth' = (smooth /\ AllIdle)
    /\ UNCHANGED <<known, trace, chain, toConfirm>>

(* The user goes to another page of the app: the clean-up stops the polling   *)
(* and drops its answer, and nothing else.                                   *)
LeavePage(t) ==
    /\ Open(t)
    /\ tab' = [tab EXCEPT ![t] = Gone]
    /\ job' = [j \in Jobs |-> IF j \in JobsOf(t) THEN [job[j] EXCEPT !.mounted = FALSE]
                             ELSE job[j]]
    /\ UNCHANGED <<api, chain, history>>

(* The page is mounted again, idle and without rows. *)
OpenPage(t) ==
    /\ ~ Open(t)
    /\ tab' = [tab EXCEPT ![t] = Fresh]
    /\ smooth' = (smooth /\ JobsOf(t) = {})
    /\ UNCHANGED <<api, chain, job, toConfirm>>

(* The tab is closed or loads a page anew, and its jobs are gone; requests    *)
(* under way are still served.                                               *)
CloseTab(t) ==
    /\ Open(t) \/ JobsOf(t) # {}
    /\ tab' = [tab EXCEPT ![t] = Gone]
    /\ job' = [j \in Jobs |-> IF j \in JobsOf(t) THEN Over ELSE job[j]]
    /\ toConfirm' = toConfirm \ {job[j].hash : j \in JobsOf(t)}
    /\ smooth' = (smooth /\ JobsOf(t) = {})
    /\ UNCHANGED <<api, chain>>

-----------------------------------------------------------------------------
StatusOf(j) == tab[job[j].tab].status

(* The end of run(): whatever the outcome, its page is no longer busy, if it  *)
(* is still there to be told.                                                *)
EndJob(j, status) ==
    /\ job' = [job EXCEPT ![j] = Over]
    /\ tab' = IF job[j].mounted
              THEN [tab EXCEPT ![job[j].tab].busy = FALSE, ![job[j].tab].status = status]
              ELSE tab

EndInError(j, status) == EndJob(j, status) /\ smooth' = FALSE

(* build-unsigned-deploy answers an unsigned transfer for a validated intent *)
(* only; it may also be refused for other reasons, fail or get lost.         *)
BuildAnswered(j) ==
    /\ job[j].pc = "build"
    /\ known /\ ApiState = "POLICY_VALIDATED"
    /\ job' = [job EXCEPT ![j].pc = "popup"]
    /\ UNCHANGED <<api, chain, tab, history>>

BuildRefused(j) ==
    /\ job[j].pc = "build"
    /\ EndInError(j, StatusOf(j))
    /\ UNCHANGED <<api, chain, toConfirm>>

(* The wallet's popup is cancelled, or send() ends without a hash. *)
Cancel(j) ==
    /\ job[j].pc = "popup"
    /\ EndJob(j, None)
    /\ UNCHANGED <<api, chain, history>>

SendFails(j) ==
    /\ job[j].pc = "popup"
    /\ EndInError(j, None)
    /\ UNCHANGED <<api, chain, toConfirm>>

(* Every transaction has a hash of its own; which one does not matter. *)
NextHash == CHOOSE h \in Hashes : chain[h] = None

Signed(j, h) ==
    /\ job[j].pc = "popup"
    /\ chain[h] = None /\ h = NextHash
    /\ \E fate \in {"success", "reverted"} : chain' = [chain EXCEPT ![h] = fate]

(* The transaction went out, but send() learned no hash of it. *)
BroadcastUnanswered(j, h) ==
    /\ Signed(j, h)
    /\ EndInError(j, None)
    /\ UNCHANGED <<api, toConfirm>>

(* Mutated form: send() is awaited to its end, which may be the failure of   *)
(* its streaming socket.                                                     *)
BroadcastAwaited(j, h) ==
    /\ Signed(j, h)
    /\ toConfirm' = toConfirm \cup {h}
    /\ \/ job' = [job EXCEPT ![j].pc = "handed", ![j].hash = h] /\ UNCHANGED <<tab, smooth>>
       \/ EndInError(j, None)
    /\ UNCHANGED api

(* onStatus('sent') hands the hash over at once; how send() ends after that  *)
(* is ignored (the settled latch).                                           *)
BroadcastReported(j, h) ==
    /\ Signed(j, h)
    /\ toConfirm' = toConfirm \cup {h}
    /\ job' = [job EXCEPT ![j].pc = "handed", ![j].hash = h]
    /\ UNCHANGED <<api, tab, smooth>>

ConfirmSent(j) ==
    /\ job[j].pc = "handed"
    /\ job' = [job EXCEPT ![j].pc = "confirm"]
    /\ Post(j, "confirm", job[j].hash)
    /\ toConfirm' = toConfirm \ {job[j].hash}
    /\ UNCHANGED <<known, trace, chain, tab, smooth>>

Awaits(j) == job[j].pc \in {"call", "confirm"}

(* Mutated form: any answer counts. *)
AnsweredAnyhow(j) ==
    /\ Awaits(j)
    /\ request[j].pc \in {"ok", "error"}
    /\ request' = [request EXCEPT ![j] = NoRequest]
    /\ EndJob(j, IF job[j].op = "sign" THEN "verified" ELSE StatusOf(j))
    /\ UNCHANGED <<known, trace, chain, history>>

Answered(j) ==
    /\ Awaits(j)
    /\ \/ request[j].pc = "ok"
            /\ EndJob(j, IF job[j].op = "sign" THEN "verified" ELSE StatusOf(j))
            /\ UNCHANGED smooth
       \/ request[j].pc = "error"
            /\ EndInError(j, StatusOf(j))
    /\ request' = [request EXCEPT ![j] = NoRequest]
    /\ UNCHANGED <<known, trace, chain, toConfirm>>

(* The request fails for the client, whatever the API makes of it. *)
AnswerLost(j) ==
    /\ Awaits(j)
    /\ EndInError(j, StatusOf(j))
    /\ UNCHANGED <<api, chain, toConfirm>>

-----------------------------------------------------------------------------
(* The API. *)
At(j, op, pc) == request[j].op = op /\ request[j].pc = pc

Reply(j, pc) == request' = [request EXCEPT ![j].pc = pc]

Record(row) == trace' = Append(trace, row)

Serve(j, op, allowed, outcomes, hash) ==
    /\ At(j, op, "sent")
    /\ IF known /\ allowed
       THEN Reply(j, "ok") /\ \E state \in outcomes : Record(RowOf(state, hash))
       ELSE Reply(j, "error") /\ UNCHANGED trace
    /\ UNCHANGED <<known, chain, tab, job, history>>

ServeValidate(j) ==
    Serve(j, "validate", ApiState = "DRAFT", {"POLICY_VALIDATED", "REJECTED"}, None)
ServeMark(j) ==
    Serve(j, "mark", ApiState = "POLICY_VALIDATED", {"EXECUTED"}, request[j].hash)
ServeReject(j) == Serve(j, "reject", ApiState \notin Terminal, {"REJECTED"}, None)

(* confirm-onchain: an executed intent is answered with what is on record; a *)
(* validated one waits for the node.                                         *)
ServeConfirm(j) ==
    /\ At(j, "confirm", "sent")
    /\ Reply(j, IF ~ known THEN "error"
                ELSE IF ApiState = "EXECUTED" THEN "ok"
                ELSE IF ApiState = "POLICY_VALIDATED" THEN "node" ELSE "error")
    /\ UNCHANGED <<known, trace, chain, tab, job, history>>

(* The node's word: success, or a revert or no result in time. *)
ConfirmFinalized(j) ==
    /\ At(j, "confirm", "node")
    /\ chain[request[j].hash] = "success"
    /\ Record(Confirmed(request[j].hash))
    /\ Reply(j, "ok")
    /\ UNCHANGED <<known, chain, tab, job, history>>

ConfirmFails(j) ==
    /\ At(j, "confirm", "node")
    /\ Reply(j, "error")
    /\ UNCHANGED <<known, trace, chain, tab, job, history>>

(* The API restarts: it forgets the intent and the requests it was serving;  *)
(* the audit rows stay but are no longer served.                             *)
Restart ==
    /\ known
    /\ known' = FALSE
    /\ request' = [j \in Jobs |-> IF request[j] = NoRequest THEN NoRequest
                                  ELSE [request[j] EXCEPT !.pc = "error"]]
    /\ UNCHANGED <<trace, chain, tab, job, history>>

-----------------------------------------------------------------------------
Polling(t) == PollAnswered(t) \/ PollFails(t) \/ PollAgain(t)

Click(j, t) ==
    \/ ClickSign(j, t) \/ ClickValidate(j, t) \/ ClickReject(j, t)
    \/ \E hash \in Hashes \cup {OtherHash} : ClickMark(j, t, hash)

JobStep(j) ==
    \/ BuildAnswered(j) \/ BuildRefused(j) \/ Cancel(j) \/ SendFails(j)
    \/ \E h \in Hashes : BroadcastUnanswered(j, h) \/ BroadcastReported(j, h)
    \/ ConfirmSent(j) \/ Answered(j) \/ AnswerLost(j)

ApiStep(j) ==
    \/ ServeValidate(j) \/ ServeMark(j) \/ ServeReject(j)
    \/ ServeConfirm(j) \/ ConfirmFinalized(j) \/ ConfirmFails(j)

Next ==
    \/ \E t \in Tabs : Polling(t) \/ LeavePage(t) \/ OpenPage(t) \/ CloseTab(t)
    \/ \E t \in Tabs, j \in Jobs : Click(j, t)
    \/ \E j \in Jobs : JobStep(j) \/ ApiStep(j)
    \/ Restart

(* The poll's timer fires and its request ends; when it is asked again and   *)
(* again it is answered at last.  Nothing is assumed of the user, the        *)
(* wallet, the chain or the other requests.                                  *)
Fairness ==
    \A t \in Tabs :
        /\ WF_vars(PollAgain(t))
        /\ SF_vars(PollAnswered(t))

Spec == Init /\ [][Next]_vars /\ Fairness

-----------------------------------------------------------------------------
(* The trace, the requests, the tabs and the jobs are well formed. *)
Row == [state : {"DRAFT", "POLICY_VALIDATED", "REJECTED", "EXECUTED"},
        hash : Hashes \cup {None, OtherHash}, hashKind : {None, Kind}]

TypeOK ==
    /\ known \in BOOLEAN /\ smooth \in BOOLEAN /\ toConfirm \subseteq Hashes
    /\ trace \in Seq(Row) /\ trace # <<>>
    /\ request \in [Jobs -> {NoRequest} \cup
            [op : {"validate", "mark", "reject", "confirm"}, pc : {"sent", "node", "ok", "error"},
             hash : Hashes \cup {None, OtherHash}]]
    /\ chain \in [Hashes -> {None, "success", "reverted"}]
    /\ tab \in [Tabs -> [poll : {"asked", "sleeping", "stopped", "gone"}, shown : Nat,
                         missing : BOOLEAN, busy : BOOLEAN, status : {None, "verified"}]]
    /\ job \in [Jobs -> {New, Over} \cup
            [op : {"sign", "mark", "validate", "reject"}, tab : Tabs, hash : Hashes \cup {None},
             mounted : BOOLEAN, pc : {"build", "popup", "handed", "confirm", "call"}]]

Recorded(h) == \E k \in DOMAIN trace : trace[k] = Confirmed(h)
Carried(h) == \E j \in Jobs : Running(j) /\ job[j].hash = h
Broadcast == {h \in Hashes : chain[h] # None}

(* A hash the wallet reported is never dropped: as long as the tab lives, it *)
(* is on its way to the API, however the wallet's own call ends (the early   *)
(* hand-off of click-adapter.ts) and wherever in the app the user went.      *)
ReportedHashIsKept == \A h \in toConfirm : Carried(h)

(* What the page says is true.  "Verified on-chain - intent executed." and a  *)
(* hash under VERIFIED are of an intent whose execution is on record, and the *)
(* rail, derived from the rows' states, agrees with the proof, derived from   *)
(* their payloads.  A hash that the chain gave a kind is of a transaction     *)
(* that succeeded, linked under that kind, although a mark's hash may be on   *)
(* record beside it.  The page says it is live exactly while it is polling.   *)
PageIsTrue == \A t \in Tabs : Open(t) /\ ~ tab[t].missing =>
    LET page == Page(t) IN
    /\ tab[t].status = "verified" \/ page.proof.verified =>
            \E k \in DOMAIN trace : trace[k].state = "EXECUTED"
    /\ page.proof.verified <=> page.rail["EXECUTED"] # "future"
    /\ Derived(t).hashKind # None =>
            /\ Derived(t).hash \in Hashes /\ chain[Derived(t).hash] = "success"
            /\ page.proof.link = <<Kind, Derived(t).hash>>
    /\ page.live <=> tab[t].poll # "stopped"
    /\ tab[t].shown > 0 =>
            (page.offRamp = {} <=> \E state \in HappyPath : page.rail[state] = "current")

(* As long as no job failed, and while one runs nobody works in another tab, *)
(* validates, rejects, closes the tab or comes back to the page, the intent  *)
(* is paid at most once, and a payment that went through is on record or     *)
(* under way: leaving the page does not stop it.                             *)
PaidOnceOnRecord ==
    smooth =>
        /\ Cardinality(Broadcast) <= 1
        /\ \A h \in Hashes : chain[h] = "success" => Recorded(h) \/ Carried(h)

(* Every open tab comes to show the end of the intent, whatever blips its    *)
(* polls meet; only a restart of the API that forgets the intent excuses it. *)
FollowsTheApi ==
    \A t \in Tabs :
        ApiState \in Stop ~> ~ Open(t) \/ ~ known \/ Panel(t) \in Stop
=============================================================================
