---------------------------- MODULE IntentPages ----------------------------
(***************************************************************************)
(* The console page, the intents page with its form for a new intent, and   *)
(* the two requests they make of the API: the list, asked for once by each  *)
(* page that mounts, and a creation (ConsoleView, IntentsListView).         *)
(*                                                                          *)
(* A creation outlives its page.  Its answer is prepended to the list and   *)
(* closes the form only of the page that asked, but it always sends the     *)
(* user to the new intent, and the list may be answered before, between or  *)
(* after.  Meanwhile other clients create intents and move them, and the    *)
(* API may be restarted: its intents are in memory, the audit rows are kept.*)
(***************************************************************************)
EXTENDS Integers, Sequences, FiniteSets, SequencesExt

CONSTANTS
    Ids,           \* the intent ids that may be minted
    MaxPosts,      \* bound on the creations the user asks for
    MaxTime,       \* bound on the clock
    DayLen         \* length of a UTC day

ASSUME IntentPagesAssumption ==
    /\ IsFiniteSet(Ids)
    /\ MaxPosts \in Nat
    /\ MaxTime \in Nat
    /\ DayLen \in Nat \ {0}

VARIABLES
    intents,       \* the API's map: id -> its entry, or NoEntry
    audit,         \* the audit rows: who was recorded as what, and when
    now,           \* the clock
    page,          \* the page on screen
    posts,         \* the creations asked for
    leaving        \* the app has been told to go to a new intent's page

vars == <<intents, audit, now, page, posts, leaving>>

Time == 0 .. MaxTime
Posts == 1 .. MaxPosts
DayOf(t) == t \div DayLen

States == {"DRAFT", "POLICY_VALIDATED", "EXECUTED", "REJECTED"}
NoEntry == [state |-> "none"]
Exists(id) == intents[id] # NoEntry
Minted == {row.id : row \in audit}
Row == [id : Ids, state : States, at : Time]

Loading == [kind |-> "loading"]
Listed(rows) == [kind |-> "listed", rows |-> rows]

(* A creation that concerns no page any more. *)
NoId == "none"
Done == [pc |-> "over", mine |-> FALSE, id |-> NoId, at |-> 0]

(* A page that has just mounted: it has asked for the list and nothing else. *)
Fresh(view) ==
    [view |-> view, asked |-> view # "detail", answer |-> Loading, rows |-> <<>>,
     loaded |-> FALSE, creating |-> FALSE, failed |-> FALSE,
     early |-> FALSE, renderedAt |-> now]

-----------------------------------------------------------------------------
(* The API. *)
Record(id, state) == audit' = audit \cup {[id |-> id, state |-> state, at |-> now]}

Create(id) ==
    /\ id \notin Minted
    /\ intents' = [intents EXCEPT ![id] = [state |-> "DRAFT", at |-> now]]
    /\ Record(id, "DRAFT")

(* Mutated form: the entry keeps the time of its last update. *)
EnterUndated(id, state) == intents' = [intents EXCEPT ![id].state = state]

Enter(id, state) == intents' = [intents EXCEPT ![id] = [state |-> state, at |-> now]]

OthersCreate ==
    \E id \in Ids : Create(id) /\ UNCHANGED <<now, page, posts, leaving>>

(* The handlers that move an intent on, whoever calls them (IntentApi has      *)
(* their races).  EXECUTED is not terminal for a reject.                     *)
Advance(id, state) ==
    /\ Exists(id)
    /\ Enter(id, state) /\ Record(id, state)
    /\ UNCHANGED <<now, page, posts, leaving>>

Validate(id) ==
    /\ intents[id].state = "DRAFT"
    /\ \E state \in {"POLICY_VALIDATED", "REJECTED"} : Advance(id, state)

Execute(id) ==
    /\ intents[id].state = "POLICY_VALIDATED"
    /\ Advance(id, "EXECUTED")

Reject(id) ==
    /\ intents[id].state # "REJECTED"
    /\ Advance(id, "REJECTED")

Move == \E id \in Ids : Validate(id) \/ Execute(id) \/ Reject(id)

Restart ==
    /\ intents' = [id \in Ids |-> NoEntry]
    /\ UNCHANGED <<audit, now, page, posts, leaving>>

TimePasses ==
    /\ \E t \in Time : t > now /\ now' = t
    /\ UNCHANGED <<intents, audit, page, posts, leaving>>

(* GET /intents, the latest update first and ties in any order, which the    *)
(* pages' own sort leaves as it is.                                          *)
EntryRow(id) == [id |-> id, state |-> intents[id].state, at |-> intents[id].at]

Listings ==
    {rows \in SetToSeqs({EntryRow(id) : id \in {i \in Ids : Exists(i)}}) :
        \A j, k \in 1 .. Len(rows) : j < k => rows[k].at <= rows[j].at}

ServeList ==
    /\ page.asked /\ page.answer = Loading
    /\ \E rows \in Listings : page' = [page EXCEPT !.answer = Listed(rows)]
    /\ UNCHANGED <<intents, audit, now, posts, leaving>>

ServePost ==
    \E n \in Posts, id \in Ids :
        /\ posts[n].pc = "sent"
        /\ Create(id)
        /\ posts' = [posts EXCEPT ![n].pc = "served", ![n].id = id]
        /\ UNCHANGED <<now, page, leaving>>

-----------------------------------------------------------------------------
(* The pages.  Every change of the page's state renders it anew, and a       *)
(* rendering reads the clock.                                                *)
Render(changed) == page' = [changed EXCEPT !.renderedAt = now]

(* Another page is mounted: what the old one asked for no longer concerns it. *)
Mount(view) ==
    /\ page' = Fresh(view)
    /\ posts' = [n \in Posts |-> IF posts[n].pc = "answered" THEN Done
                                ELSE [posts[n] EXCEPT !.mine = FALSE, !.at = 0]]
    /\ leaving' = FALSE
    /\ UNCHANGED <<intents, audit, now>>

Visit == \E view \in {"list", "console"} : Mount(view)

(* The buckets of the list's filter (lib/intent-list.ts). *)
FilterKeys == {"all", "draft", "validated", "executed", "rejected"}

FilterStates(key) ==
    CASE key = "all" -> States
      [] key = "draft" -> {"DRAFT"}
      [] key = "validated" -> {"POLICY_VALIDATED"}
      [] key = "executed" -> {"EXECUTED", "FINALIZED"}
      [] key = "rejected" -> {"REJECTED", "EXECUTION_FAILED", "TIMEOUT"}

Visible(rows, key) == SelectSeq(rows, LAMBDA row : row.state \in FilterStates(key))

(* filterCounts(): the numbers on the filter's segments. *)
FilterCount(rows, key) == Cardinality({k \in 1 .. Len(rows) : rows[k].state \in FilterStates(key)})

(* A row of the table is clicked, whatever the filter leaves of it. *)
OpenRow ==
    /\ \E key \in FilterKeys : Visible(page.rows, key) # <<>>
    /\ Mount("detail")

(* The router goes where a creation has sent it. *)
Follow ==
    /\ leaving
    /\ Mount("detail")

ShowList(rows) ==
    /\ Render([page EXCEPT !.asked = FALSE, !.loaded = TRUE, !.answer = Loading,
                  !.rows = rows])
    /\ UNCHANGED <<intents, audit, now, posts, leaving>>

ListAnswered == page.asked /\ page.answer # Loading /\ ShowList(page.answer.rows)

(* The request or its answer is lost: an error over an empty list. *)
ListFailed == page.asked /\ ShowList(<<>>)

(* Mutated form: the button is not disabled while a creation is in flight. *)
MayAlwaysSubmit == page.view = "list"

MaySubmit == page.view = "list" /\ ~ page.creating

(* A valid form is submitted; early when the list is not there yet.  (The     *)
(* drawer around the form is only hidden when it is closed.)                 *)
Submit ==
    \E n \in Posts :
        /\ posts[n].pc = "new" /\ \A k \in 1 .. (n - 1) : posts[k].pc # "new"
        /\ MaySubmit
        /\ posts' = [posts EXCEPT ![n].pc = "sent", ![n].mine = TRUE,
                                  ![n].at = page.renderedAt]
        /\ Render([page EXCEPT !.creating = TRUE, !.failed = FALSE,
                      !.early = page.early \/ ~ page.loaded])
        /\ UNCHANGED <<intents, audit, now, leaving>>

(* Mutated forms: the new row is taken to be validated; it goes to whatever  *)
(* list is on screen.                                                        *)
PrependedValidated(n) ==
    <<[id |-> posts[n].id, state |-> "POLICY_VALIDATED", at |-> posts[n].at]>> \o page.rows

CreatedOnAnyPage(n) ==
    IF page.view = "list"
    THEN Render([page EXCEPT !.rows = <<[id |-> posts[n].id, state |-> "DRAFT",
                                         at |-> posts[n].at]>> \o page.rows,
                    !.loaded = TRUE, !.creating = FALSE])
    ELSE UNCHANGED page

Prepended(n) ==
    <<[id |-> posts[n].id, state |-> "DRAFT", at |-> posts[n].at]>> \o page.rows

Created(n) ==
    IF posts[n].mine
    THEN Render([page EXCEPT !.rows = Prepended(n), !.loaded = TRUE, !.creating = FALSE])
    ELSE UNCHANGED page

CreateAnswered ==
    \E n \in Posts :
        /\ posts[n].pc = "served"
        /\ Created(n)
        /\ leaving' = TRUE
        /\ posts' = [posts EXCEPT ![n] =
                IF posts[n].mine THEN [posts[n] EXCEPT !.pc = "answered"] ELSE Done]
        /\ UNCHANGED <<intents, audit, now>>

(* The request or its answer is lost: the intent may be there all the same. *)
CreateFailed ==
    \E n \in Posts :
        /\ posts[n].pc \in {"sent", "served"}
        /\ IF posts[n].mine
           THEN Render([page EXCEPT !.creating = FALSE, !.failed = TRUE])
           ELSE UNCHANGED page
        /\ posts' = [posts EXCEPT ![n] = Done]
        /\ UNCHANGED <<intents, audit, now, leaving>>

Init ==
    /\ intents = [id \in Ids |-> NoEntry]
    /\ audit = {}
    /\ now = 0
    /\ page = Fresh("console")
    /\ posts = [n \in Posts |-> [Done EXCEPT !.pc = "new"]]
    /\ leaving = FALSE

Next ==
    \/ OthersCreate \/ Move \/ Restart \/ TimePasses
    \/ ServeList \/ ServePost
    \/ Visit \/ OpenRow \/ Follow
    \/ ListAnswered \/ ListFailed \/ Submit \/ CreateAnswered \/ CreateFailed

Spec == Init /\ [][Next]_vars
-----------------------------------------------------------------------------
(* The counters of the console, which has its own tables of states            *)
(* (lib/console-summary.ts).                                                 *)
ExecutedStates == {"EXECUTED", "FINALIZED"}
RejectedStates == {"REJECTED", "EXECUTION_FAILED", "TIMEOUT"}

Summary(rows, at) ==
    LET count(Test(_)) == Cardinality({k \in 1 .. Len(rows) : Test(rows[k])})
        today(row) == DayOf(row.at) = DayOf(at)
    IN  [active |-> count(LAMBDA row : row.state \notin ExecutedStates \cup RejectedStates),
         awaitingPolicy |-> count(LAMBDA row : row.state = "DRAFT"),
         executedToday |-> count(LAMBDA row : row.state \in ExecutedStates /\ today(row)),
         rejectedToday |-> count(LAMBDA row : row.state \in RejectedStates /\ today(row))]

-----------------------------------------------------------------------------
IdsOf(rows) == {rows[k].id : k \in 1 .. Len(rows)}

(* Every row on screen is an intent the API made, in a state it was recorded *)
(* in: nothing is shown before it happened, whatever is answered late or     *)
(* lost, and whatever page it was meant for.                                 *)
RowsAreReal ==
    \A k \in 1 .. Len(page.rows) :
        \E row \in audit : row.id = page.rows[k].id /\ row.state = page.rows[k].state

(* A user who lets the list come before submitting the form never sees an    *)
(* intent twice, although the list and the answer to the creation can both   *)
(* bring it.                                                                 *)
EachIntentOnce == ~ page.early => Cardinality(IdsOf(page.rows)) = Len(page.rows)

(* A form that is idle has nothing left in flight, and, unless it was used   *)
(* before the list came, every creation it was told of is on the list.       *)
FormTellsTheTruth ==
    \A n \in Posts :
        posts[n].mine =>
            /\ posts[n].pc \in {"sent", "served"} => page.creating
            /\ posts[n].pc = "answered" /\ ~ page.early => posts[n].id \in IdsOf(page.rows)

(* The console's counters are what the audit trail says of the intents it    *)
(* was given: executed or rejected on the day the page shows, by the update  *)
(* time the API keeps; and they agree with the list page's buckets.          *)
RecordedOn(id, state, day) ==
    \E row \in audit : row.id = id /\ row.state = state /\ DayOf(row.at) = day

ConsoleIsTrue ==
    page.view = "console" /\ page.loaded =>
        LET s == Summary(page.rows, page.renderedAt)
            onDay(state) == {k \in 1 .. Len(page.rows) :
                /\ page.rows[k].state = state
                /\ RecordedOn(page.rows[k].id, state, DayOf(page.renderedAt))}
            bucket(key) == FilterCount(page.rows, key)
        IN  /\ s.executedToday = Cardinality(onDay("EXECUTED"))
            /\ s.rejectedToday = Cardinality(onDay("REJECTED"))
            /\ s.awaitingPolicy = bucket("draft")
            /\ s.active = bucket("all") - bucket("executed") - bucket("rejected")
            /\ s.active = bucket("draft") + bucket("validated")
=============================================================================
