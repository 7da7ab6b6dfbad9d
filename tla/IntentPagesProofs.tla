-------------------------- MODULE IntentPagesProofs --------------------------
(***************************************************************************)
(* The four properties of the intents page and the console, for any number  *)
(* of intents, creations and days.                                          *)
(*                                                                          *)
(* A row on screen is a recorded intent, and an idle form has nothing in    *)
(* flight and all it was told of on its list (IInv).  No intent is on the   *)
(* list twice (OnceInv): what the API mints is on no screen yet.  The       *)
(* console's counters agree with the audit trail (AuditInv, ConsoleInv): an *)
(* intent is recorded in each state once, and the console lists the very    *)
(* rows that were recorded, for the form that prepends others is not there. *)
(***************************************************************************)
EXTENDS IntentPages, FiniteSetTheorems, TLAPS

Entry == [state : States, at : Time]
Answer == {Loading} \cup [kind : {"listed"}, rows : Seq(Row)]
Page == [view : {"list", "console", "detail"}, asked : BOOLEAN, answer : Answer,
         rows : Seq(Row), loaded : BOOLEAN, creating : BOOLEAN, failed : BOOLEAN,
         early : BOOLEAN, renderedAt : Time]
Post == [pc : {"new", "sent", "served", "answered", "over"}, mine : BOOLEAN,
         id : Ids \cup {NoId}, at : Time]

TypeOK ==
    /\ intents \in [Ids -> Entry \cup {NoEntry}]
    /\ audit \subseteq Row
    /\ now \in Time
    /\ page \in Page
    /\ posts \in [Posts -> Post]
    /\ \A n \in Posts : posts[n].pc \in {"served", "answered"} => posts[n].id \in Ids

Recorded(row) == \E r \in audit : r.id = row.id /\ r.state = row.state
AllRecorded(rows) == \A k \in 1 .. Len(rows) : Recorded(rows[k])

(* Whatever can still reach the screen is recorded: the API's entries, an    *)
(* answer on its way, a creation that has been served.                       *)
RowsInv ==
    /\ \A id \in Ids : Exists(id) => Recorded([id |-> id, state |-> intents[id].state])
    /\ page.answer # Loading => AllRecorded(page.answer.rows)
    /\ \A n \in Posts :
            posts[n].pc \in {"served", "answered"} =>
                Recorded([id |-> posts[n].id, state |-> "DRAFT"])
    /\ AllRecorded(page.rows)

InFlight(n) == posts[n].mine /\ posts[n].pc \in {"sent", "served"}

(* Why an idle form is right: one creation of the page is in flight at most, *)
(* and a page that is not early has its list before the first of them.       *)
FormInv ==
    /\ \A n \in Posts : InFlight(n) => page.creating
    /\ \A m, n \in Posts : InFlight(m) /\ InFlight(n) => m = n
    /\ \A n \in Posts :
            posts[n].mine /\ posts[n].pc # "new" /\ ~ page.early => page.loaded /\ ~ page.asked
    /\ ~ page.early /\ page.loaded => ~ page.asked
    /\ \A n \in Posts :
            posts[n].mine /\ posts[n].pc = "answered" /\ ~ page.early =>
                \E k \in 1 .. Len(page.rows) : page.rows[k].id = posts[n].id

IInv == TypeOK /\ RowsInv /\ FormInv

-----------------------------------------------------------------------------
(* A listing is a sequence of rows, and all of them are recorded. *)
LEMMA ListingsAreReal ==
    ASSUME IInv, NEW rows \in Listings
    PROVE  rows \in Seq(Row) /\ AllRecorded(rows)
<1> DEFINE alive == {i \in Ids : Exists(i)}
           S == {EntryRow(id) : id \in alive}
<1>1. IsFiniteSet(S)
    <2>1. IsFiniteSet(alive)
        BY IntentPagesAssumption, FS_Subset DEF IntentPagesAssumption
    <2>2. [id \in alive |-> EntryRow(id)] \in Surjection(alive, S)
        BY DEF Surjection
    <2>. QED BY <2>1, <2>2, FS_Surjection
<1>2. Cardinality(S) \in Nat
    BY <1>1, FS_CardinalityType
<1>3. rows \in [1 .. Cardinality(S) -> S]
    BY DEF Listings, SetToSeqs
<1>5. ASSUME NEW id \in alive PROVE EntryRow(id) \in Row /\ Recorded(EntryRow(id))
    <2>1. intents[id] \in Entry
        BY DEF IInv, TypeOK, Exists
    <2>2. Recorded([id |-> id, state |-> intents[id].state])
        BY DEF IInv, RowsInv
    <2>. QED BY <2>1, <2>2 DEF EntryRow, Row, Entry, Recorded
<1>6. \A e \in S : e \in Row /\ Recorded(e)
    BY <1>5
<1> HIDE DEF S
<1>7. \A n \in Nat : rows \in [1 .. n -> S] => rows \in Seq(Row) /\ AllRecorded(rows)
    <2>1. ASSUME NEW n \in Nat, rows \in [1 .. n -> S]
          PROVE  rows \in Seq(Row) /\ AllRecorded(rows)
        <3>1. rows \in [1 .. n -> Row]
            BY <1>6, <2>1
        <3>2. rows \in Seq(Row) /\ Len(rows) = n
            BY <3>1
        <3>3. \A k \in 1 .. n : Recorded(rows[k])
            BY <1>6, <2>1
        <3>. QED BY <3>2, <3>3 DEF AllRecorded
    <2>. QED BY <2>1
<1>. QED BY <1>2, <1>3, <1>7

LEMMA InitIInv == Init => IInv
<1> SUFFICES ASSUME Init PROVE IInv
    OBVIOUS
<1> USE DEF Init, Fresh, Done
<1>1. 0 \in Time
    BY IntentPagesAssumption DEF IntentPagesAssumption, Time
<1>2. TypeOK
    <2>1. page \in Page
        BY <1>1 DEF Page, Answer
    <2>2. posts \in [Posts -> Post]
        BY <1>1 DEF Post
    <2>. QED BY <1>1, <2>1, <2>2 DEF TypeOK
<1>3. RowsInv
    BY DEF RowsInv, Exists, NoEntry, AllRecorded, Loading
<1>4. FormInv
    BY DEF FormInv, InFlight
<1>. QED BY <1>2, <1>3, <1>4 DEF IInv

(* Rows stay recorded, since audit rows are never removed. *)
LEMMA RecordedStays ==
    ASSUME audit \subseteq audit', NEW row, Recorded(row)
    PROVE  Recorded(row)'
BY DEF Recorded

-----------------------------------------------------------------------------
(* The steps of the API that leave the pages alone. *)
LEMMA ApiStep ==
    ASSUME IInv, UNCHANGED <<page, posts>>,
           intents' \in [Ids -> Entry \cup {NoEntry}], audit' \subseteq Row, now' \in Time,
           audit \subseteq audit',
           \A id \in Ids : intents'[id] # NoEntry =>
                Recorded([id |-> id, state |-> intents[id].state])'
    PROVE  IInv'
<1>1. TypeOK'
    BY DEF IInv, TypeOK
<1>2. RowsInv'
    BY RecordedStays DEF IInv, RowsInv, AllRecorded, Exists
<1>3. FormInv'
    BY DEF IInv, FormInv, InFlight
<1>. QED BY <1>1, <1>2, <1>3 DEF IInv

(* An entry made or moved is recorded in the same step. *)
LEMMA EnterStep ==
    ASSUME IInv, NEW id \in Ids, NEW state \in States,
           intents' = [intents EXCEPT ![id] = [state |-> state, at |-> now]],
           Record(id, state), UNCHANGED now
    PROVE  /\ intents' \in [Ids -> Entry \cup {NoEntry}]
           /\ audit' \subseteq Row /\ audit \subseteq audit' /\ now' \in Time
           /\ Recorded([id |-> id, state |-> state])'
           /\ \A i \in Ids : intents'[i] # NoEntry =>
                Recorded([id |-> i, state |-> intents[i].state])'
<1>1. intents' \in [Ids -> Entry \cup {NoEntry}]
    BY DEF IInv, TypeOK, Entry
<1>2. audit' \subseteq Row /\ audit \subseteq audit' /\ now' \in Time
    BY DEF IInv, TypeOK, Record, Row
<1>3. Recorded([id |-> id, state |-> state])'
    <2>1. [id |-> id, state |-> state, at |-> now] \in audit'
        BY DEF Record
    <2>. QED BY <2>1 DEF Recorded
<1>4. ASSUME NEW i \in Ids, intents'[i] # NoEntry
      PROVE  Recorded([id |-> i, state |-> intents[i].state])'
    <2>1. CASE i = id
        BY <1>3, <2>1 DEF IInv, TypeOK
    <2>2. CASE i # id
        <3>1. intents'[i] = intents[i]
            BY <2>2 DEF IInv, TypeOK
        <3>2. Recorded([id |-> i, state |-> intents[i].state])
            BY <1>4, <3>1 DEF IInv, RowsInv, Exists
        <3>. QED BY <1>2, <3>1, <3>2 DEF Recorded
    <2>. QED BY <2>1, <2>2
<1>. QED BY <1>1, <1>2, <1>3, <1>4

LEMMA CreateIsEnter ==
    ASSUME NEW id \in Ids, Create(id), UNCHANGED now
    PROVE  /\ intents' = [intents EXCEPT ![id] = [state |-> "DRAFT", at |-> now]]
           /\ Record(id, "DRAFT")
BY DEF Create

LEMMA ApiKeepsIInv ==
    ASSUME IInv, OthersCreate \/ Move \/ Restart \/ TimePasses
    PROVE  IInv'
<1>1. CASE OthersCreate
    <2>1. PICK id \in Ids : Create(id)
        BY <1>1 DEF OthersCreate
    <2>. QED BY <1>1, <2>1, CreateIsEnter, EnterStep, ApiStep DEF OthersCreate, States
<1>2. CASE Move
    <2>1. PICK id \in Ids, state \in States : Advance(id, state)
        BY <1>2 DEF Move, Validate, Execute, Reject, States
    <2>. QED BY <2>1, EnterStep, ApiStep DEF Advance, Enter
<1>3. CASE Restart
    <2>1. \A id \in Ids : intents'[id] = NoEntry
        BY <1>3 DEF Restart
    <2>2. intents' \in [Ids -> Entry \cup {NoEntry}]
        BY <1>3 DEF Restart
    <2>. QED BY <1>3, <2>1, <2>2, ApiStep DEF Restart, IInv, TypeOK
<1>4. CASE TimePasses
    <2>1. \A id \in Ids : intents'[id] # NoEntry =>
                Recorded([id |-> id, state |-> intents[id].state])'
        BY <1>4 DEF TimePasses, IInv, RowsInv, Exists, Recorded
    <2>. QED BY <1>4, <2>1, ApiStep DEF TimePasses, IInv, TypeOK
<1>. QED BY <1>1, <1>2, <1>3, <1>4

-----------------------------------------------------------------------------
LEMMA ServeListStep == IInv /\ ServeList => IInv'
<1> SUFFICES ASSUME IInv, ServeList PROVE IInv'
    OBVIOUS
<1>1. PICK rows \in Listings : page' = [page EXCEPT !.answer = Listed(rows)]
    BY DEF ServeList
<1>2. rows \in Seq(Row) /\ AllRecorded(rows)
    BY ListingsAreReal
<1>3. page' \in Page
    BY <1>1, <1>2 DEF IInv, TypeOK, Page, Answer, Listed
<1>4. page'.answer.rows = rows /\ page'.rows = page.rows
    BY <1>1 DEF IInv, TypeOK, Page, Listed
<1>5. TypeOK'
    BY <1>3 DEF ServeList, IInv, TypeOK
<1>6. RowsInv'
    BY <1>2, <1>4 DEF ServeList, IInv, RowsInv, AllRecorded, Recorded, Exists
<1>7. FormInv'
    BY <1>1 DEF ServeList, IInv, TypeOK, Page, FormInv, InFlight
<1>. QED BY <1>5, <1>6, <1>7 DEF IInv

LEMMA ServePostStep == IInv /\ ServePost => IInv'
<1> SUFFICES ASSUME IInv, ServePost PROVE IInv'
    OBVIOUS
<1>1. PICK n \in Posts, id \in Ids :
            /\ posts[n].pc = "sent"
            /\ Create(id)
            /\ posts' = [posts EXCEPT ![n].pc = "served", ![n].id = id]
            /\ UNCHANGED <<now, page, leaving>>
    BY DEF ServePost
<1>2. /\ intents' \in [Ids -> Entry \cup {NoEntry}]
      /\ audit' \subseteq Row /\ audit \subseteq audit' /\ now' \in Time
      /\ Recorded([id |-> id, state |-> "DRAFT"])'
      /\ \A i \in Ids : intents'[i] # NoEntry =>
                Recorded([id |-> i, state |-> intents[i].state])'
    BY <1>1, CreateIsEnter, EnterStep DEF States
<1>3. posts' \in [Posts -> Post]
    BY <1>1 DEF IInv, TypeOK, Post
<1>4. TypeOK'
    BY <1>1, <1>2, <1>3 DEF IInv, TypeOK, Post
<1>5. RowsInv'
    <2>1. ASSUME NEW m \in Posts, posts'[m].pc \in {"served", "answered"}
          PROVE  Recorded([id |-> posts[m].id, state |-> "DRAFT"])'
        <3>1. CASE m = n
            BY <1>1, <1>2, <3>1 DEF IInv, TypeOK, Post
        <3>2. CASE m # n
            <4>1. posts'[m] = posts[m]
                BY <1>1, <3>2 DEF IInv, TypeOK
            <4>. QED BY <1>2, <2>1, <4>1 DEF IInv, RowsInv, Recorded
        <3>. QED BY <3>1, <3>2
    <2>2. \A row : Recorded(row) => Recorded(row)'
        BY <1>2 DEF Recorded
    <2>3. (page.answer # Loading => AllRecorded(page.answer.rows))'
        BY <1>1, <2>2 DEF IInv, RowsInv, AllRecorded
    <2>4. AllRecorded(page.rows)'
        BY <1>1, <2>2 DEF IInv, RowsInv, AllRecorded
    <2>. QED BY <1>2, <2>1, <2>3, <2>4 DEF RowsInv, Exists
<1>6. FormInv'
    BY <1>1 DEF IInv, TypeOK, Post, FormInv, InFlight
<1>. QED BY <1>4, <1>5, <1>6 DEF IInv

LEMMA MountStep ==
    ASSUME IInv, NEW view \in {"list", "console", "detail"}, Mount(view)
    PROVE  IInv'
<1>1. page' \in Page
    <2>1. (view # "detail") \in BOOLEAN
        OBVIOUS
    <2>2. << >> \in Seq(Row)
        OBVIOUS
    <2>. QED BY <2>1, <2>2 DEF Mount, Fresh, IInv, TypeOK, Page, Answer
<1>2. \A n \in Posts : ~ posts'[n].mine
    BY DEF Mount, Done, IInv, TypeOK, Post
<1>3. 0 \in Time
    BY IntentPagesAssumption DEF IntentPagesAssumption, Time
<1>4. \A n \in Posts : /\ posts'[n] \in Post
                       /\ posts'[n].pc \in {"served", "answered"} =>
                            posts[n].pc = "served" /\ posts'[n].id = posts[n].id
    BY <1>3 DEF Mount, Done, IInv, TypeOK, Post
<1>5. TypeOK'
    BY <1>1, <1>4 DEF Mount, IInv, TypeOK
<1>6. RowsInv'
    <2>1. page'.answer = Loading /\ page'.rows = << >>
        BY DEF Mount, Fresh
    <2>4. AllRecorded(page.rows)'
        BY <2>1 DEF AllRecorded
    <2>2. ASSUME NEW n \in Posts, posts'[n].pc \in {"served", "answered"}
          PROVE  Recorded([id |-> posts[n].id, state |-> "DRAFT"])'
        <3>1. posts[n].pc = "served" /\ posts'[n].id = posts[n].id
            BY <1>4, <2>2
        <3>2. Recorded([id |-> posts[n].id, state |-> "DRAFT"])
            BY <3>1 DEF IInv, RowsInv
        <3>. QED BY <3>1, <3>2 DEF Mount, Recorded
    <2>3. \A id \in Ids : Exists(id)' => Recorded([id |-> id, state |-> intents[id].state])'
        BY DEF Mount, IInv, RowsInv, Recorded, Exists
    <2>. QED BY <2>1, <2>2, <2>3, <2>4 DEF RowsInv
<1>7. FormInv'
    BY <1>2 DEF Mount, Fresh, FormInv, InFlight
<1>. QED BY <1>5, <1>6, <1>7 DEF IInv

LEMMA ShowListStep ==
    ASSUME IInv, NEW rows \in Seq(Row), AllRecorded(rows), page.asked, ShowList(rows)
    PROVE  IInv'
<1>1. page' = [page EXCEPT !.asked = FALSE, !.loaded = TRUE, !.answer = Loading,
                          !.rows = rows, !.renderedAt = now]
    BY DEF ShowList, Render, IInv, TypeOK, Page
<1>2. TypeOK'
    BY <1>1 DEF ShowList, IInv, TypeOK, Page, Answer
<1>3. RowsInv'
    BY <1>1 DEF ShowList, IInv, TypeOK, Page, RowsInv, AllRecorded, Recorded, Exists
<1>4. FormInv'
    BY <1>1 DEF ShowList, IInv, TypeOK, Page, FormInv, InFlight
<1>. QED BY <1>2, <1>3, <1>4 DEF IInv

LEMMA SubmitStep == IInv /\ Submit => IInv'
<1> SUFFICES ASSUME IInv, Submit PROVE IInv'
    OBVIOUS
<1>1. PICK n \in Posts :
            /\ posts[n].pc = "new" /\ ~ page.creating
            /\ posts' = [posts EXCEPT ![n].pc = "sent", ![n].mine = TRUE,
                                      ![n].at = page.renderedAt]
            /\ Render([page EXCEPT !.creating = TRUE, !.failed = FALSE,
                          !.early = page.early \/ ~ page.loaded])
            /\ UNCHANGED <<intents, audit, now, leaving>>
    BY DEF Submit, MaySubmit
<1>2. page' = [page EXCEPT !.creating = TRUE, !.failed = FALSE,
                          !.early = page.early \/ ~ page.loaded, !.renderedAt = now]
    BY <1>1 DEF Render, IInv, TypeOK, Page
<1>3. page' \in Page /\ page'.rows = page.rows
    BY <1>2 DEF IInv, TypeOK, Page
<1>4. posts' \in [Posts -> Post]
    <2>1. page.renderedAt \in Time
        BY DEF IInv, TypeOK, Page
    <2>2. [posts[n] EXCEPT !.pc = "sent", !.mine = TRUE, !.at = page.renderedAt] \in Post
        BY <2>1 DEF IInv, TypeOK, Post
    <2>. QED BY <1>1, <2>2 DEF IInv, TypeOK
<1>5. TypeOK'
    BY <1>1, <1>3, <1>4 DEF IInv, TypeOK, Post
<1>6. RowsInv'
    BY <1>1, <1>2 DEF IInv, TypeOK, Page, Post, RowsInv, AllRecorded, Recorded, Exists
<1>7. \A m \in Posts : ~ InFlight(m)
    BY <1>1 DEF IInv, FormInv
<1>8. FormInv'
    BY <1>1, <1>2, <1>7 DEF IInv, TypeOK, Page, Post, FormInv, InFlight
<1>. QED BY <1>5, <1>6, <1>8 DEF IInv

LEMMA CreateFailedStep == IInv /\ CreateFailed => IInv'
<1> SUFFICES ASSUME IInv, CreateFailed PROVE IInv'
    OBVIOUS
<1>1. PICK n \in Posts :
            /\ posts[n].pc \in {"sent", "served"}
            /\ IF posts[n].mine
               THEN Render([page EXCEPT !.creating = FALSE, !.failed = TRUE])
               ELSE UNCHANGED page
            /\ posts' = [posts EXCEPT ![n] = Done]
            /\ UNCHANGED <<intents, audit, now, leaving>>
    BY DEF CreateFailed
<1>2. 0 \in Time
    BY IntentPagesAssumption DEF IntentPagesAssumption, Time
<1>3. Done \in Post /\ ~ Done.mine /\ Done.pc = "over"
    BY <1>2 DEF Done, Post
<1>4. posts' \in [Posts -> Post]
    BY <1>1, <1>3 DEF IInv, TypeOK
<1>5. CASE posts[n].mine
    <2>1. page' = [page EXCEPT !.creating = FALSE, !.failed = TRUE, !.renderedAt = now]
        BY <1>1, <1>5 DEF Render, IInv, TypeOK, Page
    <2>2. page' \in Page /\ page'.rows = page.rows /\ page'.answer = page.answer
        BY <2>1 DEF IInv, TypeOK, Page
    <2>3. TypeOK'
        BY <1>1, <1>3, <1>4, <2>2 DEF IInv, TypeOK, Post
    <2>4. RowsInv'
        BY <1>1, <1>3, <2>2 DEF IInv, TypeOK, RowsInv, AllRecorded, Recorded, Exists
    <2>5. InFlight(n)
        BY <1>1, <1>5 DEF InFlight
    <2>6. \A m \in Posts : ~ InFlight(m)'
        BY <1>1, <1>3, <2>5 DEF IInv, TypeOK, FormInv, InFlight
    <2>7. FormInv'
        BY <1>1, <1>3, <2>1, <2>6 DEF IInv, TypeOK, Page, FormInv
    <2>. QED BY <2>3, <2>4, <2>7 DEF IInv
<1>6. CASE ~ posts[n].mine
    <2>1. TypeOK'
        BY <1>1, <1>3, <1>4, <1>6 DEF IInv, TypeOK, Post
    <2>2. RowsInv'
        BY <1>1, <1>3, <1>6 DEF IInv, TypeOK, RowsInv, AllRecorded, Recorded, Exists
    <2>3. FormInv'
        BY <1>1, <1>3, <1>6 DEF IInv, TypeOK, FormInv, InFlight
    <2>. QED BY <2>1, <2>2, <2>3 DEF IInv
<1>. QED BY <1>5, <1>6

LEMMA CreateAnsweredStep == IInv /\ CreateAnswered => IInv'
<1> SUFFICES ASSUME IInv, CreateAnswered PROVE IInv'
    OBVIOUS
<1>1. PICK n \in Posts :
            /\ posts[n].pc = "served"
            /\ Created(n)
            /\ posts' = [posts EXCEPT ![n] =
                    IF posts[n].mine THEN [posts[n] EXCEPT !.pc = "answered"] ELSE Done]
            /\ UNCHANGED <<intents, audit, now>>
    BY DEF CreateAnswered
<1>2. 0 \in Time
    BY IntentPagesAssumption DEF IntentPagesAssumption, Time
<1>3. Done \in Post /\ ~ Done.mine /\ Done.pc = "over"
    BY <1>2 DEF Done, Post
<1>4. posts' \in [Posts -> Post]
    <2>1. posts[n].mine => [posts[n] EXCEPT !.pc = "answered"] \in Post
        BY DEF IInv, TypeOK, Post
    <2>. QED BY <1>1, <1>3, <2>1 DEF IInv, TypeOK
<1>5. \A m \in Posts : m # n => posts'[m] = posts[m]
    BY <1>1 DEF IInv, TypeOK
<1>6. CASE posts[n].mine
    <2> DEFINE new == [id |-> posts[n].id, state |-> "DRAFT", at |-> posts[n].at]
    <2>1. /\ posts'[n].pc = "answered" /\ posts'[n].id = posts[n].id /\ posts'[n].mine
        BY <1>1, <1>6 DEF IInv, TypeOK, Post
    <2>2. new \in Row
        BY <1>1 DEF IInv, TypeOK, Post, Row, States
    <2>3. Recorded(new)
        <3>1. Recorded([id |-> posts[n].id, state |-> "DRAFT"])
            BY <1>1 DEF IInv, RowsInv
        <3>. QED BY <3>1 DEF Recorded
    <2>4. page.rows \in Seq(Row)
        BY DEF IInv, TypeOK, Page
    <2> DEFINE rows == <<new>> \o page.rows
    <2>5. /\ rows \in Seq(Row) /\ Len(rows) = Len(page.rows) + 1 /\ rows[1] = new
          /\ \A k \in 1 .. Len(page.rows) : rows[k + 1] = page.rows[k]
        BY <2>2, <2>4
    <2>6. page' = [page EXCEPT !.rows = rows, !.loaded = TRUE, !.creating = FALSE,
                              !.renderedAt = now]
        BY <1>1, <1>6 DEF Created, Prepended, Render, IInv, TypeOK, Page
    <2> HIDE DEF rows, new
    <2>7. /\ page' \in Page /\ page'.rows = rows /\ page'.answer = page.answer
          /\ page'.loaded /\ page'.early = page.early /\ page'.asked = page.asked
        BY <2>5, <2>6 DEF IInv, TypeOK, Page
    <2>8. Len(page.rows) \in Nat
        BY <2>4
    <2>9. \A k \in 1 .. Len(rows) :
            k = 1 \/ (k - 1 \in 1 .. Len(page.rows) /\ rows[k] = page.rows[k - 1])
        BY <2>5, <2>8
    <2>10. AllRecorded(rows)
        BY <2>3, <2>5, <2>9 DEF IInv, RowsInv, AllRecorded
    <2>11. TypeOK'
        BY <1>1, <1>4, <1>5, <2>1, <2>7 DEF IInv, TypeOK
    <2>12. RowsInv'
        <3>1. \A row : Recorded(row) => Recorded(row)'
            BY <1>1 DEF Recorded
        <3>2. ASSUME NEW m \in Posts, posts'[m].pc \in {"served", "answered"}
              PROVE  Recorded([id |-> posts[m].id, state |-> "DRAFT"])'
            <4>1. posts'[m].id = posts[m].id /\ posts[m].pc \in {"served", "answered"}
                BY <1>1, <1>5, <2>1, <3>2
            <4>. QED BY <3>1, <4>1 DEF IInv, RowsInv
        <3>3. AllRecorded(page.rows)'
            BY <1>1, <2>7, <2>10 DEF AllRecorded, Recorded
        <3>4. (page.answer # Loading => AllRecorded(page.answer.rows))'
            BY <1>1, <2>7 DEF IInv, RowsInv, AllRecorded, Recorded
        <3>. QED BY <1>1, <3>1, <3>2, <3>3, <3>4 DEF IInv, RowsInv, Exists, Recorded
    <2>13. \A m \in Posts : ~ InFlight(m)'
        BY <1>1, <1>5, <1>6, <2>1 DEF IInv, FormInv, InFlight
    <2>14. page.early \/ (page.loaded /\ ~ page.asked)
        BY <1>1, <1>6 DEF IInv, FormInv
    <2>15. ASSUME NEW m \in Posts, posts'[m].mine, posts'[m].pc = "answered", ~ page.early
          PROVE  \E k \in 1 .. Len(rows) : rows[k].id = posts'[m].id
        <3>1. CASE m = n
            BY <2>1, <2>5, <2>8, <3>1 DEF new
        <3>2. CASE m # n
            <4>1. PICK k \in 1 .. Len(page.rows) : page.rows[k].id = posts[m].id
                BY <1>5, <2>15, <3>2 DEF IInv, FormInv
            <4>2. k + 1 \in 1 .. Len(rows) /\ rows[k + 1].id = posts'[m].id
                BY <1>5, <2>5, <2>8, <3>2, <4>1
            <4>. QED BY <4>2
        <3>. QED BY <3>1, <3>2
    <2>16. FormInv'
        BY <1>5, <2>1, <2>7, <2>13, <2>14, <2>15 DEF IInv, FormInv
    <2>. QED BY <2>11, <2>12, <2>16 DEF IInv
<1>7. CASE ~ posts[n].mine
    <2>1. TypeOK'
        BY <1>1, <1>3, <1>4, <1>7 DEF Created, IInv, TypeOK, Post
    <2>2. RowsInv'
        BY <1>1, <1>3, <1>7 DEF Created, IInv, TypeOK, RowsInv, AllRecorded, Recorded, Exists
    <2>3. FormInv'
        BY <1>1, <1>3, <1>7 DEF Created, IInv, TypeOK, FormInv, InFlight
    <2>. QED BY <2>1, <2>2, <2>3 DEF IInv
<1>. QED BY <1>6, <1>7

LEMMA StepIInv == IInv /\ [Next]_vars => IInv'
<1> SUFFICES ASSUME IInv, [Next]_vars PROVE IInv'
    OBVIOUS
<1>1. CASE OthersCreate \/ Move \/ Restart \/ TimePasses
    BY <1>1, ApiKeepsIInv
<1>2. CASE ServeList \/ ServePost
    BY <1>2, ServeListStep, ServePostStep
<1>3. CASE Visit \/ OpenRow \/ Follow
    BY <1>3, MountStep DEF Visit, OpenRow, Follow
<1>4. CASE ListAnswered
    <2>1. page.asked /\ page.answer # Loading /\ ShowList(page.answer.rows)
        BY <1>4 DEF ListAnswered
    <2>2. page.answer.rows \in Seq(Row) /\ AllRecorded(page.answer.rows)
        BY <2>1 DEF IInv, TypeOK, Page, Answer, RowsInv
    <2>. QED BY <2>1, <2>2, ShowListStep
<1>5. CASE ListFailed
    <2>1. << >> \in Seq(Row) /\ AllRecorded(<< >>)
        BY DEF AllRecorded
    <2>. QED BY <1>5, <2>1, ShowListStep DEF ListFailed
<1>6. CASE Submit
    BY <1>6, SubmitStep
<1>7. CASE CreateAnswered \/ CreateFailed
    BY <1>7, CreateAnsweredStep, CreateFailedStep
<1>8. CASE UNCHANGED vars
    <2>1. TypeOK'
        BY <1>8 DEF IInv, TypeOK, vars
    <2>2. RowsInv'
        BY <1>8 DEF IInv, RowsInv, AllRecorded, Recorded, Exists, vars
    <2>3. FormInv'
        BY <1>8 DEF IInv, FormInv, InFlight, vars
    <2>. QED BY <2>1, <2>2, <2>3 DEF IInv
<1>. QED BY <1>1, <1>2, <1>3, <1>4, <1>5, <1>6, <1>7, <1>8 DEF Next

(* The types hold. *)
THEOREM TypeCorrect == Spec => []TypeOK
<1>1. IInv => TypeOK
    BY DEF IInv
<1>. QED BY <1>1, InitIInv, StepIInv, PTL DEF Spec

(* Nothing is on screen that the API did not record, however creations,      *)
(* lists, failures and navigations interleave.                               *)
THEOREM RowsOnScreenAreReal == Spec => []RowsAreReal
<1>1. IInv => RowsAreReal
    BY DEF IInv, RowsInv, RowsAreReal, AllRecorded, Recorded
<1>. QED BY <1>1, InitIInv, StepIInv, PTL DEF Spec

(* An idle form has nothing in flight, and unless it was used before the     *)
(* list came, what it was told of is on its list.                            *)
THEOREM IdleFormIsDone == Spec => []FormTellsTheTruth
<1>1. IInv => FormTellsTheTruth
    BY DEF IInv, FormInv, FormTellsTheTruth, InFlight, IdsOf
<1>. QED BY <1>1, InitIInv, StepIInv, PTL DEF Spec

-----------------------------------------------------------------------------
(* No intent is on the list twice.  The list and the answer to a creation    *)
(* bring the same intent only if the creation was served before the list;    *)
(* a form that waited for its list was not submitted yet then, so what its   *)
(* creation brings is minted later than everything on screen.                *)
OneRowEach(rows) == \A j, k \in 1 .. Len(rows) : rows[j].id = rows[k].id => j = k

NotListed(n) == \A k \in 1 .. Len(page.rows) : page.rows[k].id # posts[n].id

OnceInv ==
    /\ page.answer # Loading => OneRowEach(page.answer.rows)
    /\ ~ page.early => OneRowEach(page.rows)
    /\ \A n \in Posts :
            posts[n].mine /\ posts[n].pc = "served" /\ ~ page.early => NotListed(n)

(* A listing has one row for each intent. *)
LEMMA ListingsAreOnce ==
    ASSUME IInv, NEW rows \in Listings
    PROVE  OneRowEach(rows)
<1> DEFINE alive == {i \in Ids : Exists(i)}
           S == {EntryRow(id) : id \in alive}
<1>1. rows \in Seq(Row)
    BY ListingsAreReal
<1>2. /\ rows \in [1 .. Cardinality(S) -> S]
      /\ \A j, k \in 1 .. Cardinality(S) : j # k => rows[j] # rows[k]
    BY DEF Listings, SetToSeqs
<1>3. \A d, e \in S : d.id = e.id => d = e
    BY DEF EntryRow
<1> HIDE DEF S
<1>4. 1 .. Len(rows) = 1 .. Cardinality(S)
    BY <1>1, <1>2
<1>. QED BY <1>2, <1>3, <1>4 DEF OneRowEach

LEMMA OnceInit == Init => OnceInv
BY DEF Init, Fresh, Done, OnceInv, OneRowEach

(* Steps of the API leave what is on the screen and on its way alone. *)
LEMMA OnceAside ==
    ASSUME OnceInv, UNCHANGED <<page, posts>> PROVE OnceInv'
BY DEF OnceInv, NotListed

LEMMA OnceServeList == ASSUME IInv, OnceInv, ServeList PROVE OnceInv'
<1>1. PICK rows \in Listings : page' = [page EXCEPT !.answer = Listed(rows)]
    BY DEF ServeList
<1>2. OneRowEach(rows)
    BY ListingsAreOnce
<1>3. /\ page'.answer.rows = rows /\ page'.rows = page.rows /\ page'.early = page.early
      /\ posts' = posts
    BY <1>1 DEF ServeList, IInv, TypeOK, Page, Listed
<1>. QED BY <1>2, <1>3 DEF OnceInv, NotListed

(* An id that is minted now is not on any screen. *)
LEMMA OnceServePost == ASSUME IInv, OnceInv, ServePost PROVE OnceInv'
<1>1. PICK n \in Posts, id \in Ids :
            /\ posts[n].pc = "sent"
            /\ Create(id)
            /\ posts' = [posts EXCEPT ![n].pc = "served", ![n].id = id]
            /\ UNCHANGED page
    BY DEF ServePost
<1>2. posts'[n].id = id /\ \A m \in Posts : m # n => posts'[m] = posts[m]
    BY <1>1 DEF IInv, TypeOK, Post
<1>3. \A k \in 1 .. Len(page.rows) : page.rows[k].id # id
    BY <1>1 DEF Create, Minted, IInv, RowsInv, AllRecorded, Recorded
<1>4. ASSUME NEW m \in Posts, (posts[m].mine /\ posts[m].pc = "served" /\ ~ page.early)'
      PROVE  NotListed(m)'
    BY <1>1, <1>2, <1>3, <1>4 DEF OnceInv, NotListed
<1>. QED BY <1>1, <1>4 DEF OnceInv

LEMMA OnceMount ==
    ASSUME IInv, NEW view \in {"list", "console", "detail"}, Mount(view)
    PROVE  OnceInv'
<1>1. \A n \in Posts : ~ posts'[n].mine
    BY DEF Mount, Done, IInv, TypeOK, Post
<1>2. page'.answer = Loading /\ page'.rows = << >>
    BY DEF Mount, Fresh
<1>3. OneRowEach(<< >>)
    BY DEF OneRowEach
<1>. QED BY <1>1, <1>2, <1>3 DEF OnceInv

LEMMA OnceShowList ==
    ASSUME IInv, OnceInv, NEW rows \in Seq(Row), OneRowEach(rows), page.asked, ShowList(rows)
    PROVE  OnceInv'
<1>1. /\ page'.rows = rows /\ page'.answer = Loading /\ page'.early = page.early
      /\ posts' = posts
    BY DEF ShowList, Render, IInv, TypeOK, Page
<1>2. \A n \in Posts : posts[n].mine /\ posts[n].pc = "served" => page.early
    BY DEF IInv, FormInv
<1>. QED BY <1>1, <1>2 DEF OnceInv

LEMMA OnceSubmit == ASSUME IInv, OnceInv, Submit PROVE OnceInv'
<1>1. PICK n \in Posts :
            /\ posts' = [posts EXCEPT ![n].pc = "sent", ![n].mine = TRUE,
                                      ![n].at = page.renderedAt]
            /\ Render([page EXCEPT !.creating = TRUE, !.failed = FALSE,
                          !.early = page.early \/ ~ page.loaded])
    BY DEF Submit
<1>2. /\ page'.rows = page.rows /\ page'.answer = page.answer
      /\ ~ page'.early => ~ page.early
    BY <1>1 DEF Render, IInv, TypeOK, Page
<1>3. posts'[n].pc = "sent" /\ \A m \in Posts : m # n => posts'[m] = posts[m]
    BY <1>1 DEF IInv, TypeOK, Post
<1>. QED BY <1>2, <1>3 DEF OnceInv, NotListed

LEMMA OnceCreateFailed == ASSUME IInv, OnceInv, CreateFailed PROVE OnceInv'
<1>1. PICK n \in Posts :
            /\ IF posts[n].mine
               THEN Render([page EXCEPT !.creating = FALSE, !.failed = TRUE])
               ELSE UNCHANGED page
            /\ posts' = [posts EXCEPT ![n] = Done]
    BY DEF CreateFailed
<1>2. page'.rows = page.rows /\ page'.answer = page.answer /\ page'.early = page.early
    BY <1>1 DEF Render, IInv, TypeOK, Page
<1>3. ~ posts'[n].mine /\ \A m \in Posts : m # n => posts'[m] = posts[m]
    BY <1>1 DEF IInv, TypeOK, Post, Done
<1>. QED BY <1>2, <1>3 DEF OnceInv, NotListed

LEMMA OnceCreateAnswered == ASSUME IInv, OnceInv, CreateAnswered PROVE OnceInv'
<1>1. PICK n \in Posts :
            /\ posts[n].pc = "served"
            /\ Created(n)
            /\ posts' = [posts EXCEPT ![n] =
                    IF posts[n].mine THEN [posts[n] EXCEPT !.pc = "answered"] ELSE Done]
    BY DEF CreateAnswered
<1>2. /\ ~ (posts'[n].mine /\ posts'[n].pc = "served")
      /\ \A m \in Posts : m # n => posts'[m] = posts[m]
    BY <1>1 DEF IInv, TypeOK, Post, Done
<1>3. CASE ~ posts[n].mine
    BY <1>1, <1>2, <1>3 DEF Created, OnceInv, NotListed
<1>4. CASE posts[n].mine
    <2> DEFINE new == [id |-> posts[n].id, state |-> "DRAFT", at |-> posts[n].at]
               rows == <<new>> \o page.rows
    <2>1. new \in Row
        BY <1>1 DEF IInv, TypeOK, Post, Row, States
    <2>2. page.rows \in Seq(Row) /\ new.id = posts[n].id
        BY DEF IInv, TypeOK, Page
    <2>3. /\ page'.rows = rows /\ page'.answer = page.answer /\ page'.early = page.early
        BY <1>1, <1>4 DEF Created, Prepended, Render, IInv, TypeOK, Page
    <2> HIDE DEF new
    <2>4. /\ Len(rows) = Len(page.rows) + 1 /\ rows[1] = new /\ Len(page.rows) \in Nat
          /\ \A k \in 1 .. Len(rows) :
                k = 1 \/ (k - 1 \in 1 .. Len(page.rows) /\ rows[k] = page.rows[k - 1])
        BY <2>1, <2>2
    <2>5. \A m \in Posts : m # n => ~ (posts[m].mine /\ posts[m].pc = "served")
        BY <1>1, <1>4 DEF IInv, FormInv, InFlight
    <2> HIDE DEF rows
    <2>6. ~ page.early => NotListed(n) /\ OneRowEach(page.rows)
        BY <1>1, <1>4 DEF OnceInv
    <2>7. ASSUME NotListed(n), OneRowEach(page.rows) PROVE OneRowEach(rows)
        <3> SUFFICES ASSUME NEW j \in 1 .. Len(rows), NEW k \in 1 .. Len(rows),
                            rows[j].id = rows[k].id
                     PROVE  j = k
            BY DEF OneRowEach
        <3>1. CASE j = 1 \/ k = 1
            BY <2>2, <2>4, <2>7, <3>1 DEF NotListed
        <3>2. CASE j # 1 /\ k # 1
            <4>1. /\ j - 1 \in 1 .. Len(page.rows) /\ k - 1 \in 1 .. Len(page.rows)
                  /\ page.rows[j - 1].id = page.rows[k - 1].id
                BY <2>4, <3>2
            <4>2. j - 1 = k - 1
                BY <2>7, <4>1 DEF OneRowEach
            <4>. QED BY <4>2
        <3>. QED BY <3>1, <3>2
    <2>. QED BY <1>2, <2>3, <2>5, <2>6, <2>7 DEF OnceInv
<1>. QED BY <1>3, <1>4

LEMMA OnceStep == IInv /\ OnceInv /\ [Next]_vars => OnceInv'
<1> SUFFICES ASSUME IInv, OnceInv, [Next]_vars PROVE OnceInv'
    OBVIOUS
<1>1. CASE OthersCreate \/ Move \/ Restart \/ TimePasses \/ UNCHANGED vars
    BY <1>1, OnceAside
       DEF OthersCreate, Move, Validate, Execute, Reject, Advance, Restart, TimePasses, vars
<1>2. CASE ServeList \/ ServePost
    BY <1>2, OnceServeList, OnceServePost
<1>3. CASE Visit \/ OpenRow \/ Follow
    BY <1>3, OnceMount DEF Visit, OpenRow, Follow
<1>4. CASE ListAnswered
    <2>1. page.asked /\ page.answer # Loading /\ ShowList(page.answer.rows)
        BY <1>4 DEF ListAnswered
    <2>2. page.answer.rows \in Seq(Row) /\ OneRowEach(page.answer.rows)
        BY <2>1 DEF IInv, TypeOK, Page, Answer, OnceInv
    <2>. QED BY <2>1, <2>2, OnceShowList
<1>5. CASE ListFailed
    <2>1. << >> \in Seq(Row) /\ OneRowEach(<< >>)
        BY DEF OneRowEach
    <2>. QED BY <1>5, <2>1, OnceShowList DEF ListFailed
<1>6. CASE Submit
    BY <1>6, OnceSubmit
<1>7. CASE CreateAnswered \/ CreateFailed
    BY <1>7, OnceCreateAnswered, OnceCreateFailed
<1>. QED BY <1>1, <1>2, <1>3, <1>4, <1>5, <1>6, <1>7 DEF Next

(* Rows with an id each are as many as their ids. *)
LEMMA AsManyIds ==
    ASSUME NEW rows \in Seq(Row), OneRowEach(rows)
    PROVE  Cardinality(IdsOf(rows)) = Len(rows)
<1> DEFINE D == 1 .. Len(rows)
           f == [k \in D |-> rows[k].id]
           T == IdsOf(rows)
<1>1. Len(rows) \in Nat
    OBVIOUS
<1>2. IsFiniteSet(D) /\ Cardinality(D) = Len(rows)
    BY <1>1, FS_Interval
<1>3. f \in Surjection(D, T)
    BY DEF Surjection, IdsOf
<1>4. f \in Injection(D, T)
    BY <1>3 DEF Surjection, Injection, IsInjective, OneRowEach
<1>. HIDE DEF D, f, T
<1>5. Cardinality(T) = Cardinality(D)
    BY <1>2, <1>3, <1>4, FS_Surjection
<1>. QED BY <1>2, <1>5 DEF T

(* A user who lets the list come before submitting the form never sees an    *)
(* intent twice.                                                             *)
THEOREM NoIntentIsListedTwice == Spec => []EachIntentOnce
<1>1. IInv /\ OnceInv => EachIntentOnce
    BY AsManyIds DEF IInv, TypeOK, Page, OnceInv, EachIntentOnce
<1>. QED BY <1>1, InitIInv, StepIInv, OnceInit, OnceStep, PTL DEF Spec

-----------------------------------------------------------------------------
(* The console's counters.  They count by the update time the API keeps; the *)
(* audit trail agrees because an intent is recorded in each state once, and  *)
(* what the console lists is the very row that was recorded.                 *)
Earlier(state) ==
    CASE state = "DRAFT" -> {"DRAFT"}
      [] state = "POLICY_VALIDATED" -> {"DRAFT", "POLICY_VALIDATED"}
      [] state = "EXECUTED" -> {"DRAFT", "POLICY_VALIDATED", "EXECUTED"}
      [] OTHER -> States

(* A state is recorded of an intent once, since no state is come back to.    *)
AuditInv ==
    /\ \A r, q \in audit : r.id = q.id /\ r.state = q.state => r = q
    /\ \A id \in Ids : Exists(id) =>
            /\ EntryRow(id) \in audit
            /\ \A r \in audit : r.id = id => r.state \in Earlier(intents[id].state)

InAudit(rows) == \A k \in 1 .. Len(rows) : rows[k] \in audit

ConsoleInv ==
    /\ page.answer # Loading => InAudit(page.answer.rows)
    /\ page.view = "console" => InAudit(page.rows)
    /\ \A n \in Posts : posts[n].mine => page.view = "list"

LEMMA AuditInit == Init => AuditInv /\ ConsoleInv
BY DEF Init, Fresh, Done, AuditInv, ConsoleInv, Exists, InAudit

(* An entry made or moved to a state it never had before is the only one     *)
(* recorded of it in that state.                                             *)
LEMMA EnterAudit ==
    ASSUME IInv, AuditInv, NEW id \in Ids, NEW state \in States,
           intents' = [intents EXCEPT ![id] = [state |-> state, at |-> now]],
           Record(id, state),
           \A r \in audit : r.id = id => r.state # state /\ r.state \in Earlier(state)
    PROVE  AuditInv'
<1> DEFINE new == [id |-> id, state |-> state, at |-> now]
<1>1. audit' = audit \cup {new} /\ new.id = id /\ new.state = state
    BY DEF Record
<1>2. \A r, q \in audit' : r.id = q.id /\ r.state = q.state => r = q
    BY <1>1 DEF AuditInv
<1>3. state \in Earlier(state)
    BY DEF Earlier, States
<1>4. ASSUME NEW i \in Ids, intents'[i] # NoEntry
      PROVE  /\ [id |-> i, state |-> intents'[i].state, at |-> intents'[i].at] \in audit'
             /\ \A r \in audit' : r.id = i => r.state \in Earlier(intents'[i].state)
    <2>1. CASE i = id
        <3>1. intents'[i].state = state /\ intents'[i].at = now
            BY <2>1 DEF IInv, TypeOK
        <3>. QED BY <1>1, <1>3, <2>1, <3>1
    <2>2. CASE i # id
        <3>1. intents'[i] = intents[i]
            BY <2>2 DEF IInv, TypeOK
        <3>. QED BY <1>1, <1>4, <2>2, <3>1 DEF AuditInv, Exists, EntryRow
    <2>. QED BY <2>1, <2>2
<1>. QED BY <1>2, <1>4 DEF AuditInv, Exists, EntryRow

LEMMA CreateAudit ==
    ASSUME IInv, AuditInv, NEW id \in Ids, Create(id) PROVE AuditInv'
<1>1. \A r \in audit : r.id # id
    BY DEF Create, Minted
<1>. QED BY <1>1, EnterAudit DEF Create, States

(* The API moves an intent only to states it has not been in. *)
LEMMA MoveAudit == ASSUME IInv, AuditInv, Move PROVE AuditInv'
<1>1. PICK id \in Ids : Validate(id) \/ Execute(id) \/ Reject(id)
    BY DEF Move
<1>2. PICK state \in States :
        /\ Advance(id, state)
        /\ \/ intents[id].state = "DRAFT" /\ state \in {"POLICY_VALIDATED", "REJECTED"}
           \/ intents[id].state = "POLICY_VALIDATED" /\ state = "EXECUTED"
           \/ intents[id].state # "REJECTED" /\ state = "REJECTED"
    BY <1>1 DEF Validate, Execute, Reject, States
<1>3. intents[id].state \in States /\ Exists(id)
    BY <1>2 DEF Advance, Exists, IInv, TypeOK, Entry
<1>4. \A r \in audit : r.id = id => r.state \in Earlier(intents[id].state) /\ r \in Row
    BY <1>3 DEF AuditInv, IInv, TypeOK
<1>5. \A r \in audit : r.id = id => r.state # state /\ r.state \in Earlier(state)
    BY <1>2, <1>3, <1>4 DEF Earlier, States
<1>. QED BY <1>2, <1>5, EnterAudit DEF Advance, Enter

LEMMA AuditStep == IInv /\ AuditInv /\ [Next]_vars => AuditInv' /\ audit \subseteq audit'
<1> SUFFICES ASSUME IInv, AuditInv, [Next]_vars PROVE AuditInv' /\ audit \subseteq audit'
    OBVIOUS
<1>1. CASE OthersCreate \/ ServePost
    BY <1>1, CreateAudit DEF OthersCreate, ServePost, Create, Record
<1>2. CASE Move
    BY <1>2, MoveAudit DEF Move, Validate, Execute, Reject, Advance, Record
<1>3. CASE Restart
    BY <1>3 DEF Restart, AuditInv, Exists
<1>4. CASE UNCHANGED <<intents, audit>>
    BY <1>4 DEF AuditInv, Exists, EntryRow
<1>5. CASE TimePasses \/ ServeList \/ Visit \/ OpenRow \/ Follow \/ UNCHANGED vars
    BY <1>4, <1>5 DEF TimePasses, ServeList, Visit, OpenRow, Follow, Mount, vars
<1>6. CASE ListAnswered \/ ListFailed \/ Submit \/ CreateAnswered \/ CreateFailed
    BY <1>4, <1>6 DEF ListAnswered, ListFailed, ShowList, Submit, CreateAnswered, CreateFailed
<1>. QED BY <1>1, <1>2, <1>3, <1>5, <1>6 DEF Next

(* What a listing shows of an intent is the row that was recorded last. *)
LEMMA ListingsInAudit ==
    ASSUME IInv, AuditInv, NEW rows \in Listings
    PROVE  InAudit(rows)
<1> DEFINE alive == {i \in Ids : Exists(i)}
           S == {EntryRow(id) : id \in alive}
<1>1. rows \in Seq(Row)
    BY ListingsAreReal
<1>2. rows \in [1 .. Cardinality(S) -> S]
    BY DEF Listings, SetToSeqs
<1>3. \A e \in S : e \in audit
    BY DEF AuditInv
<1> HIDE DEF S
<1>4. 1 .. Len(rows) = 1 .. Cardinality(S)
    BY <1>1, <1>2
<1>. QED BY <1>2, <1>3, <1>4 DEF InAudit

LEMMA InAuditStays ==
    ASSUME audit \subseteq audit', NEW rows, InAudit(rows)
    PROVE  \A k \in 1 .. Len(rows) : rows[k] \in audit'
BY DEF InAudit

LEMMA ConsoleAside ==
    ASSUME ConsoleInv, audit \subseteq audit', page' = page,
           \A n \in Posts : posts'[n].mine => posts[n].mine
    PROVE  ConsoleInv'
BY DEF ConsoleInv, InAudit

LEMMA ConsoleServeList ==
    ASSUME IInv, AuditInv, ConsoleInv, ServeList PROVE ConsoleInv'
<1>1. PICK rows \in Listings : page' = [page EXCEPT !.answer = Listed(rows)]
    BY DEF ServeList
<1>2. InAudit(rows) /\ audit' = audit
    BY ListingsInAudit DEF ServeList
<1>3. /\ page'.answer.rows = rows /\ page'.rows = page.rows /\ page'.view = page.view
      /\ posts' = posts
    BY <1>1 DEF ServeList, IInv, TypeOK, Page, Listed
<1>. QED BY <1>2, <1>3 DEF ConsoleInv, InAudit

LEMMA ConsoleMount ==
    ASSUME IInv, NEW view \in {"list", "console", "detail"}, Mount(view)
    PROVE  ConsoleInv'
<1>1. \A n \in Posts : ~ posts'[n].mine
    BY DEF Mount, Done, IInv, TypeOK, Post
<1>2. page'.answer = Loading /\ page'.rows = << >>
    BY DEF Mount, Fresh
<1>. QED BY <1>1, <1>2 DEF ConsoleInv, InAudit

LEMMA ConsoleShowList ==
    ASSUME IInv, ConsoleInv, NEW rows \in Seq(Row), InAudit(rows), ShowList(rows)
    PROVE  ConsoleInv'
<1>1. /\ page'.rows = rows /\ page'.answer = Loading /\ page'.view = page.view
      /\ posts' = posts /\ audit' = audit
    BY DEF ShowList, Render, IInv, TypeOK, Page
<1>. QED BY <1>1 DEF ConsoleInv, InAudit

(* A form is only on the list page, and so is what it changes. *)
LEMMA ConsoleForm ==
    ASSUME IInv, ConsoleInv, Submit \/ CreateAnswered \/ CreateFailed
    PROVE  ConsoleInv'
<1>1. /\ page'.view = page.view /\ page'.answer = page.answer /\ audit' = audit
      /\ page.view = "list" \/ page'.rows = page.rows
      /\ \A n \in Posts : posts'[n].mine => posts[n].mine \/ page.view = "list"
    <2>1. CASE Submit
        <3>1. PICK n \in Posts :
                /\ page.view = "list"
                /\ posts' = [posts EXCEPT ![n].pc = "sent", ![n].mine = TRUE,
                                          ![n].at = page.renderedAt]
                /\ Render([page EXCEPT !.creating = TRUE, !.failed = FALSE,
                              !.early = page.early \/ ~ page.loaded])
                /\ audit' = audit
            BY <2>1 DEF Submit, MaySubmit
        <3>. QED BY <3>1 DEF Render, IInv, TypeOK, Page
    <2>2. CASE CreateAnswered
        <3>1. PICK n \in Posts :
                /\ Created(n)
                /\ posts' = [posts EXCEPT ![n] =
                        IF posts[n].mine THEN [posts[n] EXCEPT !.pc = "answered"] ELSE Done]
                /\ audit' = audit
            BY <2>2 DEF CreateAnswered
        <3>2. /\ page'.view = page.view /\ page'.answer = page.answer
              /\ posts[n].mine \/ page'.rows = page.rows
            BY <3>1 DEF Created, Render, IInv, TypeOK, Page
        <3>3. \A m \in Posts : posts'[m].mine => posts[m].mine
            BY <3>1 DEF IInv, TypeOK, Post, Done
        <3>. QED BY <3>1, <3>2, <3>3 DEF ConsoleInv
    <2>3. CASE CreateFailed
        <3>1. PICK n \in Posts :
                /\ IF posts[n].mine
                   THEN Render([page EXCEPT !.creating = FALSE, !.failed = TRUE])
                   ELSE UNCHANGED page
                /\ posts' = [posts EXCEPT ![n] = Done]
                /\ audit' = audit
            BY <2>3 DEF CreateFailed
        <3>2. page'.view = page.view /\ page'.answer = page.answer /\ page'.rows = page.rows
            BY <3>1 DEF Render, IInv, TypeOK, Page
        <3>3. \A m \in Posts : posts'[m].mine => posts[m].mine
            BY <3>1 DEF IInv, TypeOK, Post, Done
        <3>. QED BY <3>1, <3>2, <3>3
    <2>. QED BY <2>1, <2>2, <2>3
<1>. QED BY <1>1 DEF ConsoleInv, InAudit

LEMMA ConsoleStep ==
    IInv /\ AuditInv /\ ConsoleInv /\ [Next]_vars => ConsoleInv'
<1> SUFFICES ASSUME IInv, AuditInv, ConsoleInv, [Next]_vars PROVE ConsoleInv'
    OBVIOUS
<1>1. audit \subseteq audit'
    BY AuditStep
<1>2. CASE OthersCreate \/ Move \/ Restart \/ TimePasses \/ UNCHANGED vars
    BY <1>1, <1>2, ConsoleAside
       DEF OthersCreate, Move, Validate, Execute, Reject, Advance, Restart, TimePasses, vars
<1>3. CASE ServePost
    <2>1. \A n \in Posts : posts'[n].mine = posts[n].mine
        BY <1>3 DEF ServePost, IInv, TypeOK, Post
    <2>. QED BY <1>1, <1>3, <2>1, ConsoleAside DEF ServePost
<1>4. CASE Visit \/ OpenRow \/ Follow
    BY <1>4, ConsoleMount DEF Visit, OpenRow, Follow
<1>5. CASE ListAnswered
    <2>1. page.answer # Loading /\ ShowList(page.answer.rows)
        BY <1>5 DEF ListAnswered
    <2>2. page.answer.rows \in Seq(Row) /\ InAudit(page.answer.rows)
        BY <2>1 DEF IInv, TypeOK, Page, Answer, ConsoleInv
    <2>. QED BY <2>1, <2>2, ConsoleShowList
<1>6. CASE ListFailed
    <2>1. << >> \in Seq(Row) /\ InAudit(<< >>)
        BY DEF InAudit
    <2>. QED BY <1>6, <2>1, ConsoleShowList DEF ListFailed
<1>7. CASE Submit \/ CreateAnswered \/ CreateFailed
    BY <1>7, ConsoleForm
<1>. QED BY <1>2, <1>3, <1>4, <1>5, <1>6, <1>7, ConsoleServeList DEF Next

-----------------------------------------------------------------------------
(* The positions of a list that pass a test. *)
Places(rows, S) == {k \in 1 .. Len(rows) : rows[k].state \in S}

LEMMA RowStates ==
    ASSUME NEW rows \in Seq(Row)
    PROVE  \A k \in 1 .. Len(rows) : rows[k].state \in States
<1>1. \A k \in 1 .. Len(rows) : rows[k] \in Row
    OBVIOUS
<1>. QED BY <1>1 DEF Row

LEMMA PlacesCount ==
    ASSUME NEW rows \in Seq(Row), NEW S
    PROVE  IsFiniteSet(Places(rows, S)) /\ Cardinality(Places(rows, S)) \in Nat
<1>1. Len(rows) \in Nat
    OBVIOUS
<1>2. IsFiniteSet(1 .. Len(rows))
    BY <1>1, FS_Interval
<1>. QED BY <1>2, FS_Subset, FS_CardinalityType DEF Places

(* Disjoint tests add up. *)
LEMMA PlacesAdd ==
    ASSUME NEW rows \in Seq(Row), NEW S, NEW T, S \cap T = {}, NEW W, W = S \cup T
    PROVE  Cardinality(Places(rows, W)) =
                Cardinality(Places(rows, S)) + Cardinality(Places(rows, T))
<1> DEFINE A == Places(rows, S)
           B == Places(rows, T)
<1>1. IsFiniteSet(A) /\ IsFiniteSet(B) /\ Cardinality(A) \in Nat /\ Cardinality(B) \in Nat
    BY PlacesCount
<1>2. Places(rows, W) = A \cup B /\ A \cap B = {}
    BY DEF Places
<1>. HIDE DEF A, B
<1>3. Cardinality(A \cup B) = Cardinality(A) + Cardinality(B) - 0
    BY <1>1, <1>2, FS_Union, FS_EmptySet
<1>4. Cardinality(A \cup B) = Cardinality(A) + Cardinality(B)
    BY <1>1, <1>3
<1>. QED BY <1>2, <1>4 DEF A, B

(* The counters that do not look at the day, as positions. *)
LEMMA CountersArePlaces ==
    ASSUME NEW rows \in Seq(Row), NEW at
    PROVE  /\ Summary(rows, at).awaitingPolicy = Cardinality(Places(rows, {"DRAFT"}))
           /\ Summary(rows, at).active =
                Cardinality(Places(rows, {"DRAFT", "POLICY_VALIDATED"}))
           /\ FilterCount(rows, "all") = Cardinality(Places(rows, States))
           /\ FilterCount(rows, "draft") = Cardinality(Places(rows, {"DRAFT"}))
           /\ FilterCount(rows, "validated") =
                Cardinality(Places(rows, {"POLICY_VALIDATED"}))
           /\ FilterCount(rows, "executed") = Cardinality(Places(rows, {"EXECUTED"}))
           /\ FilterCount(rows, "rejected") = Cardinality(Places(rows, {"REJECTED"}))
<1>1. \A k \in 1 .. Len(rows) : rows[k].state \in States
    BY RowStates
<1>2. Summary(rows, at).awaitingPolicy =
            Cardinality({k \in 1 .. Len(rows) : rows[k].state = "DRAFT"})
    BY DEF Summary
<1>3. Summary(rows, at).active = Cardinality({k \in 1 .. Len(rows) :
            rows[k].state \notin ExecutedStates \cup RejectedStates})
    BY DEF Summary
<1>4. {k \in 1 .. Len(rows) : rows[k].state = "DRAFT"} = Places(rows, {"DRAFT"})
    BY DEF Places
<1>5. {k \in 1 .. Len(rows) : rows[k].state \notin ExecutedStates \cup RejectedStates}
            = Places(rows, {"DRAFT", "POLICY_VALIDATED"})
    BY <1>1 DEF Places, ExecutedStates, RejectedStates, States
<1>6. /\ FilterCount(rows, "all") = Cardinality(Places(rows, States))
      /\ FilterCount(rows, "draft") = Cardinality(Places(rows, {"DRAFT"}))
      /\ FilterCount(rows, "validated") = Cardinality(Places(rows, {"POLICY_VALIDATED"}))
    BY DEF FilterCount, FilterStates, Places
<1>7. FilterCount(rows, "executed") = Cardinality(Places(rows, {"EXECUTED"}))
    <2>1. {k \in 1 .. Len(rows) : rows[k].state \in FilterStates("executed")}
            = Places(rows, {"EXECUTED"})
        BY <1>1 DEF FilterStates, Places, States
    <2>. QED BY <2>1 DEF FilterCount
<1>8. FilterCount(rows, "rejected") = Cardinality(Places(rows, {"REJECTED"}))
    <2>1. {k \in 1 .. Len(rows) : rows[k].state \in FilterStates("rejected")}
            = Places(rows, {"REJECTED"})
        BY <1>1 DEF FilterStates, Places, States
    <2>. QED BY <2>1 DEF FilterCount
<1>. QED BY <1>2, <1>3, <1>4, <1>5, <1>6, <1>7, <1>8

(* The counters of the day agree with the audit trail. *)
LEMMA DayIsRecorded ==
    ASSUME NEW rows \in Seq(Row), NEW at, audit \subseteq Row, AuditInv, InAudit(rows),
           NEW state \in States
    PROVE  {k \in 1 .. Len(rows) : rows[k].state = state /\ DayOf(rows[k].at) = DayOf(at)}
            = {k \in 1 .. Len(rows) :
                rows[k].state = state /\ RecordedOn(rows[k].id, state, DayOf(at))}
<1> SUFFICES ASSUME NEW k \in 1 .. Len(rows), rows[k].state = state
             PROVE  DayOf(rows[k].at) = DayOf(at) <=> RecordedOn(rows[k].id, state, DayOf(at))
    OBVIOUS
<1>1. rows[k] \in audit
    BY DEF InAudit
<1>2. \A r \in audit : r.id = rows[k].id /\ r.state = state => r = rows[k]
    BY <1>1 DEF AuditInv
<1>. QED BY <1>1, <1>2 DEF RecordedOn

LEMMA ConsoleCounts ==
    ASSUME IInv, AuditInv, ConsoleInv
    PROVE  ConsoleIsTrue
<1> SUFFICES ASSUME page.view = "console"
             PROVE  LET s == Summary(page.rows, page.renderedAt)
                        onDay(state) == {k \in 1 .. Len(page.rows) :
                            /\ page.rows[k].state = state
                            /\ RecordedOn(page.rows[k].id, state, DayOf(page.renderedAt))}
                        bucket(key) == FilterCount(page.rows, key)
                    IN  /\ s.executedToday = Cardinality(onDay("EXECUTED"))
                        /\ s.rejectedToday = Cardinality(onDay("REJECTED"))
                        /\ s.awaitingPolicy = bucket("draft")
                        /\ s.active = bucket("all") - bucket("executed") - bucket("rejected")
                        /\ s.active = bucket("draft") + bucket("validated")
    BY DEF ConsoleIsTrue
<1> DEFINE rows == page.rows
           at == page.renderedAt
           s == Summary(rows, at)
           count(S) == Cardinality(Places(rows, S))
           onDay(state) == {k \in 1 .. Len(rows) :
                /\ rows[k].state = state
                /\ RecordedOn(rows[k].id, state, DayOf(at))}
<1>1. rows \in Seq(Row) /\ audit \subseteq Row /\ InAudit(rows)
    BY DEF IInv, TypeOK, Page, ConsoleInv
<1>2. \A k \in 1 .. Len(rows) : rows[k].state \in States
    BY <1>1, RowStates
<1>3. s.executedToday = Cardinality(onDay("EXECUTED"))
    <2>1. s.executedToday = Cardinality({k \in 1 .. Len(rows) :
                rows[k].state \in ExecutedStates /\ DayOf(rows[k].at) = DayOf(at)})
        BY DEF Summary
    <2>2. {k \in 1 .. Len(rows) : rows[k].state \in ExecutedStates /\ DayOf(rows[k].at) = DayOf(at)}
            = {k \in 1 .. Len(rows) : rows[k].state = "EXECUTED" /\ DayOf(rows[k].at) = DayOf(at)}
        BY <1>2 DEF ExecutedStates, States
    <2>3. "EXECUTED" \in States
        BY DEF States
    <2>4. {k \in 1 .. Len(rows) : rows[k].state = "EXECUTED" /\ DayOf(rows[k].at) = DayOf(at)}
            = onDay("EXECUTED")
        <3>. HIDE DEF rows, at
        <3>. QED BY <1>1, <2>3, DayIsRecorded
    <2>. QED BY <2>1, <2>2, <2>4
<1>4. s.rejectedToday = Cardinality(onDay("REJECTED"))
    <2>1. s.rejectedToday = Cardinality({k \in 1 .. Len(rows) :
                rows[k].state \in RejectedStates /\ DayOf(rows[k].at) = DayOf(at)})
        BY DEF Summary
    <2>2. {k \in 1 .. Len(rows) : rows[k].state \in RejectedStates /\ DayOf(rows[k].at) = DayOf(at)}
            = {k \in 1 .. Len(rows) : rows[k].state = "REJECTED" /\ DayOf(rows[k].at) = DayOf(at)}
        BY <1>2 DEF RejectedStates, States
    <2>3. "REJECTED" \in States
        BY DEF States
    <2>4. {k \in 1 .. Len(rows) : rows[k].state = "REJECTED" /\ DayOf(rows[k].at) = DayOf(at)}
            = onDay("REJECTED")
        <3>. HIDE DEF rows, at
        <3>. QED BY <1>1, <2>3, DayIsRecorded
    <2>. QED BY <2>1, <2>2, <2>4
<1>5. /\ s.awaitingPolicy = count({"DRAFT"})
      /\ s.active = count({"DRAFT", "POLICY_VALIDATED"})
      /\ FilterCount(rows, "all") = count(States)
      /\ FilterCount(rows, "draft") = count({"DRAFT"})
      /\ FilterCount(rows, "validated") = count({"POLICY_VALIDATED"})
      /\ FilterCount(rows, "executed") = count({"EXECUTED"})
      /\ FilterCount(rows, "rejected") = count({"REJECTED"})
    BY <1>1, CountersArePlaces
<1>6. /\ count({"DRAFT"}) \in Nat /\ count({"POLICY_VALIDATED"}) \in Nat
      /\ count({"DRAFT", "POLICY_VALIDATED"}) = count({"DRAFT"}) + count({"POLICY_VALIDATED"})
    <2>1. {"DRAFT", "POLICY_VALIDATED"} = {"DRAFT"} \cup {"POLICY_VALIDATED"}
        OBVIOUS
    <2>2. {"DRAFT"} \cap {"POLICY_VALIDATED"} = {}
        OBVIOUS
    <2>3. count({"DRAFT", "POLICY_VALIDATED"}) = count({"DRAFT"}) + count({"POLICY_VALIDATED"})
        BY <1>1, <2>1, <2>2, PlacesAdd
    <2>. QED BY <1>1, <2>3, PlacesCount
<1>7. /\ count({"EXECUTED"}) \in Nat /\ count({"REJECTED"}) \in Nat
      /\ count({"EXECUTED", "REJECTED"}) = count({"EXECUTED"}) + count({"REJECTED"})
    <2>1. {"EXECUTED", "REJECTED"} = {"EXECUTED"} \cup {"REJECTED"}
        OBVIOUS
    <2>2. {"EXECUTED"} \cap {"REJECTED"} = {}
        OBVIOUS
    <2>3. count({"EXECUTED", "REJECTED"}) = count({"EXECUTED"}) + count({"REJECTED"})
        BY <1>1, <2>1, <2>2, PlacesAdd
    <2>. QED BY <1>1, <2>3, PlacesCount
<1>8. count(States) = count({"DRAFT", "POLICY_VALIDATED"}) + count({"EXECUTED", "REJECTED"})
    <2>1. States = {"DRAFT", "POLICY_VALIDATED"} \cup {"EXECUTED", "REJECTED"}
        BY DEF States
    <2>2. {"DRAFT", "POLICY_VALIDATED"} \cap {"EXECUTED", "REJECTED"} = {}
        OBVIOUS
    <2>. QED BY <1>1, <2>1, <2>2, PlacesAdd
<1>. HIDE DEF count, s
<1>9. s.active = count(States) - count({"EXECUTED"}) - count({"REJECTED"})
    BY <1>5, <1>6, <1>7, <1>8
<1>. QED BY <1>3, <1>4, <1>5, <1>6, <1>9 DEF s

(* The console's counters are what the audit trail says of the intents it    *)
(* was given, and they agree with the list page's buckets.                   *)
THEOREM CountersAreTrue == Spec => []ConsoleIsTrue
<1>1. IInv /\ AuditInv /\ ConsoleInv => ConsoleIsTrue
    BY ConsoleCounts
<1>. QED BY <1>1, InitIInv, StepIInv, AuditInit, AuditStep, ConsoleStep, PTL DEF Spec
=============================================================================
