----------------------------- MODULE VaultPages -----------------------------
(***************************************************************************)
(* The spend ledger under the API that writes it, and the vault pages that  *)
(* show it.  The API (apps/api/src/vaults) projects the one policy in force *)
(* and the ledger's rows of its key into a vault; the list page and the     *)
(* detail page (VaultsListView, VaultDetailView) each read it once when     *)
(* they mount and show that answer until they are left, while intents go on *)
(* reserving, settling and expiring and the process may be restarted with   *)
(* another policy over the same database.                                   *)
(***************************************************************************)
EXTENDS SpendLedger

CONSTANTS
    Terms,         \* what a policy says beside its key and its caps: the receivers
    Ids,           \* what a vault's address may hold
    Digest,        \* policy -> its digest
    RecentLimit,   \* how many debits a vault lists
    MaxSingle      \* maxSinglePaymentAtomic of the policy

(* The ledger files rows under a policy's key, whatever else the policy says. *)
Policies == [signer : Signers, terms : Terms]

(* A digest is of the whole policy, and no two policies share one. *)
ASSUME PagesAssumption ==
    /\ RecentLimit \in Nat \ {0}
    /\ MaxSingle \in Nat
    /\ Digest \in [Policies -> Ids]
    /\ \A p, q \in Policies : Digest[p] = Digest[q] => p = q

VARIABLES
    policy,        \* the policy in force
    page,          \* the page on screen, with the answer to its request
    seen           \* history: the debits a page has shown as committed

pageVars == <<policy, page, seen>>
allVars == <<rows, now, policy, page, seen>>

VaultId(p) == Digest[p]

NoAnswer == [kind |-> "none"]
NotFound == [kind |-> "not_found"]
Lost == [kind |-> "lost"]
Found(vault) == [kind |-> "vault", vault |-> vault]

NoPage == [status |-> "closed"]
Pages == {"list", "detail"}

-----------------------------------------------------------------------------
(* The projection of the policy and its rows. *)

(* Mutated form: the debits are the newest rows whatever became of them. *)
NewestWithReleased(signer) ==
    LET all == {i \in Intents : rows[i] # NoRow /\ rows[i].signer = signer}
    IN  {S \in SUBSET all :
            /\ Cardinality(S) = Min({RecentLimit, Cardinality(all)})
            /\ \A i \in S, j \in all \ S : rows[j].createdAt <= rows[i].createdAt}

(* The newest live rows of a key, at most RecentLimit of them and of any day. *)
Newest(signer) ==
    LET live == {i \in Intents : Live(i) /\ rows[i].signer = signer}
    IN  {S \in SUBSET live :
            /\ Cardinality(S) = Min({RecentLimit, Cardinality(live)})
            /\ \A i \in S, j \in live \ S : rows[j].createdAt <= rows[i].createdAt}

AsDebits(S) ==
    [i \in S |-> [amount |-> rows[i].amount, status |-> rows[i].status,
                  at |-> rows[i].createdAt]]

ProjectVault(p, debits) ==
    [id |-> VaultId(p), signer |-> p.signer, terms |-> p.terms,
     used |-> UsedOnDay(p.signer, DayOf(now)), day |-> DayOf(now), debits |-> debits]

(* GET /vaults: the summary of the one vault, with no debits. *)
ListAnswer == {Found(ProjectVault(policy, AsDebits({})))}

(* GET /vaults/:id: the vault in detail, or 404 for any id but its own. *)
DetailAnswer(id) ==
    IF id = VaultId(policy)
    THEN {Found(ProjectVault(policy, AsDebits(S))) : S \in Newest(policy.signer)}
    ELSE {NotFound}

-----------------------------------------------------------------------------
(* The API's writes: every reservation is made under the key of the policy  *)
(* in force; settlements reach any row, whatever their caller last read.    *)
ApiReserves ==
    \E i \in Intents, amount \in Amounts :
        /\ amount <= MaxSingle
        /\ Reserve(i, policy.signer, DayOf(now), amount)
        /\ UNCHANGED <<now, pageVars>>

ApiSettles ==
    \E i \in Intents :
        /\ rows[i] # NoRow
        /\ Commit(i) \/ Release(i)
        /\ UNCHANGED <<now, pageVars>>

(* An operator's sweep of reservations that were never settled. *)
Sweep ==
    \E ttl \in Time : ReleaseExpired(ttl) /\ UNCHANGED <<now, pageVars>>

TimePasses == Tick /\ UNCHANGED pageVars

(* A restart keeps the database and may come up with another policy. *)
Restart ==
    /\ policy' \in Policies
    /\ UNCHANGED <<rows, now, page, seen>>

(* Serving the page's request. *)
AnswersTo(p) == IF p.view = "list" THEN ListAnswer ELSE DetailAnswer(p.id)

Serve ==
    /\ page.status = "loading" /\ page.answer = NoAnswer
    /\ \E answer \in AnswersTo(page) : page' = [page EXCEPT !.answer = answer]
    /\ UNCHANGED <<rows, now, policy, seen>>

(* The request or its answer is lost. *)
Lose ==
    /\ page.status = "loading"
    /\ page' = [page EXCEPT !.answer = Lost]
    /\ UNCHANGED <<rows, now, policy, seen>>

-----------------------------------------------------------------------------
(* The pages.  A page asks once, when it is opened: the list, or the page of *)
(* an address (a card that was clicked, or a link kept from an earlier       *)
(* visit).  Its effect's clean-up drops the answer to a page that was left,  *)
(* and reading changes nothing at the API, so a page takes its request along *)
(* when it goes.                                                             *)
Open(view, id) ==
    /\ page' = [status |-> "loading", view |-> view, id |-> id, answer |-> NoAnswer]
    /\ UNCHANGED <<rows, now, policy, seen>>

Leave ==
    /\ page' = NoPage
    /\ UNCHANGED <<rows, now, policy, seen>>

(* What the page makes of its answer.  A 404 is told from other failures on *)
(* the detail page only.                                                    *)
StatusOf(p) ==
    CASE p.answer.kind = "vault" -> "shown"
      [] p.answer = NotFound /\ p.view = "detail" -> "notFound"
      [] OTHER -> "error"

(* The debits an answer lists as committed. *)
CommittedOf(answer) ==
    IF answer.kind = "vault"
    THEN {i \in DOMAIN answer.vault.debits : answer.vault.debits[i].status = "committed"}
    ELSE {}

Deliver ==
    /\ page.status = "loading" /\ page.answer # NoAnswer
    /\ page' = [page EXCEPT !.status = StatusOf(page)]
    /\ seen' = seen \cup CommittedOf(page.answer)
    /\ UNCHANGED <<rows, now, policy>>

PagesInit ==
    /\ Init
    /\ policy \in Policies
    /\ page = NoPage
    /\ seen = {}

PagesNext ==
    \/ ApiReserves \/ ApiSettles \/ Sweep \/ TimePasses \/ Restart
    \/ Serve \/ Lose \/ Leave \/ Deliver
    \/ \E view \in Pages, id \in Ids : Open(view, id)

PagesSpec == PagesInit /\ [][PagesNext]_allVars
-----------------------------------------------------------------------------
(* What the pages draw of a vault (lib/vault.ts, in tenths of a percent).    *)
Ratio(amount, whole) ==
    IF whole = 0 THEN 0 ELSE Min({1000, (amount * 1000) \div whole})

MeterClass(tenths) ==
    CASE tenths >= 900 -> "crit"
      [] tenths >= 800 /\ tenths < 900 -> "warn"
      [] OTHER -> "ok"

(* The card of the list: its meter and, from 80% on, its warning. *)
Card(vault) ==
    LET used == Ratio(vault.used, DayCap)
    IN  [id |-> vault.id, used |-> used, level |-> MeterClass(used),
         nearCap |-> used >= 800]

(* The meter of the detail page: one segment for each debit. *)
SpendMeter(vault) ==
    [used |-> Ratio(vault.used, DayCap),
     marker |-> Ratio(MaxSingle, DayCap),
     segments |-> [i \in DOMAIN vault.debits |-> Ratio(vault.debits[i].amount, DayCap)]]

(* What is on screen: the list page keeps its empty list under the alert, the *)
(* detail page has one panel or all three.                                   *)
ListScreen(p) ==
    CASE p.status = "loading" -> {"skeleton"}
      [] p.status = "shown" -> {"card"}
      [] OTHER -> {"alert", "empty"}

DetailScreen(p) ==
    CASE p.status = "notFound" -> {"missing"}
      [] p.status = "error" -> {"alert"}
      [] p.status = "loading" -> {"skeleton"}
      [] OTHER -> {"policy", "meter", "debits"}

Screen(p) ==
    IF p = NoPage THEN {}
    ELSE IF p.view = "list" THEN ListScreen(p) ELSE DetailScreen(p)

-----------------------------------------------------------------------------
AnswerOK(answer) ==
    \/ answer.kind \in {"none", "not_found", "lost"}
    \/ /\ answer.kind = "vault"
       /\ answer.vault.id \in Ids /\ answer.vault.signer \in Signers
       /\ answer.vault.day \in Days
       /\ DOMAIN answer.vault.debits \subseteq Intents

(* The ledger's rows and the page on screen are well formed. *)
PagesTypeOK ==
    /\ TypeOK
    /\ policy \in Policies
    /\ seen \subseteq Intents
    /\ page.status \in {"closed", "loading", "shown", "notFound", "error"}
    /\ page # NoPage =>
            /\ page.view \in Pages
            /\ page.id \in Ids
            /\ AnswerOK(page.answer)
            /\ page.status = "shown" <=> page.status # "loading" /\ page.answer.kind = "vault"

(* What a vault's page once showed as committed stays spent: every vault of  *)
(* the same key that is shown later for that day counts it, over late        *)
(* settlements, sweeps, releases and restarts with policies of other         *)
(* receivers, which go by other ids and file their rows with it.             *)
SeenUnder(vault) ==
    {i \in seen : rows[i].signer = vault.signer /\ rows[i].day = vault.day}

ShownCommitsStay ==
    page.status = "shown" =>
        LET vault == page.answer.vault
        IN  SumFunction([i \in SeenUnder(vault) |-> rows[i].amount]) <= vault.used

(* The vault on screen adds up: the debits of its day come to no more than   *)
(* what it says was used, and to exactly that when no debit of the day can  *)
(* have been cut off the list; their segments fit the filled part of the    *)
(* meter.  A card warns from the very unit that reaches its threshold.      *)
OfItsDay(vault) == {i \in DOMAIN vault.debits : DayOf(vault.debits[i].at) = vault.day}

AddsUp(vault) ==
    LET spent == SumFunction([i \in OfItsDay(vault) |-> vault.debits[i].amount])
        widths == SumFunction([i \in OfItsDay(vault) |-> SpendMeter(vault).segments[i]])
        complete == \/ Cardinality(DOMAIN vault.debits) < RecentLimit
                    \/ OfItsDay(vault) # DOMAIN vault.debits
    IN  /\ spent <= vault.used
        /\ complete => spent = vault.used
        /\ widths <= SpendMeter(vault).used

(* A card warns exactly when nine tenths or eight tenths of the cap are used. *)
CardWarns(vault) == DayCap > 0 =>
    /\ Card(vault).level = "crit" <=> vault.used * 10 >= 9 * DayCap
    /\ Card(vault).nearCap <=> vault.used * 10 >= 8 * DayCap

MeterMatchesDebits ==
    /\ "meter" \in Screen(page) => AddsUp(page.answer.vault)
    /\ "card" \in Screen(page) => CardWarns(page.answer.vault)
=============================================================================
