---------------------------- MODULE SpendLedger ----------------------------
(***************************************************************************)
(* The off-chain spend ledger (packages/signer-guard/src/spend-ledger.ts):  *)
(* one SQLite table that holds a day's budget for an intent before anything *)
(* is signed.  A row is reserved, then committed or released, for good.     *)
(*                                                                          *)
(* UNIQUE(intent_id) makes the table a partial function of the intent, and  *)
(* a reservation id names the row of its intent.  Every method runs as one  *)
(* synchronous statement or transaction, so each is a single step; the      *)
(* awaits around them belong to the callers (IntentApi, SignerGuard).       *)
(***************************************************************************)
EXTENDS Integers, FiniteSets, FiniteSetsExt

CONSTANTS
    Intents,   \* intent ids
    Signers,   \* (role, public key, token) keys that share a daily cap
    Amounts,   \* reservation amounts
    DayCap,    \* perDayCapAtomic of the policy in force
    MaxTime,   \* bound on the clock
    DayLen     \* length of a UTC day

ASSUME LedgerAssumption ==
    /\ IsFiniteSet(Intents)
    /\ Amounts \subseteq Nat
    /\ DayCap \in Nat
    /\ MaxTime \in Nat
    /\ DayLen \in Nat \ {0}

VARIABLES
    rows,      \* intent -> its row, or NoRow
    now        \* the clock

ledgerVars == <<rows, now>>

NoRow == [status |-> "none"]
Time == 0 .. MaxTime
DayOf(t) == t \div DayLen
Days == 0 .. DayOf(MaxTime)
Row == [status : {"reserved", "committed", "released"}, signer : Signers,
        day : Days, amount : Amounts, createdAt : Time]

-----------------------------------------------------------------------------
HasStatus(i, S) == rows[i].status \in S

Live(i) == HasStatus(i, {"reserved", "committed"})

(* Mutated form: an update that does not name the status it expects. *)
AnyRow(i) == rows[i] # NoRow

IsReserved(i) == HasStatus(i, {"reserved"})

(* The rows whose amounts count against a signer's cap on a day. *)
Counted(signer, day) ==
    {i \in Intents : Live(i) /\ rows[i].signer = signer /\ rows[i].day = day}

UsedOnDay(signer, day) == SumFunction([i \in Counted(signer, day) |-> rows[i].amount])

(* Mutated form: the insert replaces the intent's row. *)
ReplacingResult(i, signer, day, amount) ==
    IF UsedOnDay(signer, day) + amount > DayCap THEN "day_cap_exceeded" ELSE "ok"

(* reserve(): the cap is checked first, the uniqueness of the intent only by *)
(* the insert.                                                               *)
ReserveResult(i, signer, day, amount) ==
    IF UsedOnDay(signer, day) + amount > DayCap THEN "day_cap_exceeded"
    ELSE IF rows[i] # NoRow THEN "reservation_conflict"
    ELSE "ok"

InsertReserved(i, signer, day, amount) ==
    rows' = [rows EXCEPT ![i] =
        [status |-> "reserved", signer |-> signer, day |-> day,
         amount |-> amount, createdAt |-> now]]

Reserve(i, signer, day, amount) ==
    IF ReserveResult(i, signer, day, amount) = "ok"
    THEN InsertReserved(i, signer, day, amount)
    ELSE UNCHANGED rows

(* Both updates name the status they expect, so they are no-ops on a row that *)
(* has already been settled.                                                  *)
Settle(i, status) ==
    rows' = IF IsReserved(i) THEN [rows EXCEPT ![i].status = status] ELSE rows

Commit(i) == Settle(i, "committed")
Release(i) == Settle(i, "released")

(* Mutated form: the sweep takes whatever is old enough. *)
AnyExpired(i, ttl) == rows[i] # NoRow /\ rows[i].createdAt <= now - ttl

Expired(i, ttl) == IsReserved(i) /\ rows[i].createdAt <= now - ttl

ReleaseExpired(ttl) ==
    rows' = [i \in Intents |->
        IF Expired(i, ttl) THEN [rows[i] EXCEPT !.status = "released"] ELSE rows[i]]

-----------------------------------------------------------------------------
(* The ledger under callers that use it in any order. *)
Init ==
    /\ rows = [i \in Intents |-> NoRow]
    /\ now \in Time

Tick ==
    /\ \E t \in Time : t > now /\ now' = t
    /\ UNCHANGED rows

Next ==
    \/ \E i \in Intents, signer \in Signers, amount \in Amounts :
            Reserve(i, signer, DayOf(now), amount) /\ UNCHANGED now
    \/ \E i \in Intents : rows[i] # NoRow /\ Commit(i) /\ UNCHANGED now
    \/ \E i \in Intents : rows[i] # NoRow /\ Release(i) /\ UNCHANGED now
    \/ \E ttl \in Time : ReleaseExpired(ttl) /\ UNCHANGED now
    \/ Tick

Spec == Init /\ [][Next]_ledgerVars

-----------------------------------------------------------------------------
(* Every intent has no row or a well-formed one. *)
TypeOK ==
    /\ rows \in [Intents -> Row \cup {NoRow}]
    /\ now \in Time

(* What is reserved and committed on a day never exceeds the cap, however    *)
(* reservations, commits, releases, late settlements and sweeps interleave.  *)
CapHolds == \A signer \in Signers, day \in Days : UsedOnDay(signer, day) <= DayCap

(* A settled row never changes again, in particular not by a commit that     *)
(* comes after the release or by a second reservation of the same intent.    *)
SettledIsFinal ==
    [][\A i \in Intents : HasStatus(i, {"committed", "released"}) => UNCHANGED rows[i]]_ledgerVars
=============================================================================
