---------------------------- MODULE DailyBudget ----------------------------
(***************************************************************************)
(* What the spending vault promises, free of how it keeps its books: each   *)
(* new day starts from zero, a payment fits in what is left of the day's    *)
(* limit, and no payload is paid twice.                                     *)
(***************************************************************************)
EXTENDS Integers

CONSTANTS Days, Amounts, Payloads

VARIABLES
    today,   \* the current day
    spent,   \* amount paid today
    limit,   \* most that may be paid in a day
    paid     \* payloads already paid

budget == <<today, spent, limit, paid>>

Init ==
    /\ today \in Days
    /\ spent = 0
    /\ limit \in Amounts
    /\ paid = {}

NewDay ==
    /\ \E d \in Days : d > today /\ today' = d
    /\ spent' = 0
    /\ UNCHANGED <<limit, paid>>

SetLimit ==
    /\ limit' \in Amounts
    /\ UNCHANGED <<today, spent, paid>>

Pay(payload, amount) ==
    /\ payload \notin paid
    /\ spent + amount <= limit
    /\ spent' = spent + amount
    /\ paid' = paid \cup {payload}
    /\ UNCHANGED <<today, limit>>

Next ==
    \/ NewDay
    \/ SetLimit
    \/ \E payload \in Payloads, amount \in Amounts : Pay(payload, amount)

Spec == Init /\ [][Next]_budget
=============================================================================
