---------------------------- MODULE FinalityWait ----------------------------
(***************************************************************************)
(* What a caller may rely on when it waits for a deploy: the chain decides  *)
(* each deploy once, a wait that reports reports that decision, any wait    *)
(* may give up instead, and every wait ends.                                *)
(***************************************************************************)
CONSTANTS Hashes, Waits

VARIABLES
    verdict,   \* deploy hash -> "pending", "success" or "reverted"
    waitFor,   \* wait -> the hash it is for
    outcome    \* wait -> "none", "waiting", "success", "reverted" or "gaveUp"

finality == <<verdict, waitFor, outcome>>

Init ==
    /\ verdict = [h \in Hashes |-> "pending"]
    /\ waitFor \in [Waits -> Hashes]
    /\ outcome = [w \in Waits |-> "none"]

Decide(h) ==
    /\ verdict[h] = "pending"
    /\ \E v \in {"success", "reverted"} : verdict' = [verdict EXCEPT ![h] = v]
    /\ UNCHANGED <<waitFor, outcome>>

Begin(w, h) ==
    /\ outcome[w] # "waiting"
    /\ waitFor' = [waitFor EXCEPT ![w] = h]
    /\ outcome' = [outcome EXCEPT ![w] = "waiting"]
    /\ UNCHANGED verdict

Learn(w) ==
    /\ outcome[w] = "waiting"
    /\ verdict[waitFor[w]] # "pending"
    /\ outcome' = [outcome EXCEPT ![w] = verdict[waitFor[w]]]
    /\ UNCHANGED <<verdict, waitFor>>

GiveUp(w) ==
    /\ outcome[w] = "waiting"
    /\ outcome' = [outcome EXCEPT ![w] = "gaveUp"]
    /\ UNCHANGED <<verdict, waitFor>>

Ends(w) == Learn(w) \/ GiveUp(w)

Next ==
    \/ \E h \in Hashes : Decide(h)
    \/ \E w \in Waits : Ends(w) \/ \E h \in Hashes : Begin(w, h)

Spec == Init /\ [][Next]_finality /\ \A w \in Waits : WF_finality(Ends(w))
=============================================================================
