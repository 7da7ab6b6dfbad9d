---------------------------- MODULE MCTier1Demo ----------------------------
(* Small environments for the Tier-1 script, for TLC. *)
EXTENDS Tier1Demo, TLC

PlanOf(p, x, m, d, u, f) ==
    [pay |-> p, reject |-> x, max |-> m, daily |-> d, until |-> u, faults |-> f]

(* Two environments to fail in: one that stays valid and one that expires.   *)
FaultyPlans == {PlanOf(1, 2, 1, 2, 2, TRUE), PlanOf(1, 2, 1, 1, 1, TRUE)}

(* Every environment, sound or not, over small amounts, where nothing fails. *)
HealthyPlans == {PlanOf(p, x, m, d, u, FALSE) :
    p \in 0 .. 2, x \in 0 .. 3, m \in 0 .. 2, d \in 0 .. 3, u \in 1 .. 2}

MCPlans == FaultyPlans \cup HealthyPlans
=============================================================================
