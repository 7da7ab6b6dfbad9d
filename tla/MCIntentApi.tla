---------------------------- MODULE MCIntentApi ----------------------------
(* Two intents and two requests in flight, for TLC. *)
EXTENDS IntentApi, TLC

CONSTANTS i1, i2, r1, r2, d1

MCIntents == {i1, i2}
MCSlots == {r1, r2}
MCDeploys == {d1}
MCAmounts == {1, 2}
Symmetry == Permutations(MCIntents) \cup Permutations(MCSlots)
=============================================================================
