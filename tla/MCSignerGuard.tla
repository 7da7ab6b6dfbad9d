--------------------------- MODULE MCSignerGuard ---------------------------
(* Three intents, two policies and two signatures in flight, for TLC. *)
EXTENDS SignerGuard, TLC

CONSTANTS i1, i2, i3, c1, c2

MCIntents == {i1, i2, i3}
MCSlots == {c1, c2}
MCAmounts == {1, 2}
MCCaps == {1, 2}
Symmetry == Permutations(MCIntents) \cup Permutations(MCSlots)
=============================================================================
