--------------------------- MODULE MCIntentPages ---------------------------
(* Two intents, made by the user or by others, two creations by the user,  *)
(* and a midnight.                                                           *)
EXTENDS IntentPages, TLC

CONSTANTS a, b

MCIds == {a, b}
Symmetry == Permutations(MCIds)
=============================================================================
