--------------------------- MODULE MCX402Gateway ---------------------------
(* Three authorizations, two of them under the same nonce triple. *)
EXTENDS X402Gateway, TLC

CONSTANTS a1, a2, a3, n1, n2, c1, c2

MCAuths == {a1, a2, a3}
MCNonces == {n1, n2}
MCNonceOf == a1 :> n1 @@ a2 :> n1 @@ a3 :> n2
MCSlots == {c1, c2}
MCOneSlot == {c1}
Symmetry == Permutations(MCSlots)
=============================================================================
