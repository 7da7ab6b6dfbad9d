--------------------------- MODULE MCPolicyVault ---------------------------
(* A vault with one agent and one receiver, for TLC. *)
EXTENDS PolicyVault, TLC

CONSTANTS own, agt, rcv, vlt, h1, h2, h3

MCAddresses == {own, agt, rcv, vlt}
MCAgents == {agt}
MCReceivers == {rcv, vlt}
MCHashes == {h1, h2, h3}
MCInitBalance == [a \in MCAddresses |-> IF a = own THEN MaxU256 ELSE 0]
Symmetry == Permutations(MCHashes)
=============================================================================
