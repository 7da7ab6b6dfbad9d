---------------------------- MODULE MCVaultPages ----------------------------
(* Two keys over one database of three intents, two policies of each key, and *)
(* pages opened one after the other.                                         *)
EXTENDS VaultPages, TLC

CONSTANTS i1, i2, i3, s1, s2, r1, r2

MCIntents == {i1, i2, i3}
MCSigners == {s1, s2}
MCTerms == {r1, r2}
MCAmounts == {2, 3}
MCIds == {<<"vault", s, r>> : s \in MCSigners, r \in MCTerms}
MCDigest ==
    [p \in [signer : MCSigners, terms : MCTerms] |-> <<"vault", p.signer, p.terms>>]
Symmetry ==
    Permutations(MCIntents) \cup Permutations(MCSigners) \cup Permutations(MCTerms)
=============================================================================
