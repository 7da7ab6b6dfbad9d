-------------------------- MODULE MCDeployObserver --------------------------
(* Two concurrent waits over two hashes, three attempts each, for TLC. *)
EXTENDS DeployObserver, TLC

CONSTANTS h1, h2, w1, w2

MCHashes == {h1, h2}
MCWaits == {w1, w2}
=============================================================================
