-------------------------- MODULE MCIntentConsole --------------------------
(* Two tabs and two transactions, for TLC. *)
EXTENDS IntentConsole, TLC

CONSTANTS t1, t2, h1, h2

MCTabs == {t1, t2}
MCHashes == {h1, h2}
=============================================================================
