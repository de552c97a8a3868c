----------------------------- MODULE MCPowerLog ------------------------------
(* A ring of three samples, in a plot with a column more, and two windows. *)
EXTENDS PowerLog, TLC
MCWindows == <<2, 3>>

\* What a sample is plays no part, only whether two are the same.
Alike == Permutations(Samples)
=============================================================================
