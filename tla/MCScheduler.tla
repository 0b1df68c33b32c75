----------------------------- MODULE MCScheduler -----------------------------
(***************************************************************************)
(* Values of the constants of Scheduler for TLC: one task of each priority *)
(* and an interrupt task.                                                  *)
(***************************************************************************)
EXTENDS Scheduler, TLC

CONSTANTS normal, important, critical, urgent

MCPrio == [t \in Tasks |-> CASE t = important -> 2 [] t = critical -> 3 [] OTHER -> 1]
TimedMode == [t \in Tasks |-> IF t = urgent THEN "timed" ELSE "play"]

Symmetry == Permutations(Keys) \cup Permutations(Runs)
=============================================================================
