-------------------------- MODULE MCFailoverMonitor --------------------------
(***************************************************************************)
(* Values of the constants of FailoverMonitor for TLC: one pair of outputs *)
(* under both policies and two thresholds, enabled or not.                 *)
(***************************************************************************)
EXTENDS FailoverMonitor, TLC

CONSTANTS primary, backup

Pair(policy, threshold, enabled) ==
  [primary |-> primary, backup |-> backup, policy |-> policy,
   threshold |-> threshold, enabled |-> enabled]

\* What Update may turn the pair into.
Swapped == [Pair("automatic", 1, FALSE) EXCEPT !.primary = backup, !.backup = primary]

AllSpecs == {Pair("automatic", 2, TRUE), Pair("manual", 1, TRUE), Swapped}
=============================================================================
