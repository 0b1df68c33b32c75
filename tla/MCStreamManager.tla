---------------------------- MODULE MCStreamManager ----------------------------
(***************************************************************************)
(* StreamManager for TLC: tasks, definitions, effect chains, engines and   *)
(* callers are each interchangeable.                                       *)
(***************************************************************************)
EXTENDS StreamManager, TLC

Symmetry ==
  UNION {Permutations(S) : S \in {Ids, Defs, Effects, Engines, Callers}}
=============================================================================
