------------------------------ MODULE MCEngine ------------------------------
(***************************************************************************)
(* Values of the constants of Engine for TLC: one source file, played      *)
(* twice in a playlist, the first time with its auxiliary inputs or bare.  *)
(***************************************************************************)
EXTENDS Engine, TLC

CONSTANT a

ItemA == [path |-> a, aux |-> TRUE]

\* The same file twice: the queue still advances.
SameFile == {<<Bare(a), Bare(a)>>}
\* One file with and without its auxiliary inputs.
OneFile == {<<ItemA, Bare(a)>>}
ReconnectOn == [outputs |-> TRUE, reconnect |-> TRUE]
OneConfig == {ReconnectOn}
AllConfigs == {NoConfig, ReconnectOn}

Symmetry == Permutations(Callers) \cup Permutations(Timers) \cup Permutations(Procs)
=============================================================================
