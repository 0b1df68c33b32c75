--------------------------- MODULE MCOutputProvider ---------------------------
(***************************************************************************)
(* OutputProvider for TLC: one client makes every call, any other only     *)
(* adds beside it.                                                         *)
(***************************************************************************)
EXTENDS OutputProvider

CONSTANTS Adders

\* The calls of Adders are those of OutputAdd.
OnlyAdd == \A c \in Adders : client'[c].kind = "add"

MCSpec == Init /\ [][Next /\ OnlyAdd]_vars /\ Fairness
=============================================================================
