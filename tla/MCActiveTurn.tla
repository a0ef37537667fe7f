----------------------------- MODULE MCActiveTurn -----------------------------
(***************************************************************************)
(* ActiveTurn for TLC: executions are interchangeable.                     *)
(***************************************************************************)
EXTENDS ActiveTurn, TLC

Executions == Permutations(Workers)
=============================================================================
