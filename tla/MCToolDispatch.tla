---------------------------- MODULE MCToolDispatch ----------------------------
(***************************************************************************)
(* ToolDispatch for TLC: two executions of one task, a claim of two ticks  *)
(* of which the last keeps the outcome, and a turn of four: enough for a   *)
(* second claim and its call after the first has lapsed.                   *)
(***************************************************************************)
EXTENDS ToolDispatch
=============================================================================
