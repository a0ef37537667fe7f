-------------------------- MODULE MCConversationTurn --------------------------
(***************************************************************************)
(* A small conversation turn for TLC.  Executions are interchangeable; the *)
(* safety runs use that symmetry, the liveness runs cannot.                *)
(***************************************************************************)
EXTENDS ConversationTurn, TLC

Executions == Permutations(Workers)
=============================================================================
