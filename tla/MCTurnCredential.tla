--------------------------- MODULE MCTurnCredential ---------------------------
(***************************************************************************)
(* TurnCredential for TLC.                                                 *)
(***************************************************************************)
EXTENDS TurnCredential
=============================================================================
