--------------------------- MODULE MCComputerLease ---------------------------
(***************************************************************************)
(* ComputerLease for TLC: a consumer and a lifecycle worker, two           *)
(* generations, and time for the first to cool, to retire or to be lost,   *)
(* and for the second to open.                                             *)
(***************************************************************************)
EXTENDS ComputerLease
=============================================================================
