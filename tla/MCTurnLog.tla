------------------------------- MODULE MCTurnLog -------------------------------
(***************************************************************************)
(* A small turn for TLC.  The identities are interchangeable, so runs use  *)
(* their symmetry; instants are few but reach past the run's deadline.     *)
(***************************************************************************)
EXTENDS TurnLog, TLC

Identities ==
    Permutations(Fences) \union Permutations(Nonces) \union Permutations(Proposals)
=============================================================================
