------------------------------- MODULE LeaseTurns -------------------------------
(***************************************************************************)
(* What a computer lease promises of its turns: it serves at most one at a *)
(* time, only the turn it serves is decided, and it lets go of that turn   *)
(* when the turn was answered or in the very step that stops it.  This is  *)
(* the abstract specification of ActiveTurn, whose executions read one     *)
(* stream and write another, crash and lag behind.                         *)
(***************************************************************************)
CONSTANT Turns

VARIABLES
    serving,   \* the turn being served, as a set of at most one
    outcome    \* what became of each turn

Init ==
    /\ serving = {}
    /\ outcome = [k \in Turns |-> "open"]

(* _Activate: a turn becomes the active one when there is none.             *)
Serve(k) ==
    /\ serving = {} /\ serving' = {k}
    /\ UNCHANGED outcome

Decide(k, from, to) ==
    /\ k \in serving /\ outcome[k] \in from
    /\ outcome' = [outcome EXCEPT ![k] = to]

Answer(k) == Decide(k, {"open"}, "answered") /\ UNCHANGED serving

GiveUp(k) == Decide(k, {"open"}, "unavailable") /\ UNCHANGED serving

Stop(k) == Decide(k, {"open", "unavailable"}, "cancelled") /\ serving' = {}

(* settle: the answered turn is no longer the active one.                   *)
Release(k) ==
    /\ k \in serving /\ outcome[k] = "answered" /\ serving' = {}
    /\ UNCHANGED outcome

Next == \E k \in Turns : Serve(k) \/ Answer(k) \/ GiveUp(k) \/ Stop(k) \/ Release(k)

Spec == Init /\ [][Next]_<<serving, outcome>>
=============================================================================
