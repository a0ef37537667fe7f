------------------------------- MODULE ToolCall -------------------------------
(***************************************************************************)
(* What the model and the owner are promised of one tool call: it is made  *)
(* at most once and only while it is allowed, the result told is what      *)
(* happened, permission and result are final, and the turn goes on only    *)
(* with a result it was told.  This is the abstract specification of       *)
(* ToolDispatch, whose executions, attempts, claims and transactions fail  *)
(* and repeat themselves.                                                  *)
(***************************************************************************)
VARIABLES
    allowed,   \* whether the call may be made: at once, or once approved
    made,      \* whether the provider may have received it
    told,      \* the result that was delivered
    turn       \* what the turn's history says of the call

Undecided == ~made /\ told = "nothing"

Init ==
    /\ allowed \in BOOLEAN /\ made = FALSE
    /\ told = "nothing" /\ turn = "open"

Approve ==
    /\ Undecided /\ ~allowed /\ allowed' = TRUE
    /\ UNCHANGED <<made, told, turn>>

Make ==
    /\ Undecided /\ allowed /\ made' = TRUE
    /\ UNCHANGED <<allowed, told, turn>>

(* A success only of a call that was made, a failure only of one that was   *)
(* not; of a call whose outcome is unknown nothing is ever told.            *)
Tell ==
    /\ told = "nothing" /\ told' = IF made THEN "succeeded" ELSE "failed"
    /\ UNCHANGED <<allowed, made, turn>>

Use ==
    /\ turn = "open" /\ told # "nothing" /\ turn' = "resulted"
    /\ UNCHANGED <<allowed, made, told>>

(* The turn is given up or stopped, with or without a result.               *)
Leave ==
    /\ turn # "cancelled" /\ turn' \in {"unavailable", "cancelled"}
    /\ UNCHANGED <<allowed, made, told>>

Next == Approve \/ Make \/ Tell \/ Use \/ Leave

Spec == Init /\ [][Next]_<<allowed, made, told, turn>>
=============================================================================
