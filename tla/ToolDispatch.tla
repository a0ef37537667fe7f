----------------------------- MODULE ToolDispatch -----------------------------
(***************************************************************************)
(* One remote tool call of a turn, from the proposal the model made to the *)
(* result the turn may use: the executions of the turn's workflow task, the *)
(* PostgreSQL rows of the run, the tool invocation, its approval and its   *)
(* executor command, the owner who answers the approval, and Stop.         *)
(*                                                                         *)
(* A transaction is one step; so is the call of the provider.  A fault is  *)
(* an execution that crashes or outlives its engine claim, a transaction   *)
(* that fails, a commit whose acknowledgement is lost, and authority that  *)
(* is withdrawn.  Of the workflow engine the module keeps what the turn    *)
(* depends on: a suspended handler runs again from its start in the same   *)
(* attempt, a failed one in the next, and a stale execution is refused     *)
(* before a checkpoint but not between checkpoints.                        *)
(*                                                                         *)
(* Abstracted: arguments, results and failure codes; the elicitation       *)
(* request, which every transaction writes together with its approval; the *)
(* model requests before and after the call.                               *)
(***************************************************************************)
EXTENDS Integers

CONSTANTS
    None,           \* no execution owns the task
    Workers,        \* executions of the turn's task, one per process
    Deadline,       \* when the turn's time or its credential ends
    ClaimWindow,    \* how long a dispatch claim lasts
    Allowance,      \* its last part, kept to save the outcome
    MaxAttempts,    \* attempts of the task
    MaxFaults       \* faults in one behaviour

ASSUME ToolAssumption ==
    /\ Deadline \in Nat \ {0} /\ ClaimWindow \in Nat \ {0}
    /\ Allowance \in 0..ClaimWindow
    /\ MaxAttempts \in Nat \ {0} /\ MaxFaults \in Nat
    /\ None \notin Workers

VARIABLES
    gated,      \* whether the tool needs the owner's approval
    db,         \* the rows of PostgreSQL
    turn,       \* what the turn's history says of the call
    access,     \* current permissions: full, none for the tool, or its connection lost
    effects,    \* calls the provider may have received
    task,       \* the engine's row of the turn's task
    exec,       \* per worker: the step it is at, its attempt and its claim
    stop,       \* progress of the Stop command
    clock,
    faults      \* faults so far

vars == <<gated, db, turn, access, effects, task, exec, stop, clock, faults>>
outside == <<gated, access, effects, stop, clock>>

Idle == [pc |-> "idle", attempt |-> 0, fence |-> 0, until |-> 0]
Unclaimed(state) == [state |-> state, fence |-> 0, until |-> 0]

Init ==
    /\ gated \in BOOLEAN
    /\ db = [run |-> "running", invocation |-> Unclaimed("none"), approval |-> "none",
             command |-> Unclaimed("none"), deliveries |-> 0]
    /\ turn = "open" /\ access = "full" /\ effects = 0
    /\ task = [state |-> "ready", attempt |-> 1, owner |-> None]
    /\ exec = [w \in Workers |-> Idle]
    /\ stop = "idle" /\ clock = 0 /\ faults = 0

-----------------------------------------------------------------------------
(* What the transactions read.                                              *)
Owns(w) == task.state = "running" /\ task.owner = w
At(w, pc) == exec[w].pc = pc

Terminal == {"succeeded", "failed", "recovery_required"}
Over == clock >= Deadline

(* The invocation and the command are both under the claim with this fence. *)
InvocationClaimed(fence) == db.invocation.state = "claimed" /\ db.invocation.fence = fence
CommandClaimed(fence) == db.command.state = "claimed" /\ db.command.fence = fence

Decided == db.approval \in {"approved", "denied", "expired"}

(* What they write.                                                         *)
Close(row, state) == [row EXCEPT !.state = state, !.until = 0]

(* A call that never reached the provider: the failure is a result.         *)
Fails(d) == [d EXCEPT !.invocation = Close(@, "failed"), !.deliveries = @ + 1]

(* A call that may have: nothing is delivered and the run needs recovery.   *)
Uncertain(d) ==
    [d EXCEPT !.command = Close(@, "recovery_required"),
              !.invocation = Close(@, "recovery_required"),
              !.run = IF db.invocation.state = "claimed" THEN "recovery_required" ELSE @]

(* Fail the call that waited, and let the run go on.                        *)
Rejected(d, outcome) == [Fails(d) EXCEPT !.approval = outcome, !.run = "running"]

Goes(w, pc) == exec' = [exec EXCEPT ![w].pc = pc]

(* One Serializable transaction writing new: it commits and the caller goes *)
(* on, or the caller sees an error, whether or not it committed.            *)
Transact(new, w, next, caught) ==
    \/ db' = new /\ Goes(w, next) /\ UNCHANGED faults
    \/ /\ faults < MaxFaults /\ faults' = faults + 1
       /\ db' \in {db, new} /\ Goes(w, caught)

(* A step of the handler that writes nothing.                               *)
Continues(w, pc) == Goes(w, pc) /\ UNCHANGED <<db, faults>>

-----------------------------------------------------------------------------
(* The engine's claims, and what ends an execution.                         *)
Take(w) ==
    /\ task.state = "ready" /\ At(w, "idle")
    /\ task' = [task EXCEPT !.state = "running", !.owner = w]
    /\ exec' = [exec EXCEPT ![w] = [Idle EXCEPT !.pc = "start", !.attempt = task.attempt]]
    /\ UNCHANGED <<db, turn, faults, outside>>

(* Mutant: one attempt more than the task is given. *)
MayRetryOnceMore == task.attempt <= MaxAttempts

MayRetry == task.attempt < MaxAttempts

NextAttempt ==
    IF MayRetry
    THEN [state |-> "ready", attempt |-> task.attempt + 1, owner |-> None]
    ELSE [task EXCEPT !.state = "failed", !.owner = None]

(* The engine gives up on the owner, which crashed or merely went silent.   *)
LoseClaim(w) ==
    /\ Owns(w) /\ faults < MaxFaults /\ faults' = faults + 1
    /\ task' = NextAttempt
    /\ exec' \in {exec, [exec EXCEPT ![w] = Idle]}
    /\ UNCHANGED <<db, turn, outside>>

(* The handler returned, threw or suspended.                                *)
Ended(pc) ==
    CASE pc = "throw" -> NextAttempt
      [] pc = "sleep" -> [task EXCEPT !.state = "ready", !.owner = None]
      [] pc = "await" -> [task EXCEPT !.state = "approval", !.owner = None]
      [] pc = "finish" -> [task EXCEPT !.state = "done", !.owner = None]

End(w) ==
    /\ exec[w].pc \in {"throw", "sleep", "await", "finish"}
    /\ task' = IF Owns(w) THEN Ended(exec[w].pc) ELSE task
    /\ exec' = [exec EXCEPT ![w] = Idle]
    /\ UNCHANGED <<db, turn, faults, outside>>

(* The approval's decision or its deadline wakes the task.                  *)
Wake ==
    /\ task.state = "approval" /\ (Decided \/ Over)
    /\ task' = [task EXCEPT !.state = "ready"]
    /\ UNCHANGED <<db, turn, exec, faults, outside>>

-----------------------------------------------------------------------------
(* authority.start: the run must be running, or wait for manual recovery.   *)
Start(w) ==
    /\ At(w, "start")
    /\ Continues(w, CASE turn = "cancelled" -> "finish"
                      [] turn = "unavailable" -> "advance"
                      [] OTHER -> IF db.run \in {"running", "recovery_required"}
                                  THEN "advance" ELSE "throw")
    /\ UNCHANGED <<turn, task, outside>>

(* authority.advance, as far as this call is concerned.                     *)
Advance(w) ==
    /\ At(w, "advance")
    /\ Continues(w, CASE turn \in {"cancelled", "resulted"} -> "finish"
                      [] turn = "unavailable" -> "recover"
                      [] OTHER -> "admit")
    /\ UNCHANGED <<turn, task, outside>>

(* Admission of a gated tool closes an overdue approval first.              *)
Refreshed ==
    IF gated /\ Over /\ db.run = "waiting" /\ db.approval = "pending"
    THEN Rejected(db, "expired") ELSE db

(* Permission, and time for another call unless this one has its result.    *)
Refused(d) ==
    \/ d.run # "running" \/ access = "none"
    \/ /\ ~(gated /\ d.invocation.state \in {"succeeded", "failed"})
       /\ Over \/ (gated /\ d.invocation.state \in {"claimed", "recovery_required"})

Admitted(d) ==
    LET opened == [d EXCEPT !.invocation.state = "awaiting", !.approval = "pending",
                            !.run = "waiting"]
        queued == [d EXCEPT !.invocation.state = "ready", !.command.state = "pending"]
    IN  IF d.invocation.state = "none" THEN IF gated THEN opened ELSE queued
        ELSE IF gated /\ d.invocation.state = "ready" /\ d.command.state = "none"
        THEN queued ELSE d

Admit(w) ==
    /\ At(w, "admit")
    /\ IF Refused(Refreshed) THEN Continues(w, "give_up")
       ELSE Transact(Admitted(Refreshed), w, "read", "sleep")
    /\ UNCHANGED <<turn, task, outside>>

(* The saved result may be used while the run and its permission stand.     *)
Readable ==
    \/ db.run = "running" /\ db.invocation.state # "recovery_required"
    \/ db.run = "waiting" /\ db.invocation.state = "awaiting"

Read(w) ==
    /\ At(w, "read")
    /\ LET usable == turn = "open" /\ Readable
           result == db.invocation.state \in {"succeeded", "failed"}
       IN  \/ turn # "open" /\ Continues(w, "finish") /\ UNCHANGED turn
           \/ turn = "open" /\ ~Readable /\ Continues(w, "give_up") /\ UNCHANGED turn
           \/ /\ usable /\ db.invocation.state = "awaiting"
              /\ Continues(w, "wait") /\ UNCHANGED turn
           \/ /\ usable /\ db.invocation.state \in {"ready", "claimed"}
              /\ Continues(w, "dispatch") /\ UNCHANGED turn
           \/ /\ usable /\ result /\ (Over \/ access = "none")
              /\ Continues(w, "give_up") /\ UNCHANGED turn
           \/ /\ usable /\ result /\ ~Over /\ access # "none"
              /\ Continues(w, "finish") /\ turn' = "resulted"
    /\ UNCHANGED <<task, outside>>

(* Publish the request and wait for the decision, unless it is there.       *)
Wait(w) ==
    /\ At(w, "wait")
    /\ \/ Owns(w) /\ Decided /\ Continues(w, "advance")
       \/ Owns(w) /\ ~Decided /\ ~Over /\ Continues(w, "await")
       \/ (~Owns(w) \/ (Over /\ ~Decided)) /\ Continues(w, "throw")
       \/ faults < MaxFaults /\ faults' = faults + 1 /\ Goes(w, "throw") /\ UNCHANGED db
    /\ UNCHANGED <<turn, task, outside>>

-----------------------------------------------------------------------------
(* The tool's dispatch.  An error leaves it to the next attempt; the last   *)
(* attempt settles what it can.                                             *)
AfterError(w) == IF exec[w].attempt < MaxAttempts THEN "throw" ELSE "exhaust"

(* A checkpoint that a stale execution finished is not recorded.            *)
AfterDispatch(w) == IF Owns(w) THEN "advance" ELSE "throw"

(* An outcome that is unknown may be closed for manual recovery.            *)
Recoverable(fence) ==
    /\ CommandClaimed(fence)
    /\ \/ InvocationClaimed(fence) /\ db.run = "running"
       \/ db.invocation.state = "recovery_required"

Claimable == db.command.state = "pending" /\ access # "no_connection"
Callable == db.run = "running" /\ db.invocation.state = "ready"

(* What a dispatch may find: a call that is settled already; one whose      *)
(* executor is gone; permission or time that ended before the first claim.  *)
Settled ==
    \/ db.command.state \in Terminal
    \/ Claimable /\ db.invocation.state \in Terminal

Interrupted ==
    /\ db.command.state = "claimed" /\ clock >= db.command.until
    /\ Recoverable(db.command.fence)

Deniable == Claimable /\ Callable /\ (access = "none" \/ Over)

(* Mutant: a call whose claim has expired is dispatched again. *)
LapsedOrUnclaimed ==
    \/ Claimable /\ Callable /\ access = "full" /\ ~Over
    \/ Interrupted /\ db.run = "running" /\ ~Over

(* Only work that nobody has claimed is dispatched.                         *)
Dispatchable == Claimable /\ Callable /\ access = "full" /\ ~Over

Claimed ==
    LET fence == db.invocation.fence + 1
        until == clock + ClaimWindow
    IN  [db EXCEPT !.invocation = [state |-> "claimed", fence |-> fence,
                                   until |-> IF until < Deadline THEN until ELSE Deadline],
                   !.command = [state |-> "claimed", fence |-> fence, until |-> until]]

Holds(w, claim) ==
    exec' = [exec EXCEPT ![w] = [@ EXCEPT !.pc = "claimed", !.fence = claim.fence,
                                          !.until = claim.until]]

Claim(w) ==
    /\ At(w, "dispatch")
    /\ \/ ~Owns(w) /\ Continues(w, "throw")
       \/ /\ Owns(w)
          /\ \/ Settled /\ Continues(w, "advance")
             \/ Interrupted /\ Transact(Uncertain(db), w, "advance", AfterError(w))
             \/ Deniable /\ Transact(Fails(db), w, "advance", AfterError(w))
             \/ /\ Dispatchable
                /\ \/ db' = Claimed /\ Holds(w, Claimed.invocation) /\ UNCHANGED faults
                   \/ /\ faults < MaxFaults /\ faults' = faults + 1
                      /\ db' \in {db, Claimed} /\ Goes(w, AfterError(w))
             \/ /\ ~(Settled \/ Interrupted \/ Deniable \/ Dispatchable)
                /\ Continues(w, AfterError(w))
    /\ UNCHANGED <<turn, task, outside>>

(* settleExhausted, when no attempt is left.                                *)
Exhaust(w) ==
    /\ At(w, "exhaust")
    /\ \/ db.command.state \in Terminal /\ Continues(w, "advance")
       \/ Recoverable(db.command.fence) /\ Transact(Uncertain(db), w, "advance", "throw")
       \/ /\ db.command.state \notin Terminal /\ ~Recoverable(db.command.fence)
          /\ Continues(w, "throw")
    /\ UNCHANGED <<turn, task, outside>>

-----------------------------------------------------------------------------
(* Mutant: the call may use all of the claim, and more. *)
TimeIgnored(w) == TRUE

(* The provider's part of the claim has not passed.                         *)
InTime(w) == clock < exec[w].until - Allowance

(* The connection's credential is missing, or the client refuses the call.  *)
CannotCall(w) ==
    /\ At(w, "claimed") /\ Continues(w, "failing")
    /\ UNCHANGED <<turn, task, outside>>

Call(w) ==
    /\ At(w, "claimed") /\ InTime(w)
    /\ effects' = effects + 1
    /\ Continues(w, "called")
    /\ UNCHANGED <<gated, turn, access, task, stop, clock>>

Answer(w) ==
    /\ At(w, "called")
    /\ \/ InTime(w) /\ Continues(w, "succeeding")
       \/ Continues(w, "uncertain")
    /\ UNCHANGED <<turn, task, outside>>

(* The claim is still this execution's, in a run that still runs.           *)
Completable(fence) ==
    /\ CommandClaimed(fence) /\ clock < db.command.until
    /\ InvocationClaimed(fence) /\ db.run = "running"

Succeeded ==
    [db EXCEPT !.invocation = Close(@, "succeeded"), !.command = Close(@, "succeeded"),
               !.deliveries = @ + 1]

(* Save the outcome; what cannot be saved is an error of the dispatch.      *)
Complete(w) ==
    LET fence == exec[w].fence
    IN  /\ \/ /\ At(w, "succeeding")
              /\ IF Completable(fence) /\ clock < db.invocation.until
                 THEN Transact(Succeeded, w, AfterDispatch(w), AfterError(w))
                 ELSE Continues(w, AfterError(w))
           \/ /\ At(w, "failing")
              /\ IF Completable(fence)
                 THEN Transact([Fails(db) EXCEPT !.command = Close(@, "failed")],
                               w, AfterDispatch(w), AfterError(w))
                 ELSE Continues(w, AfterError(w))
           \/ /\ At(w, "uncertain")
              /\ IF Recoverable(fence)
                 THEN Transact(Uncertain(db), w, AfterDispatch(w), AfterError(w))
                 ELSE Continues(w, AfterError(w))
        /\ UNCHANGED <<turn, task, outside>>

-----------------------------------------------------------------------------
(* The result cannot be used: the turn ends without an answer ...           *)
GiveUp(w) ==
    /\ At(w, "give_up")
    /\ Continues(w, IF turn = "cancelled" THEN "finish" ELSE "recover")
    /\ turn' = IF turn = "cancelled" THEN turn ELSE "unavailable"
    /\ UNCHANGED <<task, outside>>

(* Mutant: a run that waits for its owner may be sent to recovery. *)
RecoverySourcesAndWaiting == {"running", "waiting"}

RecoverySources == {"running"}

(* ... and the run waits for manual recovery.                               *)
Recover(w) ==
    /\ At(w, "recover")
    /\ IF db.run \in RecoverySources
       THEN Transact([db EXCEPT !.run = "recovery_required"], w, "finish", "throw")
       ELSE Continues(w, IF db.run = "recovery_required" THEN "finish" ELSE "throw")
    /\ UNCHANGED <<turn, task, outside>>

-----------------------------------------------------------------------------
(* The owner approves or denies; an answer that comes too late expires it.  *)
Respond ==
    /\ db.run = "waiting" /\ db.approval = "pending"
    /\ IF Over THEN db' = Rejected(db, "expired")
       ELSE \/ db' = [db EXCEPT !.approval = "approved", !.run = "running",
                                !.invocation.state = "ready"]
            \/ db' = Rejected(db, "denied")
    /\ UNCHANGED <<turn, task, exec, faults, outside>>

(* Permission for the tool, or its connection, is withdrawn.                *)
LoseAccess ==
    /\ faults < MaxFaults /\ faults' = faults + 1
    /\ access = "full" /\ access' \in {"none", "no_connection"}
    /\ UNCHANGED <<gated, db, turn, effects, task, exec, stop, clock>>

StopAdmit ==
    /\ stop = "idle" /\ db.run \in {"running", "waiting", "recovery_required"}
    /\ db' = [db EXCEPT !.run = "cancelling"] /\ stop' = "admitted"
    /\ UNCHANGED <<gated, turn, access, effects, task, exec, clock, faults>>

StopPublish ==
    /\ stop = "admitted" /\ stop' = "published" /\ turn' = "cancelled"
    /\ UNCHANGED <<gated, db, access, effects, task, exec, clock, faults>>

(* The turn's task is cancelled in the engine; its execution becomes stale. *)
StopCancelsTask ==
    /\ stop = "published" /\ stop' = "cleaning"
    /\ task' = IF task.state \in {"failed", "done"} THEN task
               ELSE [task EXCEPT !.state = "cancelled", !.owner = None]
    /\ UNCHANGED <<gated, db, turn, access, effects, exec, clock, faults>>

(* Mutant: cancellation fails the claimed work too, though it may have run. *)
CancelledWithClaims(d) ==
    IF d.invocation.state \in {"awaiting", "ready", "claimed"}
    THEN [Fails(d) EXCEPT !.approval = IF @ = "pending" THEN "cancelled" ELSE @] ELSE d

(* Mutant: a claim whose executor is gone is left as it is. *)
CancelledButClaims(d) ==
    IF d.invocation.state \in {"awaiting", "ready"}
    THEN [Fails(d) EXCEPT !.approval = IF @ = "pending" THEN "cancelled" ELSE @] ELSE d

(* Cleanup of the run's work: an expired claim keeps its unknown outcome,   *)
(* unclaimed work fails, a live claim is waited for.                        *)
Cancelled(d) ==
    IF d.invocation.state = "claimed" /\ d.invocation.until <= clock
    THEN [d EXCEPT !.invocation = Close(@, "recovery_required")]
    ELSE IF d.invocation.state \in {"awaiting", "ready"}
    THEN [Fails(d) EXCEPT !.approval = IF @ = "pending" THEN "cancelled" ELSE @]
    ELSE d

StopCleanup ==
    /\ stop = "cleaning"
    /\ db' = Cancelled(db)
    /\ stop' = IF Cancelled(db).invocation.state # "claimed" THEN "cleaned" ELSE stop
    /\ UNCHANGED <<gated, turn, access, effects, task, exec, clock, faults>>

StopFinalize ==
    /\ stop = "cleaned" /\ stop' = "done"
    /\ db.invocation.state # "claimed"
    /\ db' = [db EXCEPT !.run = "cancelled"]
    /\ UNCHANGED <<gated, turn, access, effects, task, exec, clock, faults>>

Tick ==
    /\ clock < Deadline + ClaimWindow /\ clock' = clock + 1
    /\ UNCHANGED <<gated, db, turn, access, effects, task, exec, stop, faults>>

-----------------------------------------------------------------------------
Step(w) ==
    \/ Take(w) \/ End(w) \/ Start(w) \/ Advance(w) \/ Admit(w) \/ Read(w) \/ Wait(w)
    \/ Claim(w) \/ Exhaust(w) \/ CannotCall(w) \/ Call(w) \/ Answer(w) \/ Complete(w)
    \/ GiveUp(w) \/ Recover(w)

Stopping == StopPublish \/ StopCancelsTask \/ StopCleanup \/ StopFinalize

Next ==
    \/ \E w \in Workers : Step(w) \/ LoseClaim(w)
    \/ Wake \/ Respond \/ LoseAccess
    \/ StopAdmit \/ Stopping
    \/ Tick

Spec == Init /\ [][Next]_vars

(* Time passes, and the engine repeats the Stop task until it is done.      *)
Fairness == WF_vars(Stopping) /\ WF_vars(Tick)

FairSpec == Spec /\ Fairness

-----------------------------------------------------------------------------
InvocationStates == {"none", "awaiting", "ready", "claimed"} \union Terminal
Pcs == {"idle", "start", "advance", "admit", "read", "wait", "dispatch", "exhaust", "claimed",
        "called", "succeeding", "failing", "uncertain", "give_up", "recover",
        "throw", "sleep", "await", "finish"}

(* What the tables may hold.                                                *)
Tables ==
    [run : {"running", "waiting", "recovery_required", "cancelling", "cancelled"},
     invocation : [state : InvocationStates, fence : Nat, until : Nat],
     approval : {"none", "pending", "approved", "denied", "expired", "cancelled"},
     command : [state : {"none", "pending", "claimed"} \union Terminal,
                fence : Nat, until : Nat],
     deliveries : Nat]

(* Every row is in a state its enum names, and every count is a number.     *)
TypeOK ==
    /\ gated \in BOOLEAN /\ db \in Tables
    /\ turn \in {"open", "resulted", "unavailable", "cancelled"}
    /\ access \in {"full", "none", "no_connection"}
    /\ effects \in Nat /\ clock \in Nat /\ faults \in Nat
    /\ task \in [state : {"ready", "running", "approval", "failed", "done", "cancelled"},
                 attempt : 1..MaxAttempts, owner : Workers \union {None}]
    /\ exec \in [Workers -> [pc : Pcs, attempt : 0..MaxAttempts, fence : Nat, until : Nat]]
    /\ stop \in {"idle", "admitted", "published", "cleaning", "cleaned", "done"}

(* "One approval permits one exact effect … and is never blindly retried"   *)
(* (docs/design/mvp-delivery-plan.md): whatever crashes, repeats or expires, *)
(* the provider is called at most once, and for a gated tool only after its *)
(* owner approved.                                                          *)
OneEffectPerApproval ==
    /\ effects <= 1
    /\ gated /\ effects > 0 => db.approval = "approved"

(* What the model is told happened did happen: a failure means the provider *)
(* was not called, a success that it was, and each is delivered once.  Work *)
(* whose outcome is unknown delivers nothing.                               *)
TruthfulResults ==
    /\ db.invocation.state = "failed" => effects = 0
    /\ db.invocation.state = "succeeded" => effects = 1
    /\ db.deliveries = IF db.invocation.state \in {"succeeded", "failed"} THEN 1 ELSE 0

(* A run waits exactly while an approval it asked for is undecided, so no   *)
(* run waits for an answer nobody is asked for, and no answer arrives at a  *)
(* run that went elsewhere.                                                 *)
PausedForAReason ==
    /\ db.run = "waiting" => db.approval = "pending"
    /\ db.approval = "pending" =>
          db.invocation.state = "awaiting" /\ db.run \in {"waiting", "cancelling"}

(* Once Stop has finished no execution calls the provider any more: the run *)
(* waited out every claim under which a call could start.  The exception is *)
(* a claim that an exhausted task closed before its time.                   *)
NoCallAfterStop ==
    [][stop = "done" /\ effects' # effects => db.command.state = "recovery_required"]_vars

(* Whatever executions, attempts and transactions do, the owner and the     *)
(* model see the one call that ToolCall promises.                           *)
Allowed == ~gated \/ db.approval = "approved"
Told ==
    IF db.invocation.state \in {"succeeded", "failed"} THEN db.invocation.state ELSE "nothing"

Promise == INSTANCE ToolCall WITH allowed <- Allowed, made <- effects > 0, told <- Told

ImplementsToolCall == Promise!Spec

(* An admitted Stop finishes although a claimed call never reports back.    *)
StopFinishes == stop = "admitted" ~> db.run = "cancelled"
=============================================================================
