-------------------------- MODULE ToolDispatch_proofs --------------------------
(***************************************************************************)
(* Proofs that ToolDispatch is well typed, that one approval permits one   *)
(* effect, that results are truthful, that a run waits only for a pending  *)
(* approval, and that a finished Stop leaves no claim under which a call   *)
(* could start, for every number of executions, attempts and faults.       *)
(*                                                                         *)
(* The argument: a call is claimed once in its life, because only a        *)
(* pending command is claimed and no transition leads back to pending; so  *)
(* one execution holds it, and what that execution did decides which       *)
(* outcome it can save.                                                    *)
(***************************************************************************)
EXTENDS ToolDispatch, TLAPS

Active == {"claimed", "called", "succeeding", "failing", "uncertain"}
Unstarted == {"none", "pending"}

(* How the rows of the call agree, in any committed state d.                *)
RowsAgree(d) ==
    /\ d.command.state = "none" => d.invocation.state \in {"none", "awaiting", "ready", "failed"}
    /\ d.command.state = "pending" => d.invocation.state \in {"ready", "failed"}
    /\ d.command.state = "claimed" => d.invocation.state \in {"claimed", "recovery_required"}
    /\ d.command.state \in Terminal => d.invocation.state = d.command.state
    /\ d.invocation.state = "awaiting" <=> d.approval = "pending"
    /\ d.invocation.state = "none" => d.approval = "none"
    /\ gated /\ (d.invocation.state = "ready" \/ d.command.state \notin Unstarted)
         => d.approval = "approved"
    /\ d.run = "waiting" => d.approval = "pending"
    /\ d.approval = "pending" => d.run \in {"waiting", "cancelling"}
    /\ d.deliveries = IF d.invocation.state \in {"succeeded", "failed"} THEN 1 ELSE 0

(* One execution holds the call, and its step tells whether it was made.    *)
OneHolder ==
    /\ \A v, w \in Workers : exec[v].pc \in Active /\ exec[w].pc \in Active => v = w
    /\ db.command.state \in Unstarted =>
          effects = 0 /\ \A w \in Workers : exec[w].pc \notin Active
    /\ \A w \in Workers :
          /\ exec[w].pc \in {"claimed", "failing"} => effects = 0
          /\ exec[w].pc \in {"called", "succeeding"} => effects = 1

Truthful ==
    /\ effects \in {0, 1}
    /\ db.invocation.state = "failed" =>
          effects = 0 /\ \A w \in Workers : exec[w].pc # "claimed"
    /\ db.invocation.state = "succeeded" => effects = 1

(* A claim that may still be used is saved, was closed early, or is over.   *)
ClaimSaved ==
    \A w \in Workers : exec[w].pc = "claimed" =>
        \/ db.invocation.state = "claimed" /\ exec[w].until = db.invocation.until
        \/ db.command.state = "recovery_required"
        \/ exec[w].until <= clock

StopFences ==
    /\ stop \in {"admitted", "published", "cleaning", "cleaned"} => db.run = "cancelling"
    /\ stop = "done" => db.run = "cancelled"
    /\ stop \in {"cleaned", "done"} =>
          db.invocation.state \notin {"awaiting", "ready", "claimed"}

Safe == RowsAgree(db) /\ OneHolder /\ Truthful /\ ClaimSaved /\ StopFences
IInv == TypeOK /\ Safe

-----------------------------------------------------------------------------
(* What each transaction does to the tables.                                *)

LEMMA CloseFields ==
    ASSUME NEW d \in Tables, NEW state \in Terminal
    PROVE  /\ Close(d.invocation, state) \in
                 [state : InvocationStates, fence : Nat, until : Nat]
           /\ Close(d.command, state) \in
                 [state : {"none", "pending", "claimed"} \union Terminal, fence : Nat, until : Nat]
           /\ Close(d.invocation, state).state = state
           /\ Close(d.command, state).state = state
           /\ d.deliveries + 1 \in Nat
<1>1. d.invocation \in [state : InvocationStates, fence : Nat, until : Nat]
  BY DEF Tables
<1>2. d.command \in [state : {"none", "pending", "claimed"} \union Terminal, fence : Nat, until : Nat]
  BY DEF Tables
<1>3. d.deliveries + 1 \in Nat
  BY DEF Tables
<1>4. state \in InvocationStates
  BY DEF InvocationStates
<1> QED
  BY <1>1, <1>2, <1>3, <1>4 DEF Close

LEMMA FailsFields ==
    ASSUME NEW d \in Tables
    PROVE  /\ Fails(d) \in Tables
           /\ Fails(d).invocation.state = "failed" /\ Fails(d).deliveries = d.deliveries + 1
           /\ Fails(d).run = d.run /\ Fails(d).approval = d.approval
           /\ Fails(d).command = d.command
<1>1. "failed" \in Terminal
  BY DEF Terminal
<1> QED
  BY <1>1, CloseFields DEF Fails, Tables

LEMMA RejectedFields ==
    ASSUME NEW d \in Tables, NEW outcome \in {"denied", "expired"}
    PROVE  /\ Rejected(d, outcome) \in Tables
           /\ Rejected(d, outcome).invocation.state = "failed"
           /\ Rejected(d, outcome).deliveries = d.deliveries + 1
           /\ Rejected(d, outcome).run = "running"
           /\ Rejected(d, outcome).approval = outcome
           /\ Rejected(d, outcome).command = d.command
  BY FailsFields DEF Rejected, Tables

LEMMA UncertainFields ==
    ASSUME db \in Tables
    PROVE  /\ Uncertain(db) \in Tables
           /\ Uncertain(db).invocation.state = "recovery_required"
           /\ Uncertain(db).command.state = "recovery_required"
           /\ Uncertain(db).deliveries = db.deliveries
           /\ Uncertain(db).approval = db.approval
           /\ Uncertain(db).run = IF db.invocation.state = "claimed"
                                  THEN "recovery_required" ELSE db.run
  BY DEF Uncertain, Close, Tables, InvocationStates, Terminal

LEMMA ClaimedFields ==
    ASSUME db \in Tables, clock \in Nat
    PROVE  /\ Claimed \in Tables
           /\ Claimed.invocation.state = "claimed" /\ Claimed.command.state = "claimed"
           /\ Claimed.run = db.run /\ Claimed.approval = db.approval
           /\ Claimed.deliveries = db.deliveries
           /\ Claimed.invocation.fence \in Nat /\ Claimed.invocation.until \in Nat
<1>1. /\ db.invocation.fence + 1 \in Nat /\ clock + ClaimWindow \in Nat
      /\ Deadline \in Nat
  BY ToolAssumption DEF Tables
<1> QED
  BY <1>1 DEF Claimed, Tables, InvocationStates

LEMMA SucceededFields ==
    ASSUME db \in Tables
    PROVE  /\ Succeeded \in Tables
           /\ Succeeded.invocation.state = "succeeded" /\ Succeeded.command.state = "succeeded"
           /\ Succeeded.run = db.run /\ Succeeded.approval = db.approval
           /\ Succeeded.deliveries = db.deliveries + 1
<1>1. "succeeded" \in Terminal
  BY DEF Terminal
<1> QED
  BY <1>1, CloseFields DEF Succeeded, Tables

LEMMA FailedFields ==
    ASSUME db \in Tables
    PROVE  LET failed == [Fails(db) EXCEPT !.command = Close(@, "failed")]
           IN  /\ failed \in Tables
               /\ failed.invocation.state = "failed" /\ failed.command.state = "failed"
               /\ failed.run = db.run /\ failed.approval = db.approval
               /\ failed.deliveries = db.deliveries + 1
  BY FailsFields DEF Close, Tables, Terminal

LEMMA CancelledFields ==
    ASSUME NEW d \in Tables
    PROVE  /\ Cancelled(d) \in Tables
           /\ Cancelled(d).run = d.run /\ Cancelled(d).command = d.command
           /\ \/ Cancelled(d) = d /\ d.invocation.state \notin {"awaiting", "ready"}
              \/ /\ d.invocation.state = "claimed" /\ d.invocation.until <= clock
                 /\ Cancelled(d).invocation.state = "recovery_required"
                 /\ Cancelled(d).approval = d.approval
                 /\ Cancelled(d).deliveries = d.deliveries
              \/ /\ d.invocation.state \in {"awaiting", "ready"}
                 /\ Cancelled(d).invocation.state = "failed"
                 /\ Cancelled(d).approval = IF d.approval = "pending" THEN "cancelled"
                                            ELSE d.approval
                 /\ Cancelled(d).deliveries = d.deliveries + 1
<1>1. CASE d.invocation.state = "claimed" /\ d.invocation.until <= clock
  <2>1. "recovery_required" \in Terminal
    BY DEF Terminal
  <2> QED
    BY <1>1, <2>1, CloseFields DEF Cancelled, Tables
<1>2. CASE d.invocation.state \in {"awaiting", "ready"}
  <2>1. ~(d.invocation.state = "claimed" /\ d.invocation.until <= clock)
    BY <1>2
  <2> QED
    BY <1>2, <2>1, FailsFields DEF Cancelled, Tables
<1>3. CASE /\ ~(d.invocation.state = "claimed" /\ d.invocation.until <= clock)
           /\ d.invocation.state \notin {"awaiting", "ready"}
  BY <1>3 DEF Cancelled
<1> QED
  BY <1>1, <1>2, <1>3

-----------------------------------------------------------------------------
(* What a step does to the executions.                                      *)

Executions == [Workers -> [pc : Pcs, attempt : 0..MaxAttempts, fence : Nat, until : Nat]]

(* Nobody takes hold of the call in this step.                              *)
Unheld ==
    /\ exec' \in Executions
    /\ \A v \in Workers : exec'[v] = exec[v] \/ exec'[v].pc \notin Active

LEMMA GoesUnheld ==
    ASSUME exec \in Executions, NEW w \in Workers, NEW pc \in Pcs \ Active, Goes(w, pc)
    PROVE  Unheld /\ exec'[w].pc \notin Active
<1>1. exec[w] \in [pc : Pcs, attempt : 0..MaxAttempts, fence : Nat, until : Nat]
  BY DEF Executions
<1>2. [exec[w] EXCEPT !.pc = pc] \in [pc : Pcs, attempt : 0..MaxAttempts, fence : Nat, until : Nat]
  BY <1>1
<1>3. exec' = [exec EXCEPT ![w] = [exec[w] EXCEPT !.pc = pc]]
  BY DEF Goes, Executions
<1>4. exec'[w] = [exec[w] EXCEPT !.pc = pc] /\ \A v \in Workers \ {w} : exec'[v] = exec[v]
  BY <1>3 DEF Executions
<1>5. exec' \in Executions
  BY <1>2, <1>3 DEF Executions
<1>6. exec'[w].pc = pc
  BY <1>1, <1>4
<1> QED
  BY <1>4, <1>5, <1>6 DEF Unheld

LEMMA ReplacedUnheld ==
    ASSUME exec \in Executions, NEW w \in Workers,
           NEW new \in [pc : Pcs, attempt : 0..MaxAttempts, fence : Nat, until : Nat],
           new.pc \notin Active, exec' = [exec EXCEPT ![w] = new]
    PROVE  Unheld
  BY DEF Unheld, Executions

LEMMA TransactUnheld ==
    ASSUME exec \in Executions, faults \in Nat, NEW w \in Workers, NEW new,
           NEW next \in Pcs \ Active, NEW caught \in Pcs \ Active,
           Transact(new, w, next, caught)
    PROVE  /\ Unheld /\ exec'[w].pc \notin Active
           /\ db' \in {db, new} /\ faults' \in Nat
  BY GoesUnheld DEF Transact

LEMMA ContinuesUnheld ==
    ASSUME exec \in Executions, faults \in Nat, NEW w \in Workers,
           NEW pc \in Pcs \ Active, Continues(w, pc)
    PROVE  Unheld /\ exec'[w].pc \notin Active /\ db' = db /\ faults' \in Nat
  BY GoesUnheld DEF Continues

-----------------------------------------------------------------------------
(* What is left to show of a step.                                          *)

(* A step that leaves the tables alone and takes hold of nothing is safe.   *)
LEMMA QuietSafe ==
    ASSUME TypeOK, Safe, Unheld, db' = db, gated' = gated, effects' = effects,
           stop' = stop, clock' \in Nat, clock' >= clock
    PROVE  Safe'
<1>1. RowsAgree(db)'
  BY DEF Safe, RowsAgree
<1>2. \A v \in Workers : exec'[v].pc \in Active => exec'[v] = exec[v]
  BY DEF Unheld
<1>3. OneHolder'
  BY <1>2 DEF Safe, OneHolder, Active
<1>4. Truthful'
  BY <1>2 DEF Safe, Truthful, Active
<1>5. ClaimSaved'
  <2> SUFFICES ASSUME NEW w \in Workers, exec'[w].pc = "claimed"
               PROVE  \/ db.invocation.state = "claimed" /\ exec'[w].until = db.invocation.until
                      \/ db.command.state = "recovery_required"
                      \/ exec'[w].until <= clock'
    BY DEF ClaimSaved
  <2>1. exec'[w] = exec[w]
    BY <1>2 DEF Active
  <2>2. exec[w].until \in Nat /\ clock \in Nat
    BY DEF TypeOK
  <2>3. \/ db.invocation.state = "claimed" /\ exec[w].until = db.invocation.until
        \/ db.command.state = "recovery_required"
        \/ exec[w].until <= clock
    BY <2>1 DEF Safe, ClaimSaved
  <2> QED
    BY <2>1, <2>2, <2>3
<1>6. StopFences'
  BY DEF Safe, StopFences
<1> QED
  BY <1>1, <1>3, <1>4, <1>5, <1>6 DEF Safe

(* A step that writes the tables is safe if it keeps them in agreement, if  *)
(* the outcome it saves is what happened, and if it respects the fences.    *)
LEMMA WriteSafe ==
    ASSUME TypeOK, Safe, Unheld, effects' = effects, clock' = clock,
           RowsAgree(db)',
           db'.command.state \in Unstarted => db.command.state \in Unstarted,
           db'.invocation.state = "failed" /\ db.invocation.state # "failed" =>
               effects = 0 /\ \A v \in Workers : exec'[v].pc # "claimed",
           db'.invocation.state = "succeeded" /\ db.invocation.state # "succeeded" =>
               effects = 1,
           \/ db'.invocation = db.invocation /\ db'.command = db.command
           \/ db'.command.state = "recovery_required"
           \/ \A v \in Workers : exec'[v].pc = "claimed" => exec'[v].until <= clock,
           StopFences'
    PROVE  Safe'
<1>2. \A v \in Workers : exec'[v].pc \in Active => exec'[v] = exec[v]
  BY DEF Unheld
<1>3. OneHolder'
  <2>1. \A v, w \in Workers : exec'[v].pc \in Active /\ exec'[w].pc \in Active => v = w
    BY <1>2 DEF Safe, OneHolder
  <2>2. db'.command.state \in Unstarted =>
          effects' = 0 /\ \A w \in Workers : exec'[w].pc \notin Active
    BY <1>2 DEF Safe, OneHolder
  <2>3. \A w \in Workers :
          /\ exec'[w].pc \in {"claimed", "failing"} => effects' = 0
          /\ exec'[w].pc \in {"called", "succeeding"} => effects' = 1
    BY <1>2 DEF Safe, OneHolder, Active
  <2> QED
    BY <2>1, <2>2, <2>3 DEF OneHolder
<1>4. Truthful'
  <2>1. effects' \in {0, 1}
    BY DEF Safe, Truthful
  <2>2. db'.invocation.state = "failed" =>
          effects = 0 /\ \A v \in Workers : exec'[v].pc # "claimed"
    BY <1>2 DEF Safe, Truthful, Active
  <2> QED
    BY <2>1, <2>2 DEF Safe, Truthful
<1>5. ClaimSaved'
  <2> SUFFICES ASSUME NEW w \in Workers, exec'[w].pc = "claimed"
               PROVE  \/ db'.invocation.state = "claimed" /\ exec'[w].until = db'.invocation.until
                      \/ db'.command.state = "recovery_required"
                      \/ exec'[w].until <= clock'
    BY DEF ClaimSaved
  <2>1. exec'[w] = exec[w]
    BY <1>2 DEF Active
  <2>2. CASE db'.invocation = db.invocation /\ db'.command = db.command
    BY <2>1, <2>2 DEF Safe, ClaimSaved
  <2> QED
    BY <2>2
<1> QED
  BY <1>3, <1>4, <1>5 DEF Safe, RowsAgree

-----------------------------------------------------------------------------
(* The initial states, and one lemma for each action or group of actions.   *)

LEMMA InitSafe == Init => IInv
<1> SUFFICES ASSUME Init PROVE IInv
  OBVIOUS
<1>1. TypeOK
  <2>1. db \in Tables
    BY DEF Init, Tables, Unclaimed, InvocationStates
  <2>2. exec \in Executions
    BY ToolAssumption DEF Init, Executions, Idle, Pcs
  <2>3. task \in [state : {"ready", "running", "approval", "failed", "done", "cancelled"},
                  attempt : 1..MaxAttempts, owner : Workers \union {None}]
    BY ToolAssumption DEF Init
  <2> QED
    BY <2>1, <2>2, <2>3 DEF Init, TypeOK, Executions
<1>2. \A w \in Workers : exec[w].pc = "idle"
  BY DEF Init, Idle
<1>3. RowsAgree(db)
  BY DEF Init, RowsAgree, Unclaimed, Unstarted, Terminal
<1>4. OneHolder /\ Truthful /\ ClaimSaved
  BY <1>2 DEF Init, OneHolder, Truthful, ClaimSaved, Active, Unclaimed
<1>5. StopFences
  BY DEF Init, StopFences
<1> QED
  BY <1>1, <1>3, <1>4, <1>5 DEF IInv, Safe

Tasks == [state : {"ready", "running", "approval", "failed", "done", "cancelled"},
          attempt : 1..MaxAttempts, owner : Workers \union {None}]

LEMMA NextAttemptType ==
    ASSUME task \in Tasks
    PROVE  NextAttempt \in Tasks
<1>1. CASE MayRetry
  <2>1. task.attempt + 1 \in 1..MaxAttempts
    BY <1>1, ToolAssumption DEF Tasks, MayRetry
  <2> QED
    BY <1>1, <2>1 DEF NextAttempt, Tasks
<1>2. CASE ~MayRetry
  BY <1>2 DEF NextAttempt, Tasks
<1> QED
  BY <1>1, <1>2

(* The engine's own steps.                                                  *)
LEMMA EngineStep ==
    ASSUME IInv, NEW w \in Workers, Take(w) \/ LoseClaim(w) \/ End(w) \/ Wake
    PROVE  IInv'
<1> USE DEF IInv
<1>0. task \in Tasks /\ exec \in Executions /\ clock \in Nat
  BY DEF TypeOK, Tasks, Executions
<1>1. UNCHANGED <<gated, db, turn, access, effects, stop, clock>>
  BY DEF Take, LoseClaim, End, Wake, outside
<1>2. Unheld
  <2>1. CASE Take(w)
    <3> DEFINE new == [Idle EXCEPT !.pc = "start", !.attempt = task.attempt]
    <3>1. task.attempt \in 0..MaxAttempts
      BY <1>0, ToolAssumption DEF Tasks
    <3>2. /\ new \in [pc : Pcs, attempt : 0..MaxAttempts, fence : Nat, until : Nat]
          /\ new.pc \notin Active
      BY <3>1 DEF Idle, Pcs, Active
    <3>3. exec' = [exec EXCEPT ![w] = new]
      BY <2>1 DEF Take
    <3> QED
      BY <1>0, <3>2, <3>3, ReplacedUnheld
  <2>2. CASE exec' = [exec EXCEPT ![w] = Idle]
    <3>1. /\ Idle \in [pc : Pcs, attempt : 0..MaxAttempts, fence : Nat, until : Nat]
          /\ Idle.pc \notin Active
      BY ToolAssumption DEF Idle, Pcs, Active
    <3> QED
      BY <1>0, <2>2, <3>1, ReplacedUnheld
  <2>3. CASE exec' = exec
    BY <1>0, <2>3 DEF Unheld
  <2> QED
    BY <2>1, <2>2, <2>3 DEF LoseClaim, End, Wake
<1>3. task' \in Tasks
  <2>1. CASE Take(w)
    BY <1>0, <2>1 DEF Take, Tasks
  <2>2. CASE LoseClaim(w)
    BY <1>0, <2>2, NextAttemptType DEF LoseClaim
  <2>3. CASE End(w)
    <3>1. \A pc \in {"throw", "sleep", "await", "finish"} : Ended(pc) \in Tasks
      BY <1>0, NextAttemptType DEF Ended, Tasks
    <3> QED
      BY <1>0, <2>3, <3>1 DEF End
  <2>4. CASE Wake
    BY <1>0, <2>4 DEF Wake, Tasks
  <2> QED
    BY <2>1, <2>2, <2>3, <2>4
<1>4. faults' \in Nat
  BY DEF TypeOK, Take, LoseClaim, End, Wake
<1>5. TypeOK'
  BY <1>1, <1>2, <1>3, <1>4 DEF TypeOK, Unheld, Executions, Tasks
<1> QED
  BY <1>0, <1>1, <1>2, <1>5, QuietSafe

(* Steps of the handler that only read.                                     *)
LEMMA ReadingStep ==
    ASSUME IInv, NEW w \in Workers,
           Start(w) \/ Advance(w) \/ Read(w) \/ Wait(w) \/ GiveUp(w)
    PROVE  IInv'
<1> USE DEF IInv
<1>0. exec \in Executions /\ clock \in Nat /\ faults \in Nat
  BY DEF TypeOK, Executions
<1>1. UNCHANGED <<gated, task, access, effects, stop, clock>>
  BY DEF Start, Advance, Read, Wait, GiveUp, outside
<1>2. \/ \E pc \in Pcs \ Active : Continues(w, pc)
      \/ \E pc \in Pcs \ Active : Goes(w, pc) /\ db' = db /\ faults' = faults + 1
  <2>1. Start(w) \/ Advance(w) => \E pc \in Pcs \ Active : Continues(w, pc)
    BY DEF Start, Advance, Pcs, Active
  <2>2. Read(w) \/ GiveUp(w) => \E pc \in Pcs \ Active : Continues(w, pc)
    BY DEF Read, GiveUp, Pcs, Active
  <2>3. Wait(w) => \/ \E pc \in Pcs \ Active : Continues(w, pc)
                   \/ \E pc \in Pcs \ Active : Goes(w, pc) /\ db' = db /\ faults' = faults + 1
    BY DEF Wait, Pcs, Active
  <2> QED
    BY <2>1, <2>2, <2>3
<1>3. Unheld /\ db' = db /\ faults' \in Nat
  BY <1>0, <1>2, ContinuesUnheld, GoesUnheld
<1>4. turn' \in {"open", "resulted", "unavailable", "cancelled"}
  BY DEF TypeOK, Start, Advance, Read, Wait, GiveUp
<1>5. TypeOK'
  BY <1>1, <1>3, <1>4 DEF TypeOK, Unheld, Executions
<1> QED
  BY <1>0, <1>1, <1>3, <1>5, QuietSafe

(* Admission: the tables change under a running run, or expire an approval. *)
LEMMA RejectedAgrees ==
    ASSUME IInv, db.run = "waiting", db.approval = "pending",
           NEW outcome \in {"denied", "expired"}
    PROVE  /\ RowsAgree(Rejected(db, outcome))
           /\ db.invocation.state = "awaiting" /\ db.command.state = "none"
<1>1. db \in Tables /\ RowsAgree(db)
  BY DEF IInv, TypeOK, Safe
<1>2. db.invocation.state = "awaiting"
  BY <1>1 DEF RowsAgree
<1>3. db.command.state = "none"
  BY <1>1, <1>2 DEF RowsAgree, Tables, Terminal
<1>4. db.deliveries = 0
  BY <1>1, <1>2 DEF RowsAgree
<1> QED
  BY <1>1, <1>2, <1>3, <1>4, RejectedFields DEF RowsAgree, Unstarted, Terminal

LEMMA RefreshedFields ==
    ASSUME IInv
    PROVE  /\ Refreshed \in Tables /\ RowsAgree(Refreshed)
           /\ Refreshed.command = db.command
           /\ \/ Refreshed = db
              \/ /\ Refreshed.invocation.state = "failed" /\ db.command.state = "none"
                 /\ db.run = "waiting"
<1>1. db \in Tables /\ RowsAgree(db)
  BY DEF IInv, TypeOK, Safe
<1>2. CASE gated /\ Over /\ db.run = "waiting" /\ db.approval = "pending"
  <2>1. Refreshed = Rejected(db, "expired")
    BY <1>2 DEF Refreshed
  <2> QED
    BY <1>1, <1>2, <2>1, RejectedFields, RejectedAgrees
<1>3. CASE ~(gated /\ Over /\ db.run = "waiting" /\ db.approval = "pending")
  <2>1. Refreshed = db
    BY <1>3 DEF Refreshed
  <2> QED
    BY <1>1, <2>1
<1> QED
  BY <1>2, <1>3

LEMMA AdmittedFields ==
    ASSUME NEW d \in Tables, RowsAgree(d), d.run = "running", gated \in BOOLEAN
    PROVE  /\ Admitted(d) \in Tables /\ RowsAgree(Admitted(d))
           /\ Admitted(d) # d =>
                 /\ d.command.state = "none"
                 /\ Admitted(d).command.state \in Unstarted
                 /\ Admitted(d).invocation.state \in {"awaiting", "ready"}
           /\ Admitted(d).run \in {"running", "waiting"}
<1> DEFINE opened == [d EXCEPT !.invocation.state = "awaiting", !.approval = "pending",
                               !.run = "waiting"]
           queued == [d EXCEPT !.invocation.state = "ready", !.command.state = "pending"]
<1>0. /\ d.invocation \in [state : InvocationStates, fence : Nat, until : Nat]
      /\ d.command \in [state : {"none", "pending", "claimed"} \union Terminal,
                         fence : Nat, until : Nat]
  BY DEF Tables
<1>1. /\ opened \in Tables /\ opened.invocation.state = "awaiting"
      /\ opened.approval = "pending" /\ opened.run = "waiting"
      /\ opened.command = d.command /\ opened.deliveries = d.deliveries
  BY <1>0 DEF Tables, InvocationStates
<1>2. /\ queued \in Tables /\ queued.invocation.state = "ready"
      /\ queued.command.state = "pending" /\ queued.run = d.run
      /\ queued.approval = d.approval /\ queued.deliveries = d.deliveries
  BY <1>0 DEF Tables, InvocationStates
<1>3. CASE d.invocation.state = "none"
  <2>1. d.command.state = "none" /\ d.deliveries = 0 /\ d.approval # "pending"
    BY <1>0, <1>3 DEF RowsAgree, Terminal
  <2>2. CASE gated
    <3>1. Admitted(d) = opened
      BY <1>3, <2>2 DEF Admitted
    <3>2. RowsAgree(opened)
      BY <1>1, <2>1 DEF RowsAgree, Unstarted, Terminal
    <3> QED
      BY <1>1, <2>1, <3>1, <3>2 DEF Unstarted
  <2>3. CASE ~gated
    <3>1. Admitted(d) = queued
      BY <1>3, <2>3 DEF Admitted
    <3>2. RowsAgree(queued)
      BY <1>2, <2>1, <2>3 DEF RowsAgree, Unstarted, Terminal
    <3> QED
      BY <1>2, <2>1, <3>1, <3>2 DEF Unstarted
  <2> QED
    BY <2>2, <2>3
<1>4. CASE d.invocation.state = "ready" /\ d.command.state = "none" /\ gated
  <2>1. Admitted(d) = queued
    BY <1>4 DEF Admitted
  <2>2. RowsAgree(queued)
    BY <1>2, <1>4 DEF RowsAgree, Unstarted, Terminal
  <2> QED
    BY <1>2, <1>4, <2>1, <2>2 DEF Unstarted
<1>5. CASE /\ d.invocation.state # "none"
           /\ ~(d.invocation.state = "ready" /\ d.command.state = "none" /\ gated)
  BY <1>5 DEF Admitted
<1> QED
  BY <1>3, <1>4, <1>5

LEMMA AdmitStep ==
    ASSUME IInv, NEW w \in Workers, Admit(w)
    PROVE  IInv'
<1>0. /\ exec \in Executions /\ clock \in Nat /\ faults \in Nat /\ db \in Tables
      /\ gated \in BOOLEAN /\ TypeOK /\ Safe
  BY DEF IInv, TypeOK, Executions
<1>1. UNCHANGED <<gated, task, turn, access, effects, stop, clock>>
  BY DEF Admit, outside
<1>2. {"give_up", "read", "sleep"} \subseteq Pcs \ Active
  BY DEF Pcs, Active
<1>3. CASE Refused(Refreshed)
  <2>1. Continues(w, "give_up")
    BY <1>3 DEF Admit
  <2>2. Unheld /\ db' = db /\ faults' \in Nat
    BY <1>0, <1>2, <2>1, ContinuesUnheld
  <2>3. TypeOK'
    BY <1>0, <1>1, <2>2 DEF TypeOK, Unheld, Executions
  <2> QED
    BY <1>0, <1>1, <2>2, <2>3, QuietSafe DEF IInv
<1>4. CASE ~Refused(Refreshed)
  <2>1. Transact(Admitted(Refreshed), w, "read", "sleep")
    BY <1>4 DEF Admit
  <2>2. Unheld /\ db' \in {db, Admitted(Refreshed)} /\ faults' \in Nat
    BY <1>0, <1>2, <2>1, TransactUnheld
  <2>3. Refreshed.run = "running"
    BY <1>4 DEF Refused
  <2>4. CASE db' = db
    <3>1. TypeOK'
      BY <1>0, <1>1, <2>2, <2>4 DEF TypeOK, Unheld, Executions
    <3> QED
      BY <1>0, <1>1, <2>2, <2>4, <3>1, QuietSafe DEF IInv
  <2>5. CASE db' = Admitted(Refreshed) /\ db' # db
    <3>1. db' \in Tables /\ RowsAgree(Admitted(Refreshed))
      BY <1>0, <2>3, <2>5, RefreshedFields, AdmittedFields
    <3>2. TypeOK'
      BY <1>0, <1>1, <2>2, <3>1 DEF TypeOK, Unheld, Executions
    <3>3. RowsAgree(db)'
      BY <1>1, <2>5, <3>1 DEF RowsAgree
    <3>4. db.command.state = "none" /\ db'.command.state \in Unstarted
      <4>1. CASE Admitted(Refreshed) = Refreshed
        BY <2>5, <4>1, RefreshedFields DEF Unstarted
      <4>2. CASE Admitted(Refreshed) # Refreshed
        BY <1>0, <2>3, <2>5, <4>2, RefreshedFields, AdmittedFields
      <4> QED
        BY <4>1, <4>2
    <3>5. effects = 0 /\ \A v \in Workers : exec[v].pc \notin Active
      BY <1>0, <3>4 DEF Safe, OneHolder, Unstarted
    <3>6. \A v \in Workers : exec'[v].pc # "claimed"
      BY <2>2, <3>5 DEF Unheld, Active
    <3>7. db'.invocation.state # "succeeded"
      BY <3>3, <3>4, <3>1 DEF RowsAgree, Unstarted
    <3>8. db.run \in {"running", "waiting"}
      BY <2>3, RefreshedFields
    <3>9. StopFences'
      BY <1>0, <1>1, <3>8 DEF Safe, StopFences
    <3> QED
      BY <1>0, <1>1, <2>2, <3>2, <3>3, <3>4, <3>5, <3>6, <3>7, <3>9, WriteSafe DEF IInv, Unstarted
  <2> QED
    BY <2>2, <2>4, <2>5
<1> QED
  BY <1>3, <1>4

(* An unknown outcome is closed for manual recovery.                        *)
LEMMA UncertainSafe ==
    ASSUME IInv, NEW fence, Recoverable(fence), Unheld, db' = Uncertain(db),
           UNCHANGED <<gated, effects, stop, clock>>
    PROVE  Safe' /\ db' \in Tables
<1>0. db \in Tables /\ TypeOK /\ Safe /\ RowsAgree(db)
  BY DEF IInv, TypeOK, Safe
<1>1. /\ db.command.state = "claimed"
      /\ \/ db.invocation.state = "claimed" /\ db.run = "running"
         \/ db.invocation.state = "recovery_required"
  BY DEF Recoverable, CommandClaimed, InvocationClaimed
<1>2. RowsAgree(db)'
  <2>1. RowsAgree(Uncertain(db))
    BY <1>0, <1>1, UncertainFields DEF RowsAgree, Unstarted, Terminal
  <2> QED
    BY <2>1 DEF RowsAgree
<1>3. StopFences'
  BY <1>0, <1>1, UncertainFields DEF Safe, StopFences
<1>4. /\ db'.command.state \notin Unstarted
      /\ db'.invocation.state \notin {"failed", "succeeded"}
      /\ db'.command.state = "recovery_required"
  BY <1>0, UncertainFields DEF Unstarted
<1> QED
  BY <1>0, <1>2, <1>3, <1>4, UncertainFields, WriteSafe

LEMMA ErrorPcs ==
    ASSUME NEW w \in Workers
    PROVE  AfterError(w) \in Pcs \ Active /\ AfterDispatch(w) \in Pcs \ Active
  BY DEF AfterError, AfterDispatch, Pcs, Active

(* A claim: the only step by which an execution takes hold of the call.     *)
LEMMA ClaimedSafe ==
    ASSUME IInv, NEW w \in Workers, Dispatchable, db' = Claimed,
           Holds(w, Claimed.invocation) \/ Unheld,
           UNCHANGED <<gated, effects, stop, clock>>
    PROVE  Safe' /\ db' \in Tables /\ exec' \in Executions
<1>0. /\ db \in Tables /\ clock \in Nat /\ exec \in Executions
      /\ TypeOK /\ Safe /\ RowsAgree(db)
  BY DEF IInv, TypeOK, Safe, Executions
<1>1. /\ db.command.state = "pending" /\ db.invocation.state = "ready"
      /\ db.run = "running"
  BY DEF Dispatchable, Claimable, Callable
<1>2. effects = 0 /\ \A v \in Workers : exec[v].pc \notin Active
  BY <1>0, <1>1 DEF Safe, OneHolder, Unstarted
<1>3. /\ exec' \in Executions
      /\ \A v \in Workers : exec'[v].pc \in Active =>
            v = w /\ exec'[v].pc = "claimed" /\ exec'[v].until = Claimed.invocation.until
  <2>1. CASE Unheld
    BY <1>2, <2>1 DEF Unheld
  <2>2. CASE Holds(w, Claimed.invocation)
    <3> DEFINE new == [exec[w] EXCEPT !.pc = "claimed", !.fence = Claimed.invocation.fence,
                                      !.until = Claimed.invocation.until]
    <3>0. exec[w] \in [pc : Pcs, attempt : 0..MaxAttempts, fence : Nat, until : Nat]
      BY <1>0 DEF Executions
    <3>1. /\ new \in [pc : Pcs, attempt : 0..MaxAttempts, fence : Nat, until : Nat]
          /\ new.pc = "claimed" /\ new.until = Claimed.invocation.until
      BY <1>0, <3>0, ClaimedFields DEF Pcs
    <3>2. exec' = [exec EXCEPT ![w] = new]
      BY <2>2 DEF Holds
    <3>3. exec'[w] = new /\ \A v \in Workers \ {w} : exec'[v] = exec[v]
      BY <1>0, <3>2 DEF Executions
    <3>4. exec' \in Executions
      BY <1>0, <3>1, <3>2 DEF Executions
    <3> HIDE DEF new
    <3> QED
      BY <1>2, <3>1, <3>3, <3>4
  <2> QED
    BY <2>1, <2>2
<1>4. RowsAgree(db)'
  <2>1. RowsAgree(Claimed)
    BY <1>0, <1>1, ClaimedFields DEF RowsAgree, Unstarted, Terminal
  <2> QED
    BY <2>1 DEF RowsAgree
<1>5. db'.invocation.state = "claimed" /\ db'.command.state = "claimed" /\ db'.run = db.run
  BY <1>0, ClaimedFields
<1>6. OneHolder'
  <2>1. \A v \in Workers : exec'[v].pc \in {"failing", "called", "succeeding"} =>
            exec'[v].pc \in Active
    BY DEF Active
  <2> QED
    BY <1>2, <1>3, <1>5, <2>1 DEF OneHolder, Unstarted
<1>7. Truthful' /\ ClaimSaved'
  BY <1>2, <1>3, <1>5 DEF Truthful, ClaimSaved, Active
<1>8. StopFences'
  BY <1>0, <1>1, <1>5 DEF Safe, StopFences
<1> QED
  BY <1>0, <1>3, <1>4, <1>6, <1>7, <1>8, ClaimedFields DEF Safe

(* Authority that ended before the first claim fails the call.              *)
LEMMA DeniedSafe ==
    ASSUME IInv, Deniable, Unheld, db' = Fails(db), UNCHANGED <<gated, effects, stop, clock>>
    PROVE  Safe' /\ db' \in Tables
<1>0. db \in Tables /\ TypeOK /\ Safe /\ RowsAgree(db)
  BY DEF IInv, TypeOK, Safe
<1>1. /\ db.command.state = "pending" /\ db.invocation.state = "ready"
      /\ db.run = "running"
  BY DEF Deniable, Claimable, Callable
<1>2. effects = 0 /\ \A v \in Workers : exec[v].pc \notin Active
  BY <1>0, <1>1 DEF Safe, OneHolder, Unstarted
<1>3. \A v \in Workers : exec'[v].pc # "claimed"
  BY <1>2 DEF Unheld, Active
<1>4. RowsAgree(db)'
  <2>1. db.deliveries = 0 /\ db.approval # "pending"
    BY <1>0, <1>1 DEF RowsAgree
  <2>2. RowsAgree(Fails(db))
    BY <1>0, <1>1, <2>1, FailsFields DEF RowsAgree, Unstarted, Terminal
  <2> QED
    BY <2>2 DEF RowsAgree
<1>5. StopFences'
  BY <1>0, <1>1, FailsFields DEF Safe, StopFences
<1>6. /\ db'.invocation.state = "failed" /\ db.command.state \in Unstarted
      /\ db' \in Tables
  BY <1>0, <1>1, FailsFields DEF Unstarted
<1> QED
  BY <1>0, <1>2, <1>3, <1>4, <1>5, <1>6, WriteSafe

LEMMA ClaimStep ==
    ASSUME IInv, NEW w \in Workers, Claim(w)
    PROVE  IInv'
<1>0. exec \in Executions /\ clock \in Nat /\ faults \in Nat /\ TypeOK /\ Safe
  BY DEF IInv, TypeOK, Executions
<1>1. UNCHANGED <<gated, task, turn, access, effects, stop, clock>>
  BY DEF Claim, outside
<1>2. {"throw", "advance"} \subseteq Pcs \ Active
  BY DEF Pcs, Active
<1>3. CASE Continues(w, "throw") \/ Continues(w, "advance") \/ Continues(w, AfterError(w))
  <2>1. Unheld /\ db' = db /\ faults' \in Nat
    BY <1>0, <1>2, <1>3, ContinuesUnheld, ErrorPcs
  <2>2. TypeOK'
    BY <1>0, <1>1, <2>1 DEF TypeOK, Unheld, Executions
  <2> QED
    BY <1>0, <1>1, <2>1, <2>2, QuietSafe DEF IInv
<1>4. CASE Interrupted /\ Transact(Uncertain(db), w, "advance", AfterError(w))
  <2>1. Unheld /\ db' \in {db, Uncertain(db)} /\ faults' \in Nat
    BY <1>0, <1>2, <1>4, TransactUnheld, ErrorPcs
  <2>2. Recoverable(db.command.fence)
    BY <1>4 DEF Interrupted
  <2>3. Safe' /\ db' \in Tables
    BY <1>0, <1>1, <2>1, <2>2, QuietSafe, UncertainSafe DEF TypeOK
  <2> QED
    BY <1>0, <1>1, <2>1, <2>3 DEF IInv, TypeOK, Unheld, Executions
<1>5. CASE Deniable /\ Transact(Fails(db), w, "advance", AfterError(w))
  <2>1. Unheld /\ db' \in {db, Fails(db)} /\ faults' \in Nat
    BY <1>0, <1>2, <1>5, TransactUnheld, ErrorPcs
  <2>3. Safe' /\ db' \in Tables
    BY <1>0, <1>1, <1>5, <2>1, QuietSafe, DeniedSafe DEF TypeOK
  <2> QED
    BY <1>0, <1>1, <2>1, <2>3 DEF IInv, TypeOK, Unheld, Executions
<1>6. CASE /\ Dispatchable /\ db' = Claimed
           /\ Holds(w, Claimed.invocation) \/ Unheld
           /\ faults' \in Nat
  <2>1. Safe' /\ db' \in Tables /\ exec' \in Executions
    BY <1>1, <1>6, ClaimedSafe
  <2> QED
    BY <1>0, <1>1, <1>6, <2>1 DEF IInv, TypeOK, Executions
<1>7. CASE Dispatchable /\ db' = db /\ Unheld /\ faults' \in Nat
  <2>1. TypeOK'
    BY <1>0, <1>1, <1>7 DEF TypeOK, Unheld, Executions
  <2> QED
    BY <1>0, <1>1, <1>7, <2>1, QuietSafe DEF IInv
<1>8. Goes(w, AfterError(w)) => Unheld
  BY <1>0, ErrorPcs, GoesUnheld
<1> QED
  BY <1>0, <1>3, <1>4, <1>5, <1>6, <1>7, <1>8 DEF Claim

LEMMA ExhaustStep ==
    ASSUME IInv, NEW w \in Workers, Exhaust(w)
    PROVE  IInv'
<1>0. exec \in Executions /\ clock \in Nat /\ faults \in Nat /\ TypeOK /\ Safe
  BY DEF IInv, TypeOK, Executions
<1>1. UNCHANGED <<gated, task, turn, access, effects, stop, clock>>
  BY DEF Exhaust, outside
<1>2. {"throw", "advance"} \subseteq Pcs \ Active
  BY DEF Pcs, Active
<1>3. CASE Continues(w, "throw") \/ Continues(w, "advance")
  <2>1. Unheld /\ db' = db /\ faults' \in Nat
    BY <1>0, <1>2, <1>3, ContinuesUnheld
  <2>2. TypeOK'
    BY <1>0, <1>1, <2>1 DEF TypeOK, Unheld, Executions
  <2> QED
    BY <1>0, <1>1, <2>1, <2>2, QuietSafe DEF IInv
<1>4. CASE /\ Recoverable(db.command.fence)
           /\ Transact(Uncertain(db), w, "advance", "throw")
  <2>1. Unheld /\ db' \in {db, Uncertain(db)} /\ faults' \in Nat
    BY <1>0, <1>2, <1>4, TransactUnheld
  <2>3. Safe' /\ db' \in Tables
    BY <1>0, <1>1, <1>4, <2>1, QuietSafe, UncertainSafe DEF TypeOK
  <2> QED
    BY <1>0, <1>1, <2>1, <2>3 DEF IInv, TypeOK, Unheld, Executions
<1> QED
  BY <1>3, <1>4 DEF Exhaust

(* The steps of the execution that holds the call.                          *)
LEMMA HolderStep ==
    ASSUME IInv, NEW w \in Workers, CannotCall(w) \/ Call(w) \/ Answer(w)
    PROVE  IInv'
<1>0. /\ exec \in Executions /\ clock \in Nat /\ db \in Tables
      /\ TypeOK /\ Safe /\ RowsAgree(db)
  BY DEF IInv, TypeOK, Safe, Executions
<1>1. UNCHANGED <<db, faults, gated, task, turn, access, stop, clock>>
  BY DEF CannotCall, Call, Answer, Continues, outside
<1>2. exec[w].pc \in {"claimed", "called"}
  BY DEF CannotCall, Call, Answer, At
<1>3. PICK pc \in {"failing", "called", "succeeding", "uncertain"} : Goes(w, pc)
  BY DEF CannotCall, Call, Answer, Continues
<1>4. /\ exec' \in Executions /\ exec'[w].pc = pc
      /\ \A v \in Workers \ {w} : exec'[v] = exec[v]
  <2>0. exec[w] \in [pc : Pcs, attempt : 0..MaxAttempts, fence : Nat, until : Nat]
    BY <1>0 DEF Executions
  <2>1. /\ [exec[w] EXCEPT !.pc = pc] \in
                [pc : Pcs, attempt : 0..MaxAttempts, fence : Nat, until : Nat]
        /\ [exec[w] EXCEPT !.pc = pc].pc = pc
    BY <2>0 DEF Pcs
  <2>2. exec' = [exec EXCEPT ![w] = [exec[w] EXCEPT !.pc = pc]]
    BY <1>3 DEF Goes
  <2> QED
    BY <1>0, <2>1, <2>2 DEF Executions
<1>5. \A v \in Workers \ {w} : exec[v].pc \notin Active
  BY <1>0, <1>2 DEF Safe, OneHolder, Active
<1>6. db.command.state \notin Unstarted
  BY <1>0, <1>2 DEF Safe, OneHolder, Active
<1>7. /\ effects' \in {0, 1}
      /\ exec'[w].pc = "failing" => effects' = 0
      /\ exec'[w].pc \in {"called", "succeeding"} => effects' = 1
      /\ db.invocation.state = "failed" => effects' = 0
      /\ db.invocation.state = "succeeded" => effects' = 1
  <2>1. CASE CannotCall(w)
    <3>1. effects' = effects /\ pc = "failing" /\ effects = 0
      <4>1. Goes(w, "failing") /\ effects' = effects /\ exec[w].pc = "claimed"
        BY <2>1 DEF CannotCall, Continues, outside, At
      <4>2. exec'[w].pc = "failing"
        BY <1>0, <4>1 DEF Goes, Executions
      <4> QED
        BY <1>0, <1>4, <4>1, <4>2 DEF Safe, OneHolder
    <3> QED
      BY <1>0, <1>4, <3>1 DEF Safe, Truthful
  <2>2. CASE Call(w)
    <3>1. exec[w].pc = "claimed" /\ effects' = effects + 1 /\ effects = 0
      BY <1>0, <2>2 DEF Call, At, Safe, OneHolder
    <3>2. exec'[w].pc = "called"
      BY <1>0, <2>2 DEF Call, Continues, Goes, Executions
    <3>3. db.invocation.state \notin {"failed", "succeeded"}
      BY <1>0, <3>1 DEF Safe, Truthful
    <3> QED
      BY <3>1, <3>2, <3>3
  <2>3. CASE Answer(w)
    <3>1. exec[w].pc = "called" /\ effects' = effects /\ effects = 1
      BY <1>0, <2>3 DEF Answer, At, outside, Safe, OneHolder
    <3>2. exec'[w].pc \in {"succeeding", "uncertain"}
      BY <1>0, <2>3 DEF Answer, Continues, Goes, Executions
    <3> QED
      BY <1>0, <3>1, <3>2 DEF Safe, Truthful
  <2> QED
    BY <2>1, <2>2, <2>3
<1>8. \A v \in Workers : exec'[v].pc # "claimed"
  BY <1>4, <1>5 DEF Active
<1>9. OneHolder'
  BY <1>1, <1>4, <1>5, <1>6, <1>7 DEF OneHolder, Active
<1>10. Truthful' /\ ClaimSaved'
  BY <1>1, <1>7, <1>8 DEF Truthful, ClaimSaved
<1>11. RowsAgree(db)' /\ StopFences'
  BY <1>0, <1>1 DEF RowsAgree, Safe, StopFences
<1>12. TypeOK'
  BY <1>0, <1>1, <1>4, <1>7 DEF TypeOK, Executions
<1> QED
  BY <1>9, <1>10, <1>11, <1>12 DEF IInv, Safe

LEMMA CompleteStep ==
    ASSUME IInv, NEW w \in Workers, Complete(w)
    PROVE  IInv'
<1> DEFINE fence == exec[w].fence
           failed == [Fails(db) EXCEPT !.command = Close(@, "failed")]
<1>0. /\ exec \in Executions /\ clock \in Nat /\ faults \in Nat /\ db \in Tables
      /\ TypeOK /\ Safe /\ RowsAgree(db)
  BY DEF IInv, TypeOK, Safe, Executions
<1>1. UNCHANGED <<gated, task, turn, access, effects, stop, clock>>
  BY DEF Complete, outside
<1>2. CASE Continues(w, AfterError(w))
  <2>1. Unheld /\ db' = db /\ faults' \in Nat
    BY <1>0, <1>2, ContinuesUnheld, ErrorPcs
  <2>2. TypeOK'
    BY <1>0, <1>1, <2>1 DEF TypeOK, Unheld, Executions
  <2> QED
    BY <1>0, <1>1, <2>1, <2>2, QuietSafe DEF IInv
<1>3. CASE /\ At(w, "uncertain") /\ Recoverable(fence)
           /\ Transact(Uncertain(db), w, AfterDispatch(w), AfterError(w))
  <2>1. Unheld /\ db' \in {db, Uncertain(db)} /\ faults' \in Nat
    BY <1>0, <1>3, TransactUnheld, ErrorPcs
  <2>2. Safe' /\ db' \in Tables
    BY <1>0, <1>1, <1>3, <2>1, QuietSafe, UncertainSafe DEF TypeOK
  <2> QED
    BY <1>0, <1>1, <2>1, <2>2 DEF IInv, TypeOK, Unheld, Executions
<1>4. ASSUME NEW new \in {Succeeded, failed}, Completable(fence),
             new = Succeeded => At(w, "succeeding"), new = failed => At(w, "failing"),
             Transact(new, w, AfterDispatch(w), AfterError(w))
      PROVE  IInv'
  <2>1. Unheld /\ exec'[w].pc \notin Active /\ db' \in {db, new} /\ faults' \in Nat
    BY <1>0, <1>4, TransactUnheld, ErrorPcs
  <2>2. /\ db.command.state = "claimed" /\ db.invocation.state = "claimed"
        /\ db.run = "running"
    BY <1>4 DEF Completable, CommandClaimed, InvocationClaimed
  <2>3. exec[w].pc \in Active
    BY <1>4 DEF At, Active
  <2>4. \A v \in Workers : exec'[v].pc # "claimed"
    BY <1>0, <2>1, <2>3 DEF Safe, OneHolder, Unheld, Active
  <2>5. CASE db' = db
    <3>1. TypeOK'
      BY <1>0, <1>1, <2>1, <2>5 DEF TypeOK, Unheld, Executions
    <3> QED
      BY <1>0, <1>1, <2>1, <2>5, <3>1, QuietSafe DEF IInv
  <2>6. CASE db' = new
    <3>1. /\ new \in Tables /\ new.command.state = new.invocation.state
          /\ new.command.state \in {"succeeded", "failed"}
          /\ new.run = db.run /\ new.approval = db.approval
          /\ new.deliveries = db.deliveries + 1
      BY <1>0, <1>4, SucceededFields, FailedFields
    <3>2. /\ new.invocation.state = "succeeded" => effects = 1
          /\ new.invocation.state = "failed" => effects = 0
      BY <1>0, <1>4, SucceededFields, FailedFields DEF At, Safe, OneHolder
    <3>3. RowsAgree(db)'
      <4>1. db.deliveries = 0 /\ db.approval # "pending"
        BY <1>0, <2>2 DEF RowsAgree
      <4>2. RowsAgree(new)
        BY <1>0, <2>2, <3>1, <4>1 DEF RowsAgree, Unstarted, Terminal
      <4> QED
        BY <1>1, <2>6, <4>2 DEF RowsAgree
    <3>4. StopFences'
      BY <1>0, <1>1, <2>2, <2>6, <3>1 DEF Safe, StopFences
    <3>5. db'.command.state \notin Unstarted
      BY <2>6, <3>1 DEF Unstarted
    <3>6. Safe'
      BY <1>0, <1>1, <2>1, <2>4, <2>6, <3>2, <3>3, <3>4, <3>5, WriteSafe
    <3>7. TypeOK'
      BY <1>0, <1>1, <2>1, <2>6, <3>1 DEF TypeOK, Unheld, Executions
    <3> QED
      BY <3>6, <3>7 DEF IInv
  <2> QED
    BY <2>1, <2>5, <2>6
<1>5. Succeeded # failed
  BY <1>0, SucceededFields, FailedFields
<1> QED
  BY <1>2, <1>3, <1>4, <1>5 DEF Complete

LEMMA RecoverStep ==
    ASSUME IInv, NEW w \in Workers, Recover(w)
    PROVE  IInv'
<1> DEFINE new == [db EXCEPT !.run = "recovery_required"]
<1>0. /\ exec \in Executions /\ clock \in Nat /\ faults \in Nat /\ db \in Tables
      /\ TypeOK /\ Safe /\ RowsAgree(db)
  BY DEF IInv, TypeOK, Safe, Executions
<1>1. UNCHANGED <<gated, task, turn, access, effects, stop, clock>>
  BY DEF Recover, outside
<1>2. {"throw", "finish"} \subseteq Pcs \ Active
  BY DEF Pcs, Active
<1>3. /\ Unheld /\ faults' \in Nat
      /\ db' = db \/ (db' = new /\ db.run = "running")
  <2>1. CASE Continues(w, "finish") \/ Continues(w, "throw")
    BY <1>0, <1>2, <2>1, ContinuesUnheld
  <2>2. CASE db.run = "running" /\ Transact(new, w, "finish", "throw")
    <3> HIDE DEF new
    <3> QED
      BY <1>0, <1>2, <2>2, TransactUnheld
  <2> QED
    BY <2>1, <2>2 DEF Recover, RecoverySources
<1>4. CASE db' = db
  <2>1. TypeOK'
    BY <1>0, <1>1, <1>3, <1>4 DEF TypeOK, Unheld, Executions
  <2> QED
    BY <1>0, <1>1, <1>3, <1>4, <2>1, QuietSafe DEF IInv
<1>5. CASE db' = new /\ db.run = "running"
  <2>1. /\ new \in Tables /\ new.run = "recovery_required"
        /\ new.invocation = db.invocation /\ new.command = db.command
        /\ new.approval = db.approval /\ new.deliveries = db.deliveries
    BY <1>0 DEF Tables
  <2>2. RowsAgree(new)
    BY <1>0, <1>5, <2>1 DEF RowsAgree
  <2>3. RowsAgree(db)'
    BY <1>1, <1>5, <2>2 DEF RowsAgree
  <2>4. StopFences'
    BY <1>0, <1>1, <1>5 DEF Safe, StopFences
  <2>5. Safe'
    BY <1>0, <1>1, <1>3, <1>5, <2>1, <2>3, <2>4, WriteSafe
  <2>6. TypeOK'
    BY <1>0, <1>1, <1>3, <1>5, <2>1 DEF TypeOK, Unheld, Executions
  <2> QED
    BY <2>5, <2>6 DEF IInv
<1> QED
  BY <1>3, <1>4, <1>5

(* The owner's answer: approval makes the call ready, anything else fails it. *)
LEMMA RespondStep ==
    ASSUME IInv, Respond
    PROVE  IInv'
<1> DEFINE approved == [db EXCEPT !.approval = "approved", !.run = "running",
                                  !.invocation.state = "ready"]
<1>0. /\ exec \in Executions /\ clock \in Nat /\ faults \in Nat /\ db \in Tables
      /\ TypeOK /\ Safe /\ RowsAgree(db)
  BY DEF IInv, TypeOK, Safe, Executions
<1>1. /\ UNCHANGED <<gated, task, turn, access, effects, stop, clock, exec, faults>>
      /\ db.run = "waiting" /\ db.approval = "pending"
  BY DEF Respond, outside
<1>2. db.invocation.state = "awaiting" /\ db.command.state = "none"
  BY <1>1, RejectedAgrees
<1>3. effects = 0 /\ \A v \in Workers : exec[v].pc \notin Active
  BY <1>0, <1>2 DEF Safe, OneHolder, Unstarted
<1>4. PICK new : /\ db' = new
                 /\ new = approved \/ \E outcome \in {"denied", "expired"} :
                                            new = Rejected(db, outcome)
  BY DEF Respond
<1>5. /\ new \in Tables /\ RowsAgree(new) /\ new.run = "running"
      /\ new.command = db.command /\ new.invocation.state \in {"ready", "failed"}
  <2>1. CASE new = approved
    <3>0. db.invocation \in [state : InvocationStates, fence : Nat, until : Nat]
      BY <1>0 DEF Tables
    <3>1. /\ new \in Tables /\ new.invocation.state = "ready" /\ new.run = "running"
          /\ new.approval = "approved" /\ new.command = db.command
          /\ new.deliveries = db.deliveries
      BY <1>0, <2>1, <3>0 DEF Tables, InvocationStates
    <3> QED
      BY <1>0, <1>2, <3>1 DEF RowsAgree, Unstarted, Terminal
  <2>2. CASE \E outcome \in {"denied", "expired"} : new = Rejected(db, outcome)
    BY <1>0, <1>1, <2>2, RejectedFields, RejectedAgrees
  <2> QED
    BY <1>4, <2>1, <2>2
<1>6. Unheld
  BY <1>0, <1>1 DEF Unheld
<1>7. RowsAgree(db)'
  BY <1>1, <1>4, <1>5 DEF RowsAgree
<1>8. StopFences'
  BY <1>0, <1>1, <1>4, <1>5 DEF Safe, StopFences
<1>9. \A v \in Workers : exec'[v].pc # "claimed"
  BY <1>1, <1>3 DEF Active
<1>10. Safe'
  BY <1>0, <1>1, <1>2, <1>3, <1>4, <1>5, <1>6, <1>7, <1>8, <1>9, WriteSafe DEF Unstarted
<1>11. TypeOK'
  BY <1>0, <1>1, <1>4, <1>5 DEF TypeOK, Executions
<1> QED
  BY <1>10, <1>11 DEF IInv

(* Withdrawn permission and time.                                           *)
LEMMA WorldStep ==
    ASSUME IInv, LoseAccess \/ Tick
    PROVE  IInv'
<1>0. exec \in Executions /\ clock \in Nat /\ faults \in Nat /\ TypeOK /\ Safe
  BY DEF IInv, TypeOK, Executions
<1>1. UNCHANGED <<gated, db, task, turn, effects, stop, exec>>
  BY DEF LoseAccess, Tick
<1>2. clock' \in Nat /\ clock' >= clock
  BY <1>0 DEF LoseAccess, Tick
<1>3. Unheld
  BY <1>0, <1>1 DEF Unheld
<1>4. TypeOK'
  BY <1>0, <1>1, <1>2 DEF TypeOK, LoseAccess, Tick
<1> QED
  BY <1>0, <1>1, <1>2, <1>3, <1>4, QuietSafe DEF IInv

(* Stop's transactions on the run, and its publication.                     *)
LEMMA StopStep ==
    ASSUME IInv, StopAdmit \/ StopPublish \/ StopCancelsTask \/ StopFinalize
    PROVE  IInv'
<1>0. /\ exec \in Executions /\ clock \in Nat /\ db \in Tables
      /\ TypeOK /\ Safe /\ RowsAgree(db)
  BY DEF IInv, TypeOK, Safe, Executions
<1>1. UNCHANGED <<gated, access, effects, clock, exec, faults>>
  BY DEF StopAdmit, StopPublish, StopCancelsTask, StopFinalize
<1>2. /\ db' \in Tables /\ db'.invocation = db.invocation /\ db'.command = db.command
      /\ db'.approval = db.approval /\ db'.deliveries = db.deliveries
  BY <1>0 DEF StopAdmit, StopPublish, StopCancelsTask, StopFinalize, Tables
<1>3. StopFences' /\ RowsAgree(db)'
  <2>1. CASE StopAdmit
    <3>1. stop' = "admitted" /\ db'.run = "cancelling"
      BY <1>0, <2>1 DEF StopAdmit, Tables
    <3> QED
      BY <1>0, <1>1, <1>2, <3>1 DEF StopFences, RowsAgree
  <2>2. CASE StopPublish \/ StopCancelsTask
    BY <1>0, <2>2 DEF StopPublish, StopCancelsTask, Safe, StopFences, RowsAgree
  <2>3. CASE StopFinalize
    <3>1. stop = "cleaned" /\ stop' = "done" /\ db'.run = "cancelled"
      BY <1>0, <2>3 DEF StopFinalize, Tables
    <3>2. db.invocation.state \notin {"awaiting", "ready", "claimed"}
      BY <1>0, <3>1 DEF Safe, StopFences
    <3> QED
      BY <1>0, <1>1, <1>2, <3>1, <3>2 DEF StopFences, RowsAgree
  <2> QED
    BY <2>1, <2>2, <2>3
<1>4. Unheld
  BY <1>0, <1>1 DEF Unheld
<1>5. Safe'
  BY <1>0, <1>1, <1>2, <1>3, <1>4, WriteSafe
<1>6. task' \in Tasks
  BY <1>0 DEF TypeOK, Tasks, StopAdmit, StopPublish, StopCancelsTask, StopFinalize
<1>7. TypeOK'
  BY <1>0, <1>1, <1>2, <1>6
     DEF TypeOK, Tasks, StopAdmit, StopPublish, StopCancelsTask, StopFinalize
<1> QED
  BY <1>5, <1>7 DEF IInv

(* Cleanup closes only what no execution can still use.                     *)
LEMMA CleanupStep ==
    ASSUME IInv, StopCleanup
    PROVE  IInv'
<1>0. /\ exec \in Executions /\ clock \in Nat /\ db \in Tables
      /\ TypeOK /\ Safe /\ RowsAgree(db)
  BY DEF IInv, TypeOK, Safe, Executions
<1>1. /\ UNCHANGED <<gated, turn, task, access, effects, clock, exec, faults>>
      /\ db' = Cancelled(db) /\ stop = "cleaning" /\ stop' \in {"cleaning", "cleaned"}
      /\ stop' = "cleaned" => db'.invocation.state # "claimed"
  BY DEF StopCleanup
<1>2. db' \in Tables /\ db'.run = db.run /\ db'.command = db.command
  BY <1>0, <1>1, CancelledFields
<1>3. Unheld
  BY <1>0, <1>1 DEF Unheld
<1>4. StopFences'
  <2>1. db'.run = "cancelling"
    BY <1>0, <1>1, <1>2 DEF Safe, StopFences
  <2>2. db'.invocation.state \notin {"awaiting", "ready"}
    BY <1>0, <1>1, CancelledFields
  <2> QED
    BY <1>1, <2>1, <2>2 DEF StopFences
<1>5. Safe'
  <2>1. CASE db' = db
    <3>1. RowsAgree(db)'
      BY <1>0, <1>1, <2>1 DEF RowsAgree
    <3> QED
      BY <1>0, <1>1, <1>3, <1>4, <2>1, <3>1, WriteSafe
  <2>2. CASE /\ db.invocation.state = "claimed" /\ db.invocation.until <= clock
             /\ db'.invocation.state = "recovery_required"
             /\ db'.approval = db.approval /\ db'.deliveries = db.deliveries
    <3>1. RowsAgree(db)'
      BY <1>0, <1>1, <1>2, <2>2 DEF RowsAgree, Unstarted, Terminal
    <3>2. \/ db'.command.state = "recovery_required"
          \/ \A v \in Workers : exec'[v].pc = "claimed" => exec'[v].until <= clock
      BY <1>0, <1>1, <1>2, <2>2 DEF Safe, ClaimSaved
    <3> QED
      BY <1>0, <1>1, <1>2, <1>3, <1>4, <2>2, <3>1, <3>2, WriteSafe
  <2>3. CASE /\ db.invocation.state \in {"awaiting", "ready"}
             /\ db'.invocation.state = "failed"
             /\ db'.approval = IF db.approval = "pending" THEN "cancelled" ELSE db.approval
             /\ db'.deliveries = db.deliveries + 1
    <3>1. db.command.state \in Unstarted /\ db.deliveries = 0
      BY <1>0, <2>3 DEF RowsAgree, Unstarted, Terminal, Tables
    <3>2. effects = 0 /\ \A v \in Workers : exec'[v].pc # "claimed"
      BY <1>0, <1>1, <3>1 DEF Safe, OneHolder, Active
    <3>3. db'.run \notin {"waiting"}
      BY <1>0, <1>1, <1>2 DEF Safe, StopFences
    <3>4. RowsAgree(db)'
      BY <1>0, <1>1, <1>2, <2>3, <3>1, <3>3 DEF RowsAgree, Unstarted, Terminal
    <3> QED
      BY <1>0, <1>1, <1>2, <1>3, <1>4, <2>3, <3>1, <3>2, <3>4, WriteSafe
  <2> QED
    BY <1>0, <1>1, <2>1, <2>2, <2>3, CancelledFields
<1>6. TypeOK'
  BY <1>0, <1>1, <1>2 DEF TypeOK
<1> QED
  BY <1>5, <1>6 DEF IInv

LEMMA Stutter == IInv /\ UNCHANGED vars => IInv'
<1> SUFFICES ASSUME IInv, UNCHANGED vars PROVE IInv'
  OBVIOUS
<1>1. TypeOK'
  BY DEF vars, IInv, TypeOK
<1>2. Unheld
  BY DEF vars, IInv, TypeOK, Unheld, Executions
<1> QED
  BY <1>1, <1>2, QuietSafe DEF vars, IInv, TypeOK

-----------------------------------------------------------------------------
LEMMA StepSafe == IInv /\ [Next]_vars => IInv'
<1> SUFFICES ASSUME IInv, [Next]_vars PROVE IInv'
  OBVIOUS
<1>1. ASSUME NEW w \in Workers, Step(w) \/ LoseClaim(w) PROVE IInv'
  <2>1. CASE Take(w) \/ LoseClaim(w) \/ End(w)
    BY <2>1, EngineStep
  <2>2. CASE Start(w) \/ Advance(w) \/ Read(w) \/ Wait(w) \/ GiveUp(w)
    BY <2>2, ReadingStep
  <2>3. CASE Admit(w)
    BY <2>3, AdmitStep
  <2>4. CASE Claim(w)
    BY <2>4, ClaimStep
  <2>5. CASE Exhaust(w)
    BY <2>5, ExhaustStep
  <2>6. CASE CannotCall(w) \/ Call(w) \/ Answer(w)
    BY <2>6, HolderStep
  <2>7. CASE Complete(w)
    BY <2>7, CompleteStep
  <2>8. CASE Recover(w)
    BY <2>8, RecoverStep
  <2> QED
    BY <1>1, <2>1, <2>2, <2>3, <2>4, <2>5, <2>6, <2>7, <2>8 DEF Step
<1>2. CASE Wake
  <2>1. task \in Tasks /\ TypeOK /\ Safe /\ clock \in Nat
    BY DEF IInv, TypeOK, Tasks
  <2>2. UNCHANGED <<gated, db, turn, access, effects, exec, faults, stop, clock>> /\ task' \in Tasks
    BY <1>2, <2>1 DEF Wake, outside, Tasks
  <2>3. Unheld /\ TypeOK'
    BY <2>1, <2>2 DEF TypeOK, Unheld, Executions, Tasks
  <2> QED
    BY <2>1, <2>2, <2>3, QuietSafe DEF IInv
<1>3. CASE Respond
  BY <1>3, RespondStep
<1>4. CASE LoseAccess \/ Tick
  BY <1>4, WorldStep
<1>5. CASE StopAdmit \/ StopPublish \/ StopCancelsTask \/ StopFinalize
  BY <1>5, StopStep
<1>6. CASE StopCleanup
  BY <1>6, CleanupStep
<1>7. CASE UNCHANGED vars
  BY <1>7, Stutter
<1> QED
  BY <1>1, <1>2, <1>3, <1>4, <1>5, <1>6, <1>7 DEF Next, Stopping

(* The strengthening holds in every reachable state.                        *)
THEOREM Inductive == Spec => []IInv
  BY InitSafe, StepSafe, PTL DEF Spec

(* Whatever the executions, the owner and Stop do, the rows stay in the     *)
(* states their enums name.                                                 *)
THEOREM TypeCorrect == Spec => []TypeOK
<1>1. IInv => TypeOK
  BY DEF IInv
<1> QED
  BY <1>1, Inductive, PTL

(* The provider is called at most once, and for a gated tool only after the *)
(* owner approved, whatever crashes, repeats or expires.                    *)
THEOREM OneEffect == Spec => []OneEffectPerApproval
<1>1. IInv => OneEffectPerApproval
  <2> SUFFICES ASSUME IInv PROVE OneEffectPerApproval
    OBVIOUS
  <2>1. effects \in {0, 1} /\ (effects # 0 => db.command.state \notin Unstarted)
    BY DEF IInv, Safe, Truthful, OneHolder
  <2>2. gated /\ db.command.state \notin Unstarted => db.approval = "approved"
    BY DEF IInv, Safe, RowsAgree
  <2> QED
    BY <2>1, <2>2 DEF OneEffectPerApproval
<1> QED
  BY <1>1, Inductive, PTL

(* A saved result says what happened, and is delivered once.                *)
THEOREM Truth == Spec => []TruthfulResults
<1>1. IInv => TruthfulResults
  BY DEF IInv, Safe, Truthful, RowsAgree, TruthfulResults
<1> QED
  BY <1>1, Inductive, PTL

(* A run waits for its owner exactly while the owner is asked.              *)
THEOREM Pause == Spec => []PausedForAReason
<1>1. IInv => PausedForAReason
  BY DEF IInv, Safe, RowsAgree, PausedForAReason
<1> QED
  BY <1>1, Inductive, PTL

(* After a finished Stop no execution calls the provider, except under a    *)
(* claim that an exhausted task closed before its time.                     *)
THEOREM Quiet == Spec => NoCallAfterStop
<1>1. IInv /\ [Next]_vars =>
        [stop = "done" /\ effects' # effects => db.command.state = "recovery_required"]_vars
  <2> SUFFICES ASSUME IInv, [Next]_vars, stop = "done", effects' # effects
               PROVE  db.command.state = "recovery_required"
    BY DEF vars
  <2>1. PICK w \in Workers : Call(w)
    BY DEF Next, Step, Take, LoseClaim, End, Wake, Start, Advance, Admit, Read, Wait, Claim,
           Exhaust, CannotCall, Answer, Complete, GiveUp, Recover, Respond, LoseAccess,
           StopAdmit, Stopping, StopPublish, StopCancelsTask, StopCleanup, StopFinalize,
           Tick, outside, vars
  <2>2. exec[w].pc = "claimed" /\ clock < exec[w].until - Allowance
    BY <2>1 DEF Call, At, InTime
  <2>3. /\ exec[w].until \in Nat /\ clock \in Nat /\ Allowance \in Nat
    BY ToolAssumption DEF IInv, TypeOK
  <2>4. ~(exec[w].until <= clock)
    BY <2>2, <2>3
  <2>5. db.invocation.state # "claimed"
    BY DEF IInv, Safe, StopFences
  <2> QED
    BY <2>2, <2>4, <2>5 DEF IInv, Safe, ClaimSaved
<1> QED
  BY <1>1, Inductive, PTL DEF Spec, NoCallAfterStop
-----------------------------------------------------------------------------
(* The refinement of ToolCall: every step of the rows maps to one of its    *)
(* steps or to a stutter.                                                   *)

Results == {"succeeded", "failed"}
Shown == <<Allowed, effects > 0, Told, turn>>

(* A write d of the tables that the owner and the model may see: it grants  *)
(* and withdraws no approval, and gives a result only to a call that has    *)
(* none, and then the true one.                                             *)
Faithful(d) ==
    /\ db.approval = "approved" <=> d.approval = "approved"
    /\ \/ d.invocation.state = db.invocation.state
       \/ db.invocation.state \notin Results /\ d.invocation.state \notin Results
       \/ /\ db.invocation.state \notin Results
          /\ d.invocation.state = IF effects > 0 THEN "succeeded" ELSE "failed"

LEMMA SameIsFaithful == Faithful(db)
  BY DEF Faithful

LEMMA FaithfulShown ==
    ASSUME Faithful(db'), UNCHANGED <<gated, effects, turn>>
    PROVE  Promise!Next \/ UNCHANGED Shown
<1>1. UNCHANGED <<Allowed, effects > 0, turn>>
  BY DEF Faithful, Allowed
<1>2. CASE \/ db'.invocation.state = db.invocation.state
           \/ db.invocation.state \notin Results /\ db'.invocation.state \notin Results
  BY <1>1, <1>2 DEF Told, Results, Shown
<1>3. CASE /\ db.invocation.state \notin Results
           /\ db'.invocation.state = IF effects > 0 THEN "succeeded" ELSE "failed"
  <2>1. Told = "nothing" /\ Told' = IF effects > 0 THEN "succeeded" ELSE "failed"
    BY <1>3 DEF Told, Results
  <2>2. Promise!Tell
    BY <1>1, <2>1 DEF Promise!Tell
  <2> QED
    BY <2>2 DEF Promise!Next
<1> QED
  BY <1>2, <1>3 DEF Faithful

(* Nothing is known of the call's outcome before somebody claims it.        *)
LEMMA UnstartedUnmade ==
    ASSUME IInv, db.command.state \in Unstarted
    PROVE  effects = 0
  BY DEF IInv, Safe, OneHolder

LEMMA RejectedIsFaithful ==
    ASSUME IInv, db.run = "waiting", db.approval = "pending",
           NEW outcome \in {"denied", "expired"}
    PROVE  Faithful(Rejected(db, outcome))
<1>1. db \in Tables
  BY DEF IInv, TypeOK
<1>2. db.invocation.state = "awaiting" /\ effects = 0
  BY RejectedAgrees, UnstartedUnmade DEF Unstarted
<1> QED
  BY <1>1, <1>2, RejectedFields DEF Faithful, Results

LEMMA AdmittedIsFaithful ==
    ASSUME IInv, ~Refused(Refreshed)
    PROVE  Faithful(Admitted(Refreshed))
<1>0. db \in Tables /\ RowsAgree(db) /\ gated \in BOOLEAN
  BY DEF IInv, TypeOK, Safe
<1>1. Refreshed.run = "running"
  BY DEF Refused
<1>2. CASE gated /\ Over /\ db.run = "waiting" /\ db.approval = "pending"
  <2>1. Refreshed = Rejected(db, "expired")
    BY <1>2 DEF Refreshed
  <2>2. Admitted(Refreshed) = Refreshed
    BY <1>0, <2>1, RejectedFields DEF Admitted
  <2> QED
    BY <1>2, <2>1, <2>2, RejectedIsFaithful
<1>3. CASE ~(gated /\ Over /\ db.run = "waiting" /\ db.approval = "pending")
  <2>1. Refreshed = db
    BY <1>3 DEF Refreshed
  <2>2. db.invocation \in [state : InvocationStates, fence : Nat, until : Nat]
    BY <1>0 DEF Tables
  <2>3. db.invocation.state = "none" => db.approval = "none"
    BY <1>0 DEF RowsAgree
  <2>4. Admitted(db) # db =>
            /\ db.invocation.state \in {"none", "ready"}
            /\ Admitted(db).invocation.state \in {"awaiting", "ready"}
            /\ \/ Admitted(db).approval = db.approval
               \/ db.invocation.state = "none" /\ Admitted(db).approval = "pending"
    BY <1>0, <2>2 DEF Admitted, Tables
  <2> QED
    BY <2>1, <2>3, <2>4, SameIsFaithful DEF Faithful, Results
<1> QED
  BY <1>2, <1>3

LEMMA UncertainIsFaithful ==
    ASSUME IInv, NEW fence, Recoverable(fence)
    PROVE  Faithful(Uncertain(db))
<1>1. db \in Tables /\ db.invocation.state \in {"claimed", "recovery_required"}
  BY DEF IInv, TypeOK, Recoverable, InvocationClaimed
<1> QED
  BY <1>1, UncertainFields DEF Faithful, Results

LEMMA DeniedIsFaithful ==
    ASSUME IInv, Deniable
    PROVE  Faithful(Fails(db))
<1>1. /\ db \in Tables /\ db.invocation.state = "ready"
      /\ db.command.state \in Unstarted
  BY DEF IInv, TypeOK, Deniable, Claimable, Callable, Unstarted
<1> QED
  BY <1>1, FailsFields, UnstartedUnmade DEF Faithful, Results

LEMMA ClaimedIsFaithful ==
    ASSUME IInv, Dispatchable
    PROVE  Faithful(Claimed)
<1>1. db \in Tables /\ clock \in Nat /\ db.invocation.state = "ready"
  BY DEF IInv, TypeOK, Dispatchable, Callable
<1> QED
  BY <1>1, ClaimedFields DEF Faithful, Results

LEMMA SavedIsFaithful ==
    ASSUME IInv, NEW w \in Workers, Completable(exec[w].fence)
    PROVE  /\ At(w, "succeeding") => Faithful(Succeeded)
           /\ At(w, "failing") => Faithful([Fails(db) EXCEPT !.command = Close(@, "failed")])
<1>1. db \in Tables /\ db.invocation.state = "claimed"
  BY DEF IInv, TypeOK, Completable, InvocationClaimed
<1>2. /\ At(w, "succeeding") => effects = 1
      /\ At(w, "failing") => effects = 0
  BY DEF IInv, Safe, OneHolder, At
<1> QED
  BY <1>1, <1>2, SucceededFields, FailedFields DEF Faithful, Results

LEMMA CancelledIsFaithful ==
    ASSUME IInv
    PROVE  Faithful(Cancelled(db))
<1>1. db \in Tables /\ RowsAgree(db)
  BY DEF IInv, TypeOK, Safe
<1>2. db.invocation.state \in {"awaiting", "ready"} => db.command.state \in Unstarted
  BY <1>1 DEF RowsAgree, Tables, Unstarted, Terminal
<1>3. db.invocation.state \in {"awaiting", "ready"} => effects = 0
  BY <1>2, UnstartedUnmade
<1>4. CASE Cancelled(db) = db
  BY <1>4, SameIsFaithful
<1>5. CASE Cancelled(db) # db
  BY <1>1, <1>3, <1>5, CancelledFields DEF Faithful, Results
<1> QED
  BY <1>4, <1>5

LEMMA TransactFaithful ==
    ASSUME NEW w, NEW new, NEW next, NEW caught, Faithful(new),
           Transact(new, w, next, caught)
    PROVE  Faithful(db')
<1>1. db' = new \/ db' = db
  BY DEF Transact
<1> QED
  BY <1>1, SameIsFaithful

-----------------------------------------------------------------------------
(* The steps of the handlers and of Stop that write the tables.             *)
LEMMA WritingFaithful ==
    ASSUME IInv, NEW w \in Workers,
           Admit(w) \/ Claim(w) \/ Exhaust(w) \/ Complete(w) \/ Recover(w)
    PROVE  Faithful(db')
<1>0. Continues(w, "advance") \/ Continues(w, "throw") \/ Continues(w, "give_up")
         \/ Continues(w, "finish") \/ Continues(w, AfterError(w)) => Faithful(db')
  BY SameIsFaithful DEF Continues
<1>1. CASE Admit(w)
  <2>1. CASE Refused(Refreshed)
    BY <1>0, <1>1, <2>1 DEF Admit
  <2>2. CASE ~Refused(Refreshed)
    <3>1. Transact(Admitted(Refreshed), w, "read", "sleep")
      BY <1>1, <2>2 DEF Admit
    <3> QED
      BY <2>2, <3>1, AdmittedIsFaithful, TransactFaithful
  <2> QED
    BY <2>1, <2>2
<1>2. CASE Claim(w)
  <2>1. CASE Interrupted /\ Transact(Uncertain(db), w, "advance", AfterError(w))
    <3>1. Faithful(Uncertain(db))
      BY <2>1, UncertainIsFaithful DEF Interrupted
    <3> QED
      BY <2>1, <3>1, TransactFaithful
  <2>2. CASE Deniable /\ Transact(Fails(db), w, "advance", AfterError(w))
    BY <2>2, DeniedIsFaithful, TransactFaithful
  <2>3. CASE Dispatchable /\ db' \in {db, Claimed}
    BY <2>3, ClaimedIsFaithful, SameIsFaithful
  <2> QED
    BY <1>0, <1>2, <2>1, <2>2, <2>3 DEF Claim
<1>3. CASE Exhaust(w)
  BY <1>0, <1>3, UncertainIsFaithful, TransactFaithful DEF Exhaust
<1>4. CASE Complete(w)
  <2>1. CASE /\ At(w, "succeeding") /\ Completable(exec[w].fence)
             /\ Transact(Succeeded, w, AfterDispatch(w), AfterError(w))
    BY <2>1, SavedIsFaithful, TransactFaithful
  <2>2. CASE /\ At(w, "failing") /\ Completable(exec[w].fence)
             /\ Transact([Fails(db) EXCEPT !.command = Close(@, "failed")],
                         w, AfterDispatch(w), AfterError(w))
    BY <2>2, SavedIsFaithful, TransactFaithful
  <2>3. CASE /\ At(w, "uncertain") /\ Recoverable(exec[w].fence)
             /\ Transact(Uncertain(db), w, AfterDispatch(w), AfterError(w))
    BY <2>3, UncertainIsFaithful, TransactFaithful
  <2> QED
    BY <1>0, <1>4, <2>1, <2>2, <2>3 DEF Complete
<1>5. CASE Recover(w)
  <2>1. db \in Tables
    BY DEF IInv, TypeOK
  <2>2. Faithful([db EXCEPT !.run = "recovery_required"])
    BY <2>1 DEF Faithful, Tables
  <2> QED
    BY <1>0, <1>5, <2>2, TransactFaithful DEF Recover
<1> QED
  BY <1>1, <1>2, <1>3, <1>4, <1>5

LEMMA StoppingFaithful ==
    ASSUME IInv, StopAdmit \/ StopCleanup \/ StopFinalize
    PROVE  Faithful(db')
<1>1. db \in Tables
  BY DEF IInv, TypeOK
<1>2. CASE StopAdmit \/ StopFinalize
  BY <1>1, <1>2 DEF StopAdmit, StopFinalize, Faithful, Tables
<1>3. CASE StopCleanup
  BY <1>3, CancelledIsFaithful DEF StopCleanup
<1> QED
  BY <1>2, <1>3

(* The steps that are seen: the owner's answer, the call, the result's use  *)
(* and the turn's end.                                                      *)
LEMMA RespondShown ==
    ASSUME IInv, Respond
    PROVE  Promise!Next \/ UNCHANGED Shown
<1>1. /\ UNCHANGED <<gated, effects, turn>>
      /\ db.run = "waiting" /\ db.approval = "pending" /\ db \in Tables
  BY DEF Respond, outside, IInv, TypeOK
<1>2. CASE \E outcome \in {"denied", "expired"} : db' = Rejected(db, outcome)
  <2>1. Faithful(db')
    BY <1>1, <1>2, RejectedIsFaithful
  <2> QED
    BY <1>1, <2>1, FaithfulShown
<1>3. CASE db' = [db EXCEPT !.approval = "approved", !.run = "running",
                            !.invocation.state = "ready"]
  <2>1. db.invocation.state = "awaiting" /\ effects = 0
    BY <1>1, RejectedAgrees, UnstartedUnmade DEF Unstarted
  <2>2. db.invocation \in [state : InvocationStates, fence : Nat, until : Nat]
    BY <1>1 DEF Tables
  <2>3. db'.approval = "approved" /\ db'.invocation.state = "ready"
    BY <1>1, <1>3, <2>2 DEF Tables
  <2>4. Told = "nothing" /\ Told' = "nothing" /\ Allowed'
    BY <2>1, <2>3 DEF Told, Allowed
  <2>5. CASE gated
    <3>1. ~Allowed
      BY <1>1, <2>5 DEF Allowed
    <3>2. Promise!Approve
      BY <1>1, <2>1, <2>4, <3>1 DEF Promise!Approve, Promise!Undecided
    <3> QED
      BY <3>2 DEF Promise!Next
  <2>6. CASE ~gated
    BY <1>1, <2>4, <2>6 DEF Allowed, Shown
  <2> QED
    BY <2>5, <2>6
<1> QED
  BY <1>2, <1>3 DEF Respond

LEMMA CallShown ==
    ASSUME IInv, NEW w \in Workers, Call(w)
    PROVE  Promise!Next
<1>1. /\ exec[w].pc = "claimed" /\ effects' = effects + 1
      /\ UNCHANGED <<gated, db, turn>>
  BY DEF Call, At, Continues
<1>2. effects = 0 /\ db.command.state \notin Unstarted
  BY <1>1 DEF IInv, Safe, OneHolder, Active
<1>3. db.invocation.state \notin Results
  BY <1>1, <1>2 DEF IInv, Safe, Truthful, Results
<1>4. Allowed
  BY <1>2 DEF IInv, TypeOK, Safe, RowsAgree, Allowed
<1>5. Told = "nothing" /\ UNCHANGED <<Allowed, Told, turn>>
  BY <1>1, <1>3 DEF Told, Allowed, Results
<1>6. Promise!Make
  BY <1>1, <1>2, <1>4, <1>5 DEF Promise!Make, Promise!Undecided
<1> QED
  BY <1>6 DEF Promise!Next

LEMMA TurnShown ==
    ASSUME IInv, NEW w, Read(w) \/ GiveUp(w) \/ StopPublish
    PROVE  Promise!Next \/ UNCHANGED Shown
<1>1. UNCHANGED <<gated, db, effects>>
  BY DEF Read, GiveUp, StopPublish, Continues, outside
<1>2. UNCHANGED <<Allowed, effects > 0, Told>>
  BY <1>1 DEF Allowed, Told
<1>3. CASE turn' = turn
  BY <1>2, <1>3 DEF Shown
<1>4. CASE turn' # turn /\ Read(w)
  <2>1. turn = "open" /\ turn' = "resulted" /\ db.invocation.state \in Results
    BY <1>4 DEF Read, Results
  <2>2. Told # "nothing"
    BY <2>1 DEF Told, Results
  <2>3. Promise!Use
    BY <1>2, <2>1, <2>2 DEF Promise!Use
  <2> QED
    BY <2>3 DEF Promise!Next
<1>5. CASE turn' # turn /\ (GiveUp(w) \/ StopPublish)
  <2>1. turn # "cancelled" /\ turn' \in {"unavailable", "cancelled"}
    BY <1>5 DEF GiveUp, StopPublish
  <2>2. Promise!Leave
    BY <1>2, <2>1 DEF Promise!Leave
  <2> QED
    BY <2>2 DEF Promise!Next
<1> QED
  BY <1>3, <1>4, <1>5

LEMMA StepShown ==
    ASSUME IInv, [Next]_vars
    PROVE  Promise!Next \/ UNCHANGED Shown
<1>0. UNCHANGED <<gated, db, effects, turn>> => UNCHANGED Shown
  BY DEF Shown, Allowed, Told
<1>1. ASSUME NEW w \in Workers, Step(w) \/ LoseClaim(w)
      PROVE  Promise!Next \/ UNCHANGED Shown
  <2>1. CASE Take(w) \/ LoseClaim(w) \/ End(w) \/ Start(w) \/ Advance(w) \/ Wait(w)
             \/ CannotCall(w) \/ Answer(w)
    BY <1>0, <2>1 DEF Take, LoseClaim, End, Start, Advance, Wait, CannotCall, Answer,
                      Continues, outside
  <2>2. CASE Admit(w) \/ Claim(w) \/ Exhaust(w) \/ Complete(w) \/ Recover(w)
    <3>1. UNCHANGED <<gated, effects, turn>>
      BY <2>2 DEF Admit, Claim, Exhaust, Complete, Recover, outside
    <3> QED
      BY <2>2, <3>1, WritingFaithful, FaithfulShown
  <2>3. CASE Call(w)
    BY <2>3, CallShown
  <2>4. CASE Read(w) \/ GiveUp(w)
    BY <2>4, TurnShown
  <2> QED
    BY <1>1, <2>1, <2>2, <2>3, <2>4 DEF Step
<1>2. CASE Respond
  BY <1>2, RespondShown
<1>3. CASE StopAdmit \/ StopCleanup \/ StopFinalize
  <2>1. UNCHANGED <<gated, effects, turn>>
    BY <1>3 DEF StopAdmit, StopCleanup, StopFinalize
  <2> QED
    BY <1>3, <2>1, StoppingFaithful, FaithfulShown
<1>4. CASE StopPublish
  BY <1>4, TurnShown
<1>5. CASE Wake \/ LoseAccess \/ StopCancelsTask \/ Tick \/ UNCHANGED vars
  BY <1>0, <1>5 DEF Wake, LoseAccess, StopCancelsTask, Tick, vars, outside
<1> QED
  BY <1>1, <1>2, <1>3, <1>4, <1>5 DEF Next, Stopping

(* The executions, their attempts and their transactions keep the promise   *)
(* of one call, whatever fails or repeats itself.                           *)
THEOREM ToolCallImplemented == Spec => ImplementsToolCall
<1>1. Init => Promise!Init
  BY DEF Init, Promise!Init, Allowed, Told, Unclaimed
<1>2. IInv /\ [Next]_vars => [Promise!Next]_Shown
  BY StepShown
<1>3. IInv /\ [Next]_vars => [Promise!Next]_<<Allowed, effects > 0, Told, turn>>
  BY <1>2 DEF Shown
<1> QED
  BY <1>1, <1>3, Inductive, PTL DEF Spec, ImplementsToolCall, Promise!Spec
=============================================================================
