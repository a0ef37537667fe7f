--------------------------- MODULE ConversationTurn ---------------------------
(***************************************************************************)
(* One conversation-computer turn, executed by several concurrent or       *)
(* successive executions of its durable workflow task, raced by Stop, by   *)
(* other writers of the conversation and by time.                          *)
(*                                                                         *)
(* Every await on shared state is a step.  A write to the turn stream is a *)
(* load with the reducer's guard, a conditional append at the revision     *)
(* that was loaded, and a readback; between them anything may happen.      *)
(* A worker that sleeps or waits for an event returns to "advance", from   *)
(* where it wakes at any time: the handlers re-read the stream on waking.  *)
(*                                                                         *)
(* Abstracted: the compiled input, payload custody and notifications; the  *)
(* attempt credential lives as long as the run's deadline.                 *)
(***************************************************************************)
EXTENDS TurnProtocol, FiniteSets

CONSTANTS
    Workers,          \* concurrent or successive executions of the turn's task
    DispatchWindow,   \* the 25 seconds a reserved request may take
    Gated,            \* the requests whose selected tool needs the owner's approval
    MaxHead,          \* bound on revisions of the conversation stream
    MaxFaults         \* bound on crashes, lost or failed appends and lost leases

ASSUME WindowAssumption == DispatchWindow \in Nat \ {0} /\ MaxHead \in Nat /\ MaxFaults \in Nat

VARIABLES
    turn,        \* the projection of the turn stream in KurrentDB
    settled,     \* the active-turn pointer was released
    head,        \* revision of the participant conversation stream
    run,         \* AgentRun.state in PostgreSQL
    lease,       \* the computer's lease generation is current
    declared,    \* ordinals whose tool declaration is in private custody
    invocation,  \* the IAM tool invocation of each proposal, with the instant its
                 \* claim lapses or its result may no longer be used
    now,         \* the clock
    worker,      \* each execution: where it is and what it holds
    stop,        \* the Stop workflow
    faults,      \* faults spent
    paid         \* history: how often each reserved request was forwarded

vars == <<turn, settled, head, run, lease, declared, invocation, now, worker, stop, faults, paid>>

Ordinals == 1..MaxModelTurns
Proposal(ordinal) == <<None, ordinal>>
AllowanceSource == <<None, 0>>
StopCommand == <<None, -1>>

(* No identity or instant is mistaken for null.                             *)
ASSUME NullAssumption ==
    /\ None \notin Nat /\ None \notin Workers \X Ordinals
    /\ \A ordinal \in Ordinals : None # Proposal(ordinal)
    /\ None # StopCommand /\ None \notin {"model", "tool", "allowance"}

NotAdmitted == [state |-> "none", notAfter |-> 0]

(* What one execution holds between two awaits: the store operation under   *)
(* way, the revision it loaded and the event, receipt or request in hand.   *)
At(pc) == [pc |-> pc, op |-> None, at |-> 0, held |-> None]

Init ==
    /\ turn = InitialProtocol /\ settled = FALSE /\ head = 0
    /\ run = "accepted" /\ lease = TRUE
    /\ declared = {} /\ invocation = [p \in Ordinals |-> NotAdmitted]
    /\ now = 0
    /\ worker = [w \in Workers |-> At("start")]
    /\ stop = [pc |-> "idle", at |-> 0, head |-> 0]
    /\ faults = 0 /\ paid = [o \in Ordinals |-> 0]

Goto(w, pc) == worker' = [worker EXCEPT ![w] = At(pc)]
Hold(w, pc, held) == worker' = [worker EXCEPT ![w] = [At(pc) EXCEPT !.held = held]]
Held(w) == worker[w].held
In(w, pc) == worker[w].pc = pc

External == <<settled, head, run, lease, invocation, stop, now>>

-----------------------------------------------------------------------------
(* Deriving what to do next from a loaded projection.                      *)

(* Mutant: the last token may go to a request that offers a tool.           *)
MaySelectForTheLastToken(p) ==
    /\ MaxModelTurns - p.calls > 1 /\ MaxCompletionTokens - p.tokens > 0
    /\ p.tools < MaxToolInvocations /\ CyclesFed(p) < MaxLoopIterations

(* _NextReservation: the one request the remaining allowance still admits.  *)
MaySelect(p) ==
    /\ MaxModelTurns - p.calls > 1 /\ MaxCompletionTokens - p.tokens > 1
    /\ p.tools < MaxToolInvocations /\ CyclesFed(p) < MaxLoopIterations

CanPropose(p) ==
    /\ p.calls < MaxModelTurns /\ p.tokens < MaxCompletionTokens
    /\ LatestAuthority(p) > now

NextReservation(w, p) == [
    ordinal |-> p.calls + 1, fence |-> <<w, p.calls + 1>>, select |-> MaySelect(p),
    tokens |-> (MaxCompletionTokens - p.tokens) \div (IF MaySelect(p) THEN 2 ELSE 1),
    authority |-> LatestAuthority(p),
    deadline |-> Lesser(LatestAuthority(p), now + DispatchWindow),
    history |-> HistoryDigest(p.steps) ]

Propose(w) ==
    IF ~lease THEN Goto(w, "ended")
    ELSE IF CanPropose(turn) THEN Hold(w, "reserve", NextReservation(w, turn))
    ELSE Goto(w, "unavailable")

(* The send right of the request that is reserved now.                      *)
Delivery == [
    fence |-> Last(turn).fence, nonce |-> CurrentNonce(turn), ordinal |-> Len(turn.steps),
    select |-> Last(turn).select, deadline |-> Last(turn).deadline ]

(* Mutants: a reservation that is read back is sent again; it is waited for *)
(* beyond its deadline.                                                     *)
AwaitByDispatching(w, deadline) ==
    IF now < deadline /\ turn.state = "model_reserved" THEN Hold(w, "dispatch", Delivery)
    ELSE Goto(w, IF now < deadline THEN "advance" ELSE "unavailable")

AwaitForever(w, deadline) == Goto(w, "advance")

(* _ConversationModelReservationStatus: wait, or give the request up.       *)
AwaitRequest(w, deadline) ==
    Goto(w, IF now < deadline THEN "advance" ELSE "unavailable")

(* _ConversationModelRetryStatus of a turn that waits for a retry.          *)
AwaitRetry(w, ready) ==
    Goto(w, IF now >= Last(turn).deadline \/ Len(turn.rejections) > MaxRetries
            THEN "unavailable"
            ELSE IF now >= turn.rejections[Len(turn.rejections)].retryAt THEN ready
            ELSE "advance")

-----------------------------------------------------------------------------
(* The task's admission and the head of the advance loop.                  *)

(* The states in which each lifecycle event of the run is accepted; the     *)
(* mutant enters recovery from any state.                                   *)
UnfencedLifecycle == [
    start    |-> {"accepted", "running", "recovery_required"},
    recover  |-> {"running", "recovery_required", "cancelling", "cancelled", "completed"},
    complete |-> {"running", "completed"} ]

Lifecycle == [
    start    |-> {"accepted", "running", "recovery_required"},
    recover  |-> {"running", "recovery_required"},
    complete |-> {"running", "completed"} ]

(* start(): recover output, end on cancellation, or move the run to Running.*)
(* The turn that loadActive returned and the run it may start are one step; *)
(* a run that cannot start fails the task's attempt, which is made again.   *)
Start(w) ==
    /\ In(w, "start")
    /\ CASE settled \/ turn.state = "cancelled" -> Goto(w, "ended") /\ UNCHANGED run
         [] turn.output # None -> Goto(w, "finish") /\ UNCHANGED run
         [] turn.state = "response_unavailable" -> Goto(w, "advance") /\ UNCHANGED run
         [] OTHER -> /\ lease /\ run \in Lifecycle.start
                     /\ Goto(w, "advance")
                     /\ run' = IF run = "accepted" THEN "running" ELSE run
    /\ UNCHANGED <<turn, settled, head, lease, declared, invocation, now, stop, faults, paid>>

(* A run that waits for its owner refuses every start, until no attempt of  *)
(* the task is left: nobody works for the turn any more.                    *)
AttemptsSpent(w) ==
    /\ In(w, "start") /\ run = "waiting_for_input"
    /\ ~settled /\ turn.state = "tool_pending"
    /\ Goto(w, "spent")
    /\ UNCHANGED <<turn, declared, External, faults, paid>>

(* advance(): one pass over the saved turn.                                 *)
Advance(w) ==
    /\ In(w, "advance")
    /\ CASE turn.output # None -> Goto(w, "finish")
         [] turn.state = "cancelled" -> Goto(w, "ended")
         [] turn.state = "response_unavailable" -> Goto(w, "recover")
         [] OTHER ->
              IF ~lease THEN Goto(w, "ended")
              ELSE CASE turn.state = "model_retry_waiting" -> AwaitRetry(w, "claim")
                     [] turn.state = "model_reserved" ->
                          IF Len(turn.steps) \in declared
                          THEN Hold(w, "select", [ordinal |-> Len(turn.steps),
                                   fence |-> Last(turn).fence, proposal |-> Proposal(Len(turn.steps))])
                          ELSE AwaitRequest(w, Last(turn).deadline)
                     [] turn.state = "tool_pending" ->
                          Hold(w, "admit", [ordinal |-> Len(turn.steps), fence |-> Last(turn).fence,
                                            proposal |-> Last(turn).proposal])
                     [] OTHER -> Propose(w)
    /\ UNCHANGED <<turn, declared, External, faults, paid>>

-----------------------------------------------------------------------------
(* Store operations: own load and guard, conditional append, readback.     *)

Begin(w, op, held) == worker' = [worker EXCEPT
    ![w] = [pc |-> "append", op |-> op, at |-> turn.revision, held |-> held]]

ReserveModel(w) ==
    /\ In(w, "reserve")
    /\ IF turn.state \notin {"open", "result_ready"}
       THEN AwaitRequest(w, IF HasStep(turn) THEN Last(turn).deadline ELSE Held(w).deadline)
       ELSE IF CanReserveModel(turn, Held(w)) THEN Begin(w, "reserve", Held(w))
       ELSE Goto(w, "caught")
    /\ UNCHANGED <<turn, declared, External, faults, paid>>

RecordRejection(w) ==
    /\ In(w, "reject")
    /\ LET x == [Held(w) EXCEPT !.receivedAt = now] IN
       IF ~lease THEN Goto(w, "ended")
       ELSE IF CanRejectModel(turn, x) THEN Begin(w, "reject", x)
       ELSE Goto(w, "caught")
    /\ UNCHANGED <<turn, declared, External, faults, paid>>

(* _continueModelRetry after its status check, then claimModelRetry.        *)
ClaimRetry(w) ==
    /\ In(w, "claim")
    /\ IF ~lease THEN Goto(w, "ended")
       ELSE IF turn.state # "model_retry_waiting" THEN Goto(w, "advance")
       ELSE IF now >= Last(turn).deadline THEN Goto(w, "caught")
       ELSE LET n == Len(turn.rejections)
                c == [fence |-> Last(turn).fence, retryOrdinal |-> n, claimedAt |-> now,
                      nonce |-> <<w, Len(turn.steps), n>>]
            IN  IF CanClaimRetry(turn, c) THEN Begin(w, "claim", c) ELSE Goto(w, "caught")
    /\ UNCHANGED <<turn, declared, External, faults, paid>>

SelectTool(w) ==
    /\ In(w, "select")
    /\ IF ~lease THEN Goto(w, "ended")
       ELSE IF turn.state # "model_reserved"
       THEN IF HasStep(turn) /\ Last(turn).proposal = Held(w).proposal
            THEN Hold(w, "admit", Held(w)) ELSE Goto(w, "caught")
       ELSE IF CanSelectTool(turn, Held(w)) THEN Begin(w, "select", Held(w))
       ELSE Goto(w, "caught")
    /\ UNCHANGED <<turn, declared, External, faults, paid>>

RecordToolResult(w) ==
    /\ In(w, "record")
    /\ IF ~lease THEN Goto(w, "ended")
       ELSE IF turn.state # "tool_pending"
       THEN IF /\ turn.state = "result_ready" /\ Last(turn).proposal = Held(w).proposal
               /\ Last(turn).result = Held(w).authority
            THEN Propose(w) ELSE Goto(w, "caught")
       ELSE IF CanRecordToolResult(turn, Held(w)) THEN Begin(w, "result", Held(w))
       ELSE Goto(w, "caught")
    /\ UNCHANGED <<turn, declared, External, faults, paid>>

(* The event an append writes, applied to the projection it was checked on. *)
Applied(op, held) ==
    CASE op = "reserve" -> AfterReserveModel(turn, held)
      [] op = "reject"  -> AfterRejectModel(turn, held)
      [] op = "claim"   -> AfterClaimRetry(turn, held)
      [] op = "select"  -> AfterSelectTool(turn, held)
      [] op = "result"  -> AfterRecordToolResult(turn, held)
      [] op = "output"  -> AfterRecordOutput(turn, held)
      [] op = "unavailable" -> AfterMarkUnavailable(turn, held)

(* Mutant: an append does not insist on the revision it was checked at.     *)
UnchangedConversation(w) == worker[w].op = "output" => head = Held(w).head

(* Output commits only together with its participant entries.               *)
Unchanged(w) ==
    /\ turn.revision = worker[w].at
    /\ worker[w].op = "output" => head = Held(w).head

Commit(w) ==
    /\ turn' = Applied(worker[w].op, Held(w))
    /\ head' = IF worker[w].op = "output" THEN head + 1 ELSE head

AppendAcknowledged(w) ==
    /\ In(w, "append") /\ Unchanged(w) /\ Commit(w)
    /\ worker' = [worker EXCEPT ![w].pc = "readback"]
    /\ UNCHANGED <<settled, run, lease, declared, invocation, now, stop, faults, paid>>

(* A revision conflict: a claimant loses without readback, others read back.*)
AppendConflicts(w) ==
    /\ In(w, "append")
    /\ turn.revision # worker[w].at \/ (worker[w].op = "output" /\ head # Held(w).head)
    /\ CASE worker[w].op = "reserve" ->
              AwaitRequest(w, IF HasStep(turn) THEN Last(turn).deadline ELSE Held(w).deadline)
         [] worker[w].op = "claim" -> Goto(w, "advance")
         [] OTHER -> worker' = [worker EXCEPT ![w].pc = "readback"]
    /\ UNCHANGED <<turn, declared, External, faults, paid>>

(* Where an operation's own failure is caught.                              *)
Recovers(op) == IF op = "unavailable" THEN "winner" ELSE "caught"

(* The append fails, or it is stored and its acknowledgement is lost.       *)
AppendFails(w) ==
    /\ In(w, "append") /\ faults < MaxFaults
    /\ faults' = faults + 1
    /\ \/ UNCHANGED <<turn, head>>
       \/ Unchanged(w) /\ Commit(w)
    /\ worker' = [worker EXCEPT ![w] =
          IF @.op = "reject" THEN [@ EXCEPT !.pc = "readback"] ELSE At(Recovers(@.op))]
    /\ UNCHANGED <<settled, run, lease, declared, invocation, now, stop, paid>>

(* Whether the stream now holds what this operation meant to write, and for *)
(* a send right, whether it is still the newest event.                      *)
HoldsWinner(w) ==
    LET held == Held(w)  next == worker[w].at + 1 IN
    CASE worker[w].op = "reserve" ->
            turn.state = "model_reserved" /\ turn.revision = next /\ Last(turn).fence = held.fence
      [] worker[w].op = "claim" ->
            turn.state = "model_reserved" /\ turn.revision = next /\ turn.claim = held
      [] worker[w].op = "reject" -> \E i \in DOMAIN turn.rejections : turn.rejections[i] = held
      [] worker[w].op = "select" -> HasStep(turn) /\ Last(turn).proposal = held.proposal
      [] worker[w].op = "result" ->
            HasStep(turn) /\ Last(turn).proposal = held.proposal /\ Last(turn).result = held.authority
      [] worker[w].op = "output" -> turn.output = held.fence
      [] worker[w].op = "unavailable" ->
            turn.unavailable = held.reason /\ held.ordinal = Len(turn.steps)

Readback(w) ==
    /\ In(w, "readback")
    /\ IF HoldsWinner(w)
       THEN CASE worker[w].op = "claim" -> Hold(w, "dispatch", Delivery)
              [] worker[w].op = "reserve" ->
                   Hold(w, IF Len(turn.steps) > 1 THEN "consume" ELSE "dispatch", Delivery)
              [] worker[w].op = "reject" ->
                   IF turn.state = "model_retry_waiting" THEN AwaitRetry(w, "advance")
                                                         ELSE Goto(w, "advance")
              [] worker[w].op = "select" -> Hold(w, "admit", Held(w))
              [] worker[w].op = "result" ->
                   IF InPhase(turn, "result_ready") THEN Propose(w) ELSE Goto(w, "caught")
              [] worker[w].op = "output" -> Goto(w, "finish_answer")
              [] worker[w].op = "unavailable" ->
                   Goto(w, IF turn.state = "response_unavailable" THEN "recover" ELSE "advance")
       ELSE CASE worker[w].op = "reserve" ->
                   AwaitRequest(w, IF HasStep(turn) THEN Last(turn).deadline ELSE Held(w).deadline)
              [] worker[w].op = "claim" -> Goto(w, "advance")
              [] worker[w].op = "output" /\ turn.output = None -> Hold(w, "prepare", Held(w))
              [] OTHER -> Goto(w, Recovers(worker[w].op))
    /\ UNCHANGED <<turn, declared, External, faults, paid>>

-----------------------------------------------------------------------------
(* Sending a reserved request.                                              *)

(* toolResults.consume: acknowledge the result that the request continues.  *)
ConsumeResult(w) ==
    /\ In(w, "consume")
    /\ IF run = "running" /\ now < Held(w).deadline
       THEN Hold(w, "dispatch", Held(w)) ELSE Goto(w, "caught")
    /\ UNCHANGED <<turn, declared, External, faults, paid>>

(* The last look at the stream before the request leaves the server.        *)
DispatchReservedModel(w) ==
    /\ In(w, "dispatch")
    /\ IF ~lease THEN Goto(w, "ended")
       ELSE IF /\ turn.state = "model_reserved" /\ Last(turn).fence = Held(w).fence
               /\ CurrentNonce(turn) = Held(w).nonce
            THEN IF now < Held(w).deadline THEN Hold(w, "send", Held(w)) ELSE Goto(w, "caught")
       ELSE Goto(w, "advance")
    /\ UNCHANGED <<turn, declared, External, faults, paid>>

Rejection(held, retryAt) == [
    fence |-> held.fence, nonce |-> held.nonce, receivedAt |-> 0,
    retryAt |-> retryAt, credential |-> WallClockDeadline ]

(* The model gateway forwards the request to the paid provider, proves that *)
(* it did not, or nothing is heard of it again.                             *)
Send(w) ==
    /\ In(w, "send")
    /\ \/ /\ paid' = [paid EXCEPT ![Held(w).ordinal] = @ + 1]
          /\ \/ Hold(w, "answer", Held(w))
             \/ Held(w).select /\ Hold(w, "declare", Held(w))
             \/ Goto(w, "caught")
       \/ /\ \E retryAt \in {now, now + 1} :
                retryAt < Held(w).deadline /\ Hold(w, "reject", Rejection(Held(w), retryAt))
          /\ UNCHANGED paid
       \/ Goto(w, "caught") /\ UNCHANGED paid
    /\ UNCHANGED <<turn, declared, External, faults>>

(* A tool declaration is kept only if it arrived in time.                   *)
StoreDeclaration(w) ==
    /\ In(w, "declare")
    /\ IF now >= Held(w).deadline THEN Goto(w, "caught") /\ UNCHANGED declared
       ELSE IF ~lease THEN Goto(w, "ended") /\ UNCHANGED declared
       ELSE /\ declared' = declared \union {Held(w).ordinal}
            /\ Hold(w, "select", [ordinal |-> Held(w).ordinal, fence |-> Held(w).fence,
                                  proposal |-> Proposal(Held(w).ordinal)])
    /\ UNCHANGED <<turn, External, faults, paid>>

-----------------------------------------------------------------------------
(* The selected tool.                                                       *)

(* Mutant: admission looks at the clock but not at the run.                 *)
AdmissibleByClock == now < WallClockDeadline

Admissible == run = "running" /\ now < WallClockDeadline

(* A proposal that is already admitted is admitted again, except that a     *)
(* gated one is refused while it is claimed and kept when it is settled.    *)
Admits(n) ==
    \/ Admissible /\ ~(n \in Gated /\ invocation[n].state \in {"claimed", "recovery_required"})
    \/ n \in Gated /\ run = "running" /\ invocation[n].state = "settled"

(* Admission of a gated tool closes the run's approval when its time is over*)
Overdue(n) == n \in Gated /\ now >= WallClockDeadline /\ run = "waiting_for_input"

Result(notAfter) == [state |-> "settled", notAfter |-> notAfter]

(* The owner did not approve: the call's result is its failure.             *)
Rejects(notAfter) ==
    /\ invocation' = [p \in Ordinals |->
          IF invocation[p].state = "awaiting" THEN Result(notAfter) ELSE invocation[p]]
    /\ run' = "running"

(* A gated tool is first put to the owner, and the run waits; the executor  *)
(* gets it when its approval is admitted.                                   *)
Enters(n) ==
    LET gated == n \in Gated  saved == invocation[n].state IN
    /\ invocation' = [invocation EXCEPT ![n].state =
          IF saved = "none" /\ gated THEN "awaiting"
          ELSE IF saved \in {"none", "approved"} THEN "pending" ELSE @]
    /\ run' = IF saved = "none" /\ gated THEN "waiting_for_input" ELSE run

(* toolProposals.admit, one transaction.                                    *)
AdmitTool(w) ==
    /\ In(w, "admit")
    /\ LET n == Held(w).ordinal IN
       \/ Overdue(n) /\ Rejects(0) /\ Hold(w, "result", Held(w))
       \/ Admits(n) /\ Enters(n) /\ Hold(w, "result", Held(w))
       \/ /\ ~Overdue(n) /\ ~Admits(n)
          /\ Goto(w, "unavailable") /\ UNCHANGED <<invocation, run>>
    /\ UNCHANGED <<turn, settled, head, lease, declared, now, stop, faults, paid>>

(* _ToolStep: the step whose result a read concerns; 0 if there is none.    *)
ToolStep ==
    IF ~HasStep(turn) THEN 0
    ELSE IF Last(turn).phase # "model_reserved" THEN Len(turn.steps) ELSE Len(turn.steps) - 1

(* Mutant: the evidence behind a result does not limit it.                  *)
RequestDeadline(saved, step) == step.authority

ResultDeadline(saved, step) == Lesser(saved.notAfter, step.authority)

Readable(saved) ==
    run = "running" \/ (run = "waiting_for_input" /\ saved.state = "awaiting")

(* A result is released only to the running attempt, within its authority.  *)
ReadToolResult(w) ==
    /\ In(w, "result")
    /\ LET held == Held(w)
           saved == invocation[held.ordinal]
           notAfter == ResultDeadline(saved, turn.steps[held.ordinal])
       IN  IF ToolStep # held.ordinal
           THEN \E pc \in {"unavailable", "caught"} : Goto(w, pc)
           ELSE IF Readable(saved) /\ saved.state = "awaiting" THEN Goto(w, "await")
           ELSE IF Readable(saved) /\ saved.state \in {"approved", "pending", "claimed"}
           THEN Goto(w, "advance")
           ELSE IF Readable(saved) /\ saved.state = "settled" /\ now < notAfter
           THEN Hold(w, "record", [ordinal |-> held.ordinal, proposal |-> held.proposal,
                                   authority |-> notAfter, payload |-> held.ordinal])
           ELSE Goto(w, "unavailable")
    /\ UNCHANGED <<turn, declared, External, faults, paid>>

(* The task sleeps until the owner answers or the time is over; an answer   *)
(* that is there already lets the handler go on.                            *)
AwaitAnswer(w) ==
    /\ In(w, "await")
    /\ \/ run # "waiting_for_input" /\ \E pc \in {"start", "advance"} : Goto(w, pc)
       \/ now >= WallClockDeadline /\ Goto(w, "start")
    /\ UNCHANGED <<turn, declared, External, faults, paid>>

-----------------------------------------------------------------------------
(* Committing the answer.                                                   *)

(* appendOutput loads the turn once; its loop never loads it again.         *)
AppendOutput(w) ==
    /\ In(w, "answer")
    /\ IF turn.output = Held(w).fence /\ turn.output # None THEN Goto(w, "finish_answer")
       ELSE IF turn.state = "model_reserved" /\ Last(turn).fence = Held(w).fence
       THEN Hold(w, "prepare", [ordinal |-> Held(w).ordinal, fence |-> Held(w).fence,
                                deadline |-> Held(w).deadline, head |-> head])
       ELSE Goto(w, "caught")
    /\ UNCHANGED <<turn, declared, External, faults, paid>>

(* An answer that used a tool result needs the attempt to be running still. *)
AnswerAuthority(w) == Held(w).ordinal > 1 => run = "running"

PrepareOutput(w) ==
    /\ In(w, "prepare")
    /\ IF ~lease THEN Goto(w, "ended")
       ELSE IF AnswerAuthority(w) THEN Hold(w, "mark_output", [Held(w) EXCEPT !.head = head])
       ELSE Goto(w, "caught")
    /\ UNCHANGED <<turn, declared, External, faults, paid>>

(* The final authority check, then markOutput's own load and reduction.     *)
MarkOutput(w) ==
    /\ In(w, "mark_output")
    /\ IF ~lease THEN Goto(w, "ended")
       ELSE IF ~AnswerAuthority(w) THEN Goto(w, "caught")
       ELSE IF head # Held(w).head THEN Hold(w, "prepare", Held(w))
       ELSE IF now < Held(w).deadline /\ CanRecordOutput(turn, Held(w))
       THEN Begin(w, "output", Held(w))
       ELSE Goto(w, "caught")
    /\ UNCHANGED <<turn, declared, External, faults, paid>>

-----------------------------------------------------------------------------
(* When no answer comes.                                                    *)

(* advance's catch: what the saved turn says the failure means.             *)
Caught(w) ==
    /\ In(w, "caught")
    /\ CASE turn.output # None -> Goto(w, "advance")
         [] turn.state = "model_reserved" -> AwaitRequest(w, Last(turn).deadline)
         [] turn.state = "model_retry_waiting" -> AwaitRetry(w, "advance")
         [] turn.state = "response_unavailable" -> Goto(w, "recover")
         [] turn.state = "cancelled" -> Goto(w, "ended")
         [] OTHER -> Goto(w, "advance")
    /\ UNCHANGED <<turn, declared, External, faults, paid>>

(* _UnavailableReceipt: the reason follows from the state that is saved now.*)
UnavailableReceipt(p) ==
    LET n == Len(p.steps) IN
    CASE p.state \in {"model_reserved", "model_retry_waiting"} ->
           [ordinal |-> n, source |-> Last(p).fence, reason |-> "model"]
      [] p.state = "tool_pending" ->
           [ordinal |-> n, source |-> Last(p).proposal, reason |-> "tool"]
      [] p.state \in {"open", "result_ready"} ->
           [ordinal |-> n, source |-> AllowanceSource, reason |-> "allowance"]

(* An ended lease is thrown out of advance, and the task is retried.        *)
ResponseUnavailable(w) ==
    /\ In(w, "unavailable")
    /\ IF turn.state = "response_unavailable" THEN Goto(w, "recover")
       ELSE IF ~lease THEN Goto(w, "start")
       ELSE IF turn.state \in {"output_recorded", "cancelled"} THEN Goto(w, "winner")
       ELSE Hold(w, "mark", UnavailableReceipt(turn))
    /\ UNCHANGED <<turn, declared, External, faults, paid>>

MarkResponseUnavailable(w) ==
    /\ In(w, "mark")
    /\ IF turn.state # "response_unavailable" /\ CanMarkUnavailable(turn, Held(w))
       THEN Begin(w, "unavailable", Held(w))
       ELSE Goto(w, "winner")
    /\ UNCHANGED <<turn, declared, External, faults, paid>>

(* Somebody else's terminal decision stands in for the one that failed.     *)
Winner(w) ==
    /\ In(w, "winner")
    /\ Goto(w, CASE turn.output # None -> "finish"
                 [] turn.state = "cancelled" -> "ended"
                 [] turn.state = "response_unavailable" -> "recover"
                 [] OTHER -> "start")
    /\ UNCHANGED <<turn, declared, External, faults, paid>>

(* enterRecoveryRequired; a refusal fails the task attempt.                 *)
EnterRecoveryRequired(w) ==
    /\ In(w, "recover")
    /\ IF run \in Lifecycle.recover
       THEN run' = "recovery_required" /\ Goto(w, "ended")
       ELSE UNCHANGED run /\ Goto(w, "start")
    /\ UNCHANGED <<turn, settled, head, lease, declared, invocation, now, stop, faults, paid>>

(* _FinishOutput.  From appendOutput its failures are caught; from advance  *)
(* and start they fail the task attempt.                                    *)
FinishOutput(w) ==
    /\ worker[w].pc \in {"finish", "finish_answer"}
    /\ LET answering == In(w, "finish_answer") IN
       IF ~lease THEN Goto(w, IF answering THEN "ended" ELSE "start") /\ UNCHANGED run
       ELSE IF run \in Lifecycle.complete THEN run' = "completed" /\ Goto(w, "settle")
       ELSE Goto(w, IF answering THEN "caught" ELSE "start") /\ UNCHANGED run
    /\ UNCHANGED <<turn, settled, head, lease, declared, invocation, now, stop, faults, paid>>

(* Mutant: the active pointer is kept.                                      *)
SettleNothing(w) ==
    /\ In(w, "settle")
    /\ Goto(w, "ended")
    /\ UNCHANGED <<turn, settled, head, run, lease, declared, invocation, now, stop, faults, paid>>

Settle(w) ==
    /\ In(w, "settle")
    /\ settled' = TRUE
    /\ Goto(w, "ended")
    /\ UNCHANGED <<turn, head, run, lease, declared, invocation, now, stop, faults, paid>>

-----------------------------------------------------------------------------
(* Stop: select the active turn, admit against the run, arbitrate with the  *)
(* turn's own output, then close what the run left open.                    *)

Cancellable == {"accepted", "running", "waiting_for_input", "recovery_required"}
StopAt(pc) == [pc |-> pc, at |-> 0, head |-> 0]
StopMoves(pc) == stop' = StopAt(pc)

StopSelect ==
    /\ stop.pc = "idle" /\ lease /\ ~settled /\ run \in Cancellable
    /\ StopMoves("admit")
    /\ UNCHANGED <<turn, settled, head, run, lease, declared, invocation, now, worker, faults, paid>>

StopAdmit ==
    /\ stop.pc = "admit"
    /\ IF run \in Cancellable THEN run' = "cancelling" /\ StopMoves("publish")
                              ELSE UNCHANGED run /\ StopMoves("done")
    /\ UNCHANGED <<turn, settled, head, lease, declared, invocation, now, worker, faults, paid>>

(* publish: recover its own receipt, or find the winner of the turn.        *)
StopLoad ==
    /\ stop.pc = "publish"
    /\ stop' = IF turn.cancellation # None THEN StopAt("cancel_won")
               ELSE IF turn.output # None THEN StopAt("output_won")
               ELSE [StopAt("target") EXCEPT !.at = turn.revision]
    /\ UNCHANGED <<turn, settled, head, run, lease, declared, invocation, now, worker, faults, paid>>

(* The pointer and the conversation are read after the turn.                *)
StopTarget ==
    /\ stop.pc = "target"
    /\ stop' = IF settled THEN StopAt("publish")
                          ELSE [stop EXCEPT !.pc = "commit", !.head = head]
    /\ UNCHANGED <<turn, settled, head, run, lease, declared, invocation, now, worker, faults, paid>>

(* Mutant: the participant entry is written twice.                          *)
StopCancelsTwice ==
    /\ turn.revision = stop.at /\ head = stop.head /\ ~settled
    /\ turn' = AfterCancel(turn, StopCommand)
    /\ settled' = TRUE /\ head' = head + 2

(* One atomic append cancels the turn, settles it and tells participants.   *)
StopCancels ==
    /\ turn.revision = stop.at /\ head = stop.head /\ ~settled
    /\ turn' = AfterCancel(turn, StopCommand)
    /\ settled' = TRUE /\ head' = head + 1

StopCommit ==
    /\ stop.pc = "commit"
    /\ \/ StopCancels /\ StopMoves("cancel_won")
       \/ /\ turn.revision # stop.at \/ head # stop.head \/ settled
          /\ StopMoves("publish") /\ UNCHANGED <<turn, settled, head>>
    /\ UNCHANGED <<run, lease, declared, invocation, now, worker, faults, paid>>

(* The append fails, or its acknowledgement is lost; the task is retried.   *)
StopCommitFails ==
    /\ stop.pc = "commit" /\ faults < MaxFaults
    /\ faults' = faults + 1
    /\ StopCancels \/ UNCHANGED <<turn, settled, head>>
    /\ StopMoves("publish")
    /\ UNCHANGED <<run, lease, declared, invocation, now, worker, paid>>

(* Mutant: an output that won leaves the run alone.                         *)
StopRecordCancellation ==
    /\ \/ stop.pc = "output_won" /\ StopMoves("done")
       \/ stop.pc = "cancel_won" /\ StopMoves("cleanup")
    /\ run = "cancelling"
    /\ UNCHANGED <<turn, settled, head, run, lease, declared, invocation, now, worker, faults, paid>>

(* recordDecision: an output that won completes the run.                    *)
StopRecord ==
    /\ \/ stop.pc = "output_won" /\ run' = "completed" /\ StopMoves("done")
       \/ stop.pc = "cancel_won" /\ UNCHANGED run /\ StopMoves("cleanup")
    /\ run = "cancelling"
    /\ UNCHANGED <<turn, settled, head, lease, declared, invocation, now, worker, faults, paid>>

(* Mutant: cleanup leaves the owner's approval open.                        *)
ClosedButApprovals(saved) ==
    IF saved.state \in {"approved", "pending"} THEN Result(0)
    ELSE IF saved.state = "claimed" /\ saved.notAfter <= now
    THEN [saved EXCEPT !.state = "recovery_required"] ELSE saved

(* Unclaimed work fails; a lapsed claim keeps its unknown outcome.          *)
Closed(saved) ==
    IF saved.state \in {"awaiting", "approved", "pending"} THEN Result(0)
    ELSE IF saved.state = "claimed" /\ saved.notAfter <= now
    THEN [saved EXCEPT !.state = "recovery_required"] ELSE saved

Claimed == {p \in Ordinals : invocation[p].state = "claimed"}

(* cleanup closes what no provider holds; a claim is waited for.            *)
StopCleanup ==
    /\ stop.pc = "cleanup"
    /\ invocation' = [p \in Ordinals |-> Closed(invocation[p])]
    /\ IF Claimed' = {} THEN StopMoves("finalize") ELSE UNCHANGED stop
    /\ UNCHANGED <<turn, settled, head, run, lease, declared, now, worker, faults, paid>>

(* finalize looks for a claim once more, and is tried again while it finds  *)
(* one.                                                                     *)
StopFinalize ==
    /\ stop.pc = "finalize" /\ Claimed = {}
    /\ run' = "cancelled" /\ StopMoves("done")
    /\ UNCHANGED <<turn, settled, head, lease, declared, invocation, now, worker, faults, paid>>

-----------------------------------------------------------------------------
(* Everybody else: the owner, tool executors, other writers, time, failures.*)

(* The owner approves or denies; an answer that is too late only expires.   *)
OwnerAnswers(p) ==
    /\ run = "waiting_for_input" /\ invocation[p].state = "awaiting"
    /\ \/ /\ now < WallClockDeadline /\ run' = "running"
          /\ invocation' = [invocation EXCEPT ![p].state = "approved"]
       \/ \E notAfter \in 0..WallClockDeadline : Rejects(notAfter)
    /\ UNCHANGED <<turn, settled, head, lease, declared, now, worker, stop, faults, paid>>

(* An executor claims an invocation only for a running attempt.             *)
ToolClaims(p) ==
    /\ invocation[p].state = "pending" /\ Admissible
    /\ \E until \in now + 1..WallClockDeadline :
          invocation' = [invocation EXCEPT ![p] = [state |-> "claimed", notAfter |-> until]]
    /\ UNCHANGED <<turn, settled, head, run, lease, declared, now, worker, stop, faults, paid>>

(* While the run runs, success or failure is saved as the call's result, or *)
(* the outcome is unknown and the run waits for recovery.                   *)
ToolSettles(p) ==
    /\ run = "running"
    /\ \/ /\ \/ invocation[p].state = "pending"
             \/ invocation[p].state = "claimed" /\ now < invocation[p].notAfter
          /\ \E notAfter \in 0..WallClockDeadline :
                invocation' = [invocation EXCEPT ![p] = Result(notAfter)]
          /\ UNCHANGED run
       \/ /\ invocation[p].state = "claimed"
          /\ invocation' = [invocation EXCEPT ![p].state = "recovery_required"]
          /\ run' = "recovery_required"
    /\ UNCHANGED <<turn, settled, head, lease, declared, now, worker, stop, faults, paid>>

OtherEntry ==
    /\ head < MaxHead
    /\ head' = head + 1
    /\ UNCHANGED <<turn, settled, run, lease, declared, invocation, now, worker, stop, faults, paid>>

Tick ==
    /\ now < WallClockDeadline
    /\ now' = now + 1
    /\ UNCHANGED <<turn, settled, head, run, lease, declared, invocation, worker, stop, faults, paid>>

LeaseEnds ==
    /\ lease /\ faults < MaxFaults
    /\ lease' = FALSE /\ faults' = faults + 1
    /\ UNCHANGED <<turn, settled, head, run, declared, invocation, now, worker, stop, paid>>

(* The process dies; the task is claimed again from its start.              *)
Crash(w) ==
    /\ worker[w].pc \notin {"start", "ended", "spent"} /\ faults < MaxFaults
    /\ Goto(w, "start") /\ faults' = faults + 1
    /\ UNCHANGED <<turn, declared, External, paid>>

-----------------------------------------------------------------------------
WorkerStep(w) ==
    \/ Start(w) \/ AttemptsSpent(w) \/ Advance(w)
    \/ ReserveModel(w) \/ RecordRejection(w) \/ ClaimRetry(w)
    \/ SelectTool(w) \/ RecordToolResult(w)
    \/ AppendAcknowledged(w) \/ AppendConflicts(w) \/ Readback(w)
    \/ ConsumeResult(w) \/ DispatchReservedModel(w) \/ Send(w) \/ StoreDeclaration(w)
    \/ AdmitTool(w) \/ ReadToolResult(w) \/ AwaitAnswer(w)
    \/ AppendOutput(w) \/ PrepareOutput(w) \/ MarkOutput(w)
    \/ Caught(w) \/ ResponseUnavailable(w) \/ MarkResponseUnavailable(w) \/ Winner(w)
    \/ EnterRecoveryRequired(w) \/ FinishOutput(w) \/ Settle(w)

StopStep ==
    \/ StopAdmit \/ StopLoad \/ StopTarget \/ StopCommit
    \/ StopRecord \/ StopCleanup \/ StopFinalize

Next ==
    \/ \E w \in Workers : WorkerStep(w) \/ AppendFails(w) \/ Crash(w)
    \/ StopSelect \/ StopStep \/ StopCommitFails
    \/ \E p \in Ordinals : OwnerAnswers(p) \/ ToolClaims(p) \/ ToolSettles(p)
    \/ OtherEntry \/ Tick \/ LeaseEnds

Spec == Init /\ [][Next]_vars
-----------------------------------------------------------------------------
Pcs == {"start", "advance", "reserve", "reject", "claim", "select", "admit", "result",
        "await", "record", "append", "readback", "consume", "dispatch", "send", "declare", "answer",
        "prepare", "mark_output", "caught", "unavailable", "mark", "winner", "recover",
        "finish", "finish_answer", "settle", "ended", "spent"}

(* Every store holds a value its own readers accept.                        *)
TypeOK ==
    /\ turn.state \in States /\ Len(turn.steps) <= MaxModelTurns
    /\ settled \in BOOLEAN /\ lease \in BOOLEAN
    /\ head \in 0..MaxHead + 1 /\ now \in 0..WallClockDeadline
    /\ run \in {"accepted", "running", "waiting_for_input", "recovery_required",
                "cancelling", "completed", "cancelled"}
    /\ declared \subseteq DOMAIN turn.steps
    /\ \A w \in Workers : worker[w].pc \in Pcs
    /\ \A p \in Ordinals : invocation[p].state \in
          {"none", "awaiting", "approved", "pending", "claimed", "settled", "recovery_required"}
    /\ faults \in 0..MaxFaults

(* The money is spent exactly once: whatever crashes, retries, lost         *)
(* acknowledgements and rival executions do, a reserved request reaches the *)
(* paid provider at most once, and every selected tool and every answer     *)
(* stands for one that did (conversation-computer-model-flow.ts: only a     *)
(* fresh winner may dispatch).                                              *)
PaidExactlyOnce ==
    /\ \A o \in Ordinals : paid[o] <= 1 /\ (paid[o] > 0 => o \in DOMAIN turn.steps)
    /\ \A i \in DOMAIN turn.steps : turn.steps[i].proposal # None => paid[i] = 1
    /\ turn.output # None => paid[Len(turn.steps)] = 1

(* PostgreSQL never contradicts the turn stream: each state of the run was  *)
(* preceded by the event that justifies it, and the pointer is released     *)
(* only by the answer or by Stop.                                           *)
RunAgreesWithTurn ==
    /\ run = "completed" => turn.output # None
    /\ run = "cancelled" => turn.cancellation # None
    /\ run = "recovery_required" =>
          \/ turn.state = "response_unavailable"
          \/ /\ turn.state = "tool_pending"
             /\ invocation[Len(turn.steps)].state = "recovery_required"
    /\ run = "waiting_for_input" =>
          /\ turn.state \in {"tool_pending", "response_unavailable"}
          /\ invocation[Len(turn.steps)].state = "awaiting"
    /\ turn.output # None => run \in {"running", "cancelling", "completed"}
    /\ turn.cancellation # None => run \in {"cancelling", "cancelled"}
    /\ settled => turn.output # None \/ turn.cancellation # None

(* A stopped run is quiet: when the run is finally Cancelled, no tool of it *)
(* waits or is held by an executor, and the turn takes no further event.    *)
StoppedRunIsQuiet ==
    run = "cancelled" =>
        /\ turn.state = "cancelled" /\ settled
        /\ \A p \in Ordinals :
              invocation[p].state \notin {"awaiting", "approved", "pending", "claimed"}

(* What the flow derives from the remaining allowance is what the reducer   *)
(* accepts: an execution that is about to reserve the request the turn now  *)
(* needs is not refused, so no remainder of the allowance strands the turn  *)
(* (conversation-computer-model-flow.ts: _NextReservation).                 *)
ReservationIsAccepted ==
    \A w \in Workers :
        (In(w, "reserve") /\ turn.state \in {"open", "result_ready"}
           /\ Held(w).ordinal = Len(turn.steps) + 1) => CanReserveModel(turn, Held(w))

(* A worker that read the turn before it ended cannot still open its tool:  *)
(* after the answer or Stop no new invocation is admitted.                  *)
EndedTurnAdmitsNoTool ==
    [][ turn.state \in {"output_recorded", "cancelled"} =>
          \A p \in Ordinals : invocation[p].state = "none" => invocation'[p].state = "none" ]_vars

(* A recorded result is the saved result of its own invocation, and         *)
(* carries no more authority than its evidence and its request had.         *)
ResultsAreGenuine ==
    \A i \in DOMAIN turn.steps : turn.steps[i].result # None =>
        /\ invocation[i].state = "settled"
        /\ turn.steps[i].result <= invocation[i].notAfter
        /\ turn.steps[i].result <= turn.steps[i].authority

-----------------------------------------------------------------------------
(* The turn stream behaves as TurnLog promises, whatever the workers do.    *)
Log == INSTANCE TurnLog WITH
    Fences <- Workers \X Ordinals,
    Nonces <- Workers \X Ordinals \X (1..MaxRetries + 1),
    Proposals <- {Proposal(o) : o \in Ordinals},
    Payloads <- Ordinals,
    Commands <- {StopCommand, AllowanceSource}

ImplementsTurnLog == Log!Spec

-----------------------------------------------------------------------------
(* The workflow engine runs every task and executor again and again; the    *)
(* clock advances.  Crashes, lost appends, other writers and Stop's arrival *)
(* have no fairness.                                                        *)
Fairness ==
    /\ \A w \in Workers : WF_vars(WorkerStep(w))
    /\ WF_vars(StopStep)
    /\ \A p \in Ordinals : WF_vars(ToolClaims(p)) /\ WF_vars(ToolSettles(p))
    /\ WF_vars(Tick)

FairSpec == Spec /\ Fairness

(* A Stop that was admitted is decided: the run ends Cancelled, or Completed*)
(* by the answer that won, whatever other writers and faults interfere.     *)
AdmittedStopEndsRun == (run = "cancelling") ~> (run \in {"cancelled", "completed"})

(* An answer that participants can see ends the run and releases the turn   *)
(* while the computer keeps its lease, even when Stop arrives in between.   *)
SavedAnswerIsFinished ==
    (turn.output # None) ~> ((run = "completed" /\ settled) \/ ~lease)

(* No turn stays open: it is answered, declared unavailable or stopped,     *)
(* unless its computer lost the lease, or its task spent its attempts on a  *)
(* run that waited for its owner.                                           *)
TurnEnds ==
    <>(\/ turn.state \in {"output_recorded", "response_unavailable", "cancelled"}
       \/ ~lease \/ \E w \in Workers : In(w, "spent"))

-----------------------------------------------------------------------------
(* The saved reason of an unavailable response is true when it is saved     *)
(* (conversation-computer-turn-protocol.types.ts:71-76): "A saved paid model*)
(* request passed its fixed deadline without a recoverable response", "The  *)
(* frozen model, token, tool or loop allowance cannot admit the required    *)
(* next step", "The selected invocation cannot provide an authorized,       *)
(* integrity-checked terminal result".  Refuted by an execution that gives  *)
(* up on a turn it read before a rival moved it on.                         *)
UnavailableReasonHolds ==
    [][ LET Marks(reason) == turn.unavailable = None /\ turn'.unavailable = reason
            saved == invocation[Len(turn.steps)]
        IN  /\ Marks("model") => now >= Last(turn).deadline \/ Len(turn.rejections) > MaxRetries
            /\ Marks("allowance") => ~CanPropose(turn)
            /\ Marks("tool") =>
                  \/ ~Admissible \/ saved.state = "recovery_required"
                  \/ saved.state = "settled" /\ now >= ResultDeadline(saved, Last(turn)) ]_vars
=============================================================================
