------------------------ MODULE ConversationTurn_proofs ------------------------
(***************************************************************************)
(* What holds of one turn for any number of executions, crashes, lost      *)
(* acknowledgements and other writers: the invariant that carries every    *)
(* safety property of ConversationTurn, and that the turn stream behaves   *)
(* as TurnLog promises.                                                    *)
(***************************************************************************)
EXTENDS ConversationTurn, TLAPS

Fences == Workers \X Ordinals
RetryNonces == Workers \X Ordinals \X (1..MaxRetries + 1)
SendNonces == RetryNonces \union {InitialNonce(f) : f \in Fences}
Proposals == {Proposal(o) : o \in Ordinals}
Instants == 0..WallClockDeadline + 1

-----------------------------------------------------------------------------
(* The turn alone.                                                         *)

StepType == [
    fence : Fences, select : BOOLEAN, tokens : Nat, authority : 0..WallClockDeadline,
    deadline : Nat, phase : {"model_reserved", "tool_pending", "result_ready"},
    proposal : Proposals \union {None}, result : Nat \union {None},
    payload : Ordinals \union {None} ]

RejectionType == [
    fence : Fences, nonce : SendNonces, receivedAt : Instants, retryAt : Instants,
    credential : Instants ]

ClaimType == [
    fence : Fences, retryOrdinal : 1..MaxRetries + 1, nonce : RetryNonces, claimedAt : Instants ]

TurnType == [
    state : States, revision : Nat, steps : Seq(StepType),
    calls : Nat, tokens : Nat, tools : Nat, cycles : Nat,
    rejections : Seq(RejectionType), claim : ClaimType \union {None},
    output : Fences \union {None},
    unavailable : {"model", "tool", "allowance", None},
    cancellation : {StopCommand, None} ]

(* A step's fields are filled in the order of its phases, under its own     *)
(* proposal.                                                                *)
StepFilled(i) ==
    LET step == turn.steps[i] IN
    /\ step.phase = "model_reserved" => step.proposal = None /\ step.result = None
    /\ step.phase # "model_reserved" => step.proposal = Proposal(i)
    /\ step.phase = "tool_pending" => step.result = None
    /\ step.phase = "result_ready" => step.result \in Nat

(* The phase of the newest step in each state of a turn that is not ended.  *)
PhaseOf == [
    model_reserved |-> "model_reserved", model_retry_waiting |-> "model_reserved",
    tool_pending |-> "tool_pending", result_ready |-> "result_ready",
    output_recorded |-> "model_reserved" ]

Steps == Len(turn.steps)

TurnInv ==
    /\ turn \in TurnType
    /\ turn.calls = Steps /\ Steps <= MaxModelTurns
    /\ \A i \in 1..Steps : StepFilled(i) /\ (i < Steps => turn.steps[i].phase = "result_ready")
    /\ turn.state = "open" => Steps = 0
    /\ turn.state \in DOMAIN PhaseOf => Steps > 0 /\ turn.steps[Steps].phase = PhaseOf[turn.state]
    /\ (turn.output # None) <=> (turn.state = "output_recorded")
    /\ (turn.cancellation # None) <=> (turn.state = "cancelled")
    /\ turn.state = "response_unavailable" => turn.unavailable # None
    /\ turn.unavailable # None => turn.state \in {"response_unavailable", "cancelled"}

-----------------------------------------------------------------------------
(* The stores beside the turn.                                             *)

Runs == {"accepted", "running", "waiting_for_input", "recovery_required", "cancelling",
         "completed", "cancelled"}
StopPcs == {"idle", "admit", "publish", "target", "commit", "cancel_won", "output_won",
            "cleanup", "finalize", "done"}
CallStates == {"none", "awaiting", "approved", "pending", "claimed", "settled", "recovery_required"}
InvocationType == [state : CallStates, notAfter : 0..WallClockDeadline]

Scalars ==
    /\ settled \in BOOLEAN /\ lease \in BOOLEAN
    /\ now \in 0..WallClockDeadline /\ faults \in 0..MaxFaults
    /\ head \in 0..MaxHead + 1
    /\ turn.output = None /\ turn.cancellation = None => head <= MaxHead
    /\ run \in Runs
    /\ invocation \in [Ordinals -> InvocationType]
    /\ paid \in [Ordinals -> {0, 1}]
    /\ stop \in [pc : StopPcs, at : Nat, head : Nat]

Idle == \A p \in Ordinals :
    invocation[p].state \notin {"awaiting", "approved", "pending", "claimed"}

Selected(o) == o \in 1..Steps /\ turn.steps[o].proposal = Proposal(o)

(* The run follows the turn.                                                *)
RunInv ==
    /\ run = "accepted" => turn.state = "open" /\ ~settled
    /\ run = "completed" => turn.output # None
    /\ run = "recovery_required" =>
          \/ turn.state = "response_unavailable"
          \/ turn.state = "tool_pending" /\ invocation[Steps].state = "recovery_required"
    /\ run = "waiting_for_input" =>
          /\ turn.state \in {"tool_pending", "response_unavailable"}
          /\ Steps > 0 /\ invocation[Steps].state = "awaiting"
    /\ run = "cancelled" => turn.cancellation # None /\ Idle
    /\ turn.output # None => run \in {"running", "cancelling", "completed"}
    /\ turn.cancellation # None => run \in {"cancelling", "cancelled"} /\ settled
    /\ settled => turn.output # None \/ turn.cancellation # None

(* Stop acts on a run it holds, and never forgets who won the turn.         *)
StopInv ==
    /\ stop.pc \notin {"idle", "admit", "done"} => run = "cancelling"
    /\ stop.pc = "output_won" => turn.output # None
    /\ stop.pc \in {"cancel_won", "cleanup", "finalize"} => turn.cancellation # None
    /\ stop.pc \in {"target", "commit"} =>
          /\ stop.at <= turn.revision
          /\ stop.at = turn.revision => turn.output = None /\ turn.cancellation = None
    /\ stop.pc = "finalize" => Idle

(* What was paid for, what was called, and what a result stands on.         *)
PaidInv ==
    /\ \A o \in Ordinals : paid[o] = 1 => o <= Steps
    /\ \A o \in 1..Steps : turn.steps[o].proposal # None => paid[o] = 1
    /\ turn.output # None => paid[Steps] = 1
    /\ turn.state = "model_retry_waiting" => paid[Steps] = 0
    /\ \A o \in declared : o \in 1..Steps /\ paid[o] = 1

ResultInv ==
    /\ \A o \in 1..Steps : turn.steps[o].result # None =>
          /\ invocation[o].state = "settled"
          /\ turn.steps[o].result <= invocation[o].notAfter
          /\ turn.steps[o].result <= turn.steps[o].authority
    /\ \A o \in Ordinals : invocation[o].state # "none" => Selected(o)

-----------------------------------------------------------------------------
(* The executions.                                                         *)

ReservationType == [
    ordinal : Ordinals, fence : Fences, select : BOOLEAN, tokens : 0..MaxCompletionTokens,
    authority : 0..WallClockDeadline, deadline : 0..WallClockDeadline,
    history : SUBSET (Ordinals \X (Proposals \union {None})) ]
DeliveryType == [
    fence : Fences, nonce : SendNonces, ordinal : Ordinals, select : BOOLEAN, deadline : Nat ]
SelectionType == [ordinal : Ordinals, fence : Fences, proposal : Proposals]
ResultType == [
    ordinal : Ordinals, proposal : Proposals, authority : 0..WallClockDeadline, payload : Ordinals ]
AnswerType == [ordinal : Ordinals, fence : Fences, deadline : Nat, head : Nat]
ReceiptType == [
    ordinal : 0..MaxModelTurns, source : Fences \union Proposals \union {AllowanceSource},
    reason : {"model", "tool", "allowance"} ]

Paid(h) == paid[h.ordinal] = 1
Backed(h) ==
    invocation[h.ordinal].state = "settled" /\ h.authority <= invocation[h.ordinal].notAfter

(* What an execution holds for an event it is about to write or look for.   *)
Holds(op, h) ==
    /\ op = "reserve" => h \in ReservationType
    /\ op = "reject" => h \in RejectionType
    /\ op = "claim" => h \in ClaimType
    /\ op = "select" => h \in SelectionType /\ h.proposal = Proposal(h.ordinal) /\ Paid(h)
    /\ op = "result" => h \in ResultType /\ h.proposal = Proposal(h.ordinal) /\ Backed(h)
    /\ op = "output" => h \in AnswerType /\ Paid(h)
    /\ op = "unavailable" => h \in ReceiptType

Ops == {"reserve", "reject", "claim", "select", "result", "output", "unavailable"}

(* The guard of the event an append writes, in the turn of now.             *)
CanApply(op, h) ==
    /\ op = "reserve" => CanReserveModel(turn, h)
    /\ op = "reject" => CanRejectModel(turn, h)
    /\ op = "claim" => CanClaimRetry(turn, h)
    /\ op = "select" => CanSelectTool(turn, h)
    /\ op = "result" => CanRecordToolResult(turn, h)
    /\ op = "output" => CanRecordOutput(turn, h)
    /\ op = "unavailable" => CanMarkUnavailable(turn, h)

(* What an execution holds at each step between two appends.                *)
HeldOK(pc, h) ==
    /\ pc = "reserve" => Holds("reserve", h)
    /\ pc = "reject" => Holds("reject", h)
    /\ pc = "select" => Holds("select", h)
    /\ pc = "record" => Holds("result", h)
    /\ pc \in {"prepare", "mark_output"} => Holds("output", h)
    /\ pc = "mark" => Holds("unavailable", h)
    /\ pc \in {"consume", "dispatch", "send", "answer", "declare"} => h \in DeliveryType
    /\ pc \in {"answer", "declare"} => Paid(h)
    /\ pc \in {"admit", "result"} =>
          h \in SelectionType /\ h.proposal = Proposal(h.ordinal) /\ Selected(h.ordinal)

(* An append that still has its chance is one whose guard holds; a send     *)
(* right that is read back was committed.                                   *)
AppendOK(x) ==
    /\ x.op \in Ops /\ x.at \in Nat /\ x.at <= turn.revision /\ Holds(x.op, x.held)
    /\ x.pc = "append" /\ x.at = turn.revision => CanApply(x.op, x.held)
    /\ x.pc = "readback" /\ x.op \in {"reserve", "claim"} => x.at < turn.revision

(* What each step of an execution may rely on.                              *)
WorkerOK(x) ==
    /\ x = [pc |-> x.pc, op |-> x.op, at |-> x.at, held |-> x.held]
    /\ x.pc \in Pcs
    /\ run = "accepted" => x.pc = "start"
    /\ x.pc \in {"finish", "finish_answer", "settle"} => turn.output # None
    /\ x.pc = "recover" => turn.unavailable # None
    /\ HeldOK(x.pc, x.held)
    /\ x.pc \in {"append", "readback"} => AppendOK(x)

(* The right to send the reserved request, or the proof that it was not     *)
(* sent: whoever has it is alone, and nothing has been paid for the request.*)
Sending == {"consume", "dispatch", "send"}
Bears(x) ==
    \/ x.pc \in Sending \union {"reject"}
    \/ x.pc = "append" /\ x.op = "reject"
    \/ x.pc = "readback" /\ x.op \in {"reserve", "claim"} /\ turn.revision = x.at + 1

WorkersInv ==
    /\ worker = [w \in Workers |-> worker[w]]
    /\ \A w \in Workers : WorkerOK(worker[w])

SendRightInv ==
    \A w \in Workers : Bears(worker[w]) =>
        /\ turn.state \in {"model_reserved", "response_unavailable", "cancelled"}
        /\ Steps > 0 /\ paid[Steps] = 0
        /\ worker[w].pc \in Sending => worker[w].held.ordinal = Steps
        /\ \A v \in Workers : Bears(worker[v]) => v = w

Inv ==
    /\ TurnInv /\ Scalars /\ RunInv /\ StopInv /\ PaidInv /\ ResultInv
    /\ WorkersInv /\ SendRightInv

-----------------------------------------------------------------------------
(* Steps of one execution that touch no store.                             *)

stores == <<turn, settled, head, run, lease, declared, invocation, now, stop, faults, paid>>

(* The execution moves on with what it may rely on, and gains no send right.*)
MovesTo(w, x) ==
    /\ worker' = [worker EXCEPT ![w] = x]
    /\ WorkerOK(x)
    /\ Bears(x) => Bears(worker[w]) /\ (x.pc \in Sending => x.held.ordinal = Steps)

LEMMA Moved ==
    ASSUME WorkersInv, NEW w \in Workers, NEW x, worker' = [worker EXCEPT ![w] = x]
    PROVE  /\ worker'[w] = x
           /\ \A v \in Workers : v # w => worker'[v] = worker[v]
           /\ worker' = [v \in Workers |-> worker'[v]]
<1>1. worker = [v \in Workers |-> worker[v]]
  BY DEF WorkersInv
<1> QED
  BY <1>1

LEMMA QuietKeepsInv ==
    ASSUME Inv, NEW w \in Workers, NEW x, MovesTo(w, x), UNCHANGED stores
    PROVE  Inv'
<1>1. /\ worker'[w] = x
      /\ \A v \in Workers : v # w => worker'[v] = worker[v]
      /\ worker' = [v \in Workers |-> worker'[v]]
  BY Moved DEF Inv, MovesTo
<1>2. TurnInv'
  BY DEF Inv, TurnInv, stores, Steps, StepFilled
<1>3. Scalars' /\ RunInv' /\ StopInv'
  BY DEF Inv, Scalars, RunInv, StopInv, stores, Idle, Steps
<1>4. PaidInv' /\ ResultInv'
  BY DEF Inv, PaidInv, ResultInv, stores, Steps, Selected
<1>5. ASSUME NEW y, WorkerOK(y) PROVE WorkerOK(y)'
  <2>1. \A h, pc : HeldOK(pc, h) => HeldOK(pc, h)'
    BY DEF HeldOK, Holds, Paid, Backed, Selected, Steps, stores
  <2>2. AppendOK(y) => AppendOK(y)'
    BY DEF AppendOK, Holds, CanApply, Paid, Backed, stores
  <2> QED
    BY <1>5, <2>1, <2>2 DEF WorkerOK, stores
<1>6. WorkersInv'
  BY <1>1, <1>5 DEF Inv, WorkersInv, MovesTo
<1>7. \A y : Bears(y)' <=> Bears(y)
  BY DEF Bears, stores
<1>8. SendRightInv'
  <2> SUFFICES ASSUME NEW u \in Workers, Bears(worker'[u])
               PROVE  /\ turn.state \in {"model_reserved", "response_unavailable", "cancelled"}
                      /\ Steps > 0 /\ paid[Steps] = 0
                      /\ worker'[u].pc \in Sending => worker'[u].held.ordinal = Steps
                      /\ \A v \in Workers : Bears(worker'[v]) => v = u
    BY <1>7 DEF SendRightInv, Steps, stores
  <2>1. \A v \in Workers : Bears(worker'[v]) => Bears(worker[v])
    BY <1>1 DEF MovesTo
  <2> QED
    BY <1>1, <2>1 DEF Inv, SendRightInv, MovesTo
<1> QED
  BY <1>2, <1>3, <1>4, <1>6, <1>8 DEF Inv

(* An execution that is past its start works for a run that was admitted.   *)
LEMMA Admitted ==
    ASSUME Inv, NEW w \in Workers, worker[w].pc # "start"
    PROVE  run # "accepted"
BY DEF Inv, WorkersInv, WorkerOK

Plain == {"advance", "claim", "caught", "unavailable", "winner", "ended", "start", "await", "spent"}

LEMMA GotoMoves ==
    ASSUME Inv, NEW w \in Workers, run # "accepted",
           NEW pc \in Plain \union {"finish", "finish_answer", "settle", "recover"},
           pc \in {"finish", "finish_answer", "settle"} => turn.output # None,
           pc = "recover" => turn.unavailable # None,
           Goto(w, pc)
    PROVE  \E x : MovesTo(w, x)
<1>1. WorkerOK(At(pc)) /\ ~Bears(At(pc))
  BY DEF WorkerOK, At, HeldOK, Pcs, Bears, Sending, Plain
<1> QED
  BY <1>1 DEF Goto, MovesTo

LEMMA HoldMoves ==
    ASSUME Inv, NEW w \in Workers, run # "accepted", NEW h,
           NEW pc \in {"reserve", "reject", "select", "record", "prepare", "mark_output", "mark",
                       "consume", "dispatch", "send", "answer", "declare", "admit", "result"},
           HeldOK(pc, h),
           pc \in Sending \union {"reject"} => Bears(worker[w]),
           pc \in Sending => h.ordinal = Steps,
           Hold(w, pc, h)
    PROVE  \E x : MovesTo(w, x)
<1> DEFINE x == [pc |-> pc, op |-> None, at |-> 0, held |-> h]
<1>1. worker' = [worker EXCEPT ![w] = x]
  <2>1. [At(pc) EXCEPT !.held = h] = x
    BY DEF At
  <2> QED
    BY <2>1 DEF Hold
<1>2. WorkerOK(x)
  BY DEF WorkerOK, Pcs
<1>3. Bears(x) => pc \in Sending \union {"reject"}
  BY DEF Bears
<1>4. MovesTo(w, x)
  BY <1>1, <1>2, <1>3 DEF MovesTo
<1> QED
  BY <1>4

LEMMA BeginMoves ==
    ASSUME Inv, NEW w \in Workers, run # "accepted", NEW h, NEW op \in Ops,
           Holds(op, h), CanApply(op, h), op = "reject" => Bears(worker[w]),
           Begin(w, op, h)
    PROVE  \E x : MovesTo(w, x)
<1> DEFINE x == [pc |-> "append", op |-> op, at |-> turn.revision, held |-> h]
<1>1. worker' = [worker EXCEPT ![w] = x]
  BY DEF Begin
<1>2. turn.revision \in Nat
  BY DEF Inv, TurnInv, TurnType
<1>3. WorkerOK(x)
  BY <1>2 DEF WorkerOK, Pcs, HeldOK, AppendOK
<1>4. Bears(x) => op = "reject"
  BY DEF Bears, Sending
<1>5. x.pc \notin Sending
  BY DEF Sending
<1>6. MovesTo(w, x)
  BY <1>1, <1>3, <1>4, <1>5 DEF MovesTo
<1> QED
  BY <1>6

-----------------------------------------------------------------------------
(* What an execution reads from the turn is of its type.                   *)

LEMMA TurnTyped ==
    ASSUME Inv
    PROVE  /\ Steps \in Nat /\ Steps <= MaxModelTurns /\ turn.calls = Steps
           /\ DOMAIN turn.steps = 1..Steps /\ turn.steps \in Seq(StepType)
           /\ \A i \in 1..Steps : turn.steps[i] \in StepType /\ i \in Ordinals /\ StepFilled(i)
           /\ turn.state \in States /\ turn.revision \in Nat /\ turn.tokens \in Nat
           /\ turn.claim \in ClaimType \union {None}
           /\ turn.rejections \in Seq(RejectionType)
BY BudgetAssumption DEF Inv, TurnInv, TurnType, Steps, Ordinals

LEMMA LastTyped ==
    ASSUME Inv, HasStep(turn) \/ Steps > 0
    PROVE  /\ HasStep(turn) /\ Steps \in 1..Steps /\ Steps \in Ordinals
           /\ Last(turn) = turn.steps[Steps] /\ Last(turn) \in StepType /\ StepFilled(Steps)
<1>1. HasStep(turn) /\ Steps > 0
  BY TurnTyped DEF HasStep, Steps
<1> QED
  BY <1>1, TurnTyped DEF Last, Steps

(* In these states the newest step is the one under way.                    *)
LEMMA PhaseKnown ==
    ASSUME Inv, turn.state \in {"model_reserved", "model_retry_waiting", "tool_pending",
                                "result_ready", "output_recorded"}
    PROVE  Steps > 0 /\ HasStep(turn) /\ turn.steps[Steps].phase = PhaseOf[turn.state]
<1>1. turn.state \in DOMAIN PhaseOf
  BY DEF PhaseOf
<1> QED
  BY <1>1, LastTyped DEF Inv, TurnInv

LEMMA ProposalsDistinct ==
    ASSUME NEW a, NEW b, Proposal(a) = Proposal(b)
    PROVE  a = b
BY DEF Proposal

(* Who finds its proposal on the newest step has its tool selected.         *)
LEMMA NewestSelected ==
    ASSUME Inv, HasStep(turn), NEW o \in Ordinals, Last(turn).proposal = Proposal(o)
    PROVE  o = Steps /\ Selected(o)
<1>1. Last(turn) = turn.steps[Steps] /\ StepFilled(Steps) /\ Last(turn) \in StepType
      /\ Steps \in 1..Steps
  BY LastTyped
<1>2. Last(turn).proposal = Proposal(Steps)
  BY <1>1, NullAssumption DEF StepFilled
<1> QED
  BY <1>1, <1>2, ProposalsDistinct DEF Selected

LEMMA DeliveryTyped ==
    ASSUME Inv, HasStep(turn)
    PROVE  Delivery \in DeliveryType /\ Delivery.ordinal = Steps
<1>1. Last(turn) \in StepType /\ Steps \in Ordinals
  BY LastTyped
<1>2. CurrentNonce(turn) \in SendNonces
  <2>1. CASE turn.claim = None
    BY <1>1, <2>1 DEF CurrentNonce, SendNonces, StepType
  <2>2. CASE turn.claim # None
    BY <2>2, TurnTyped DEF CurrentNonce, SendNonces, ClaimType
  <2> QED
    BY <2>1, <2>2
<1> QED
  BY <1>1, <1>2 DEF Delivery, DeliveryType, StepType, Steps

LEMMA AuthorityBounded ==
    ASSUME Inv
    PROVE  LatestAuthority(turn) \in 0..WallClockDeadline
<1>1. CASE ~HasStep(turn)
  BY <1>1, BudgetAssumption DEF LatestAuthority
<1>2. CASE HasStep(turn)
  <2>1. Last(turn) \in StepType
    BY <1>2, LastTyped
  <2> QED
    BY <1>2, <2>1, BudgetAssumption DEF LatestAuthority, StepType, Lesser
<1> QED
  BY <1>1, <1>2

LEMMA HistoryTyped ==
    ASSUME Inv
    PROVE  HistoryDigest(turn.steps) \in SUBSET (Ordinals \X (Proposals \union {None}))
<1>1. \A i \in DOMAIN turn.steps : i \in Ordinals /\ turn.steps[i].proposal \in Proposals \union {None}
  BY TurnTyped DEF StepType
<1> QED
  BY <1>1 DEF HistoryDigest

LEMMA ReservationTyped ==
    ASSUME Inv, NEW w \in Workers, CanPropose(turn)
    PROVE  NextReservation(w, turn) \in ReservationType
<1>1. turn.calls + 1 \in Ordinals /\ turn.tokens < MaxCompletionTokens
  BY TurnTyped, BudgetAssumption DEF CanPropose, Ordinals
<1>2. (MaxCompletionTokens - turn.tokens) \div (IF MaySelect(turn) THEN 2 ELSE 1)
      \in 0..MaxCompletionTokens
  <2>1. MaxCompletionTokens - turn.tokens \in 1..MaxCompletionTokens
    BY <1>1, TurnTyped, BudgetAssumption
  <2> DEFINE n == MaxCompletionTokens - turn.tokens
  <2>2. n \div 2 \in 0..MaxCompletionTokens /\ n \div 1 \in 0..MaxCompletionTokens
    <3> HIDE DEF n
    <3>1. n \in 1..MaxCompletionTokens
      BY <2>1 DEF n
    <3> QED
      BY <3>1, BudgetAssumption
  <2> QED
    BY <2>2
<1>3. Lesser(LatestAuthority(turn), now + DispatchWindow) \in 0..WallClockDeadline
  BY AuthorityBounded, BudgetAssumption, WindowAssumption DEF Lesser, Inv, Scalars
<1>4. MaySelect(turn) \in BOOLEAN
  BY DEF MaySelect
<1> QED
  BY <1>1, <1>2, <1>3, <1>4, AuthorityBounded, HistoryTyped
     DEF NextReservation, ReservationType, Fences

-----------------------------------------------------------------------------
(* The steps of an execution that only read the stores.                    *)

LEMMA AwaitMoves ==
    ASSUME Inv, NEW w \in Workers, run # "accepted",
           \/ \E deadline : AwaitRequest(w, deadline)
           \/ AwaitRetry(w, "claim") \/ AwaitRetry(w, "advance")
    PROVE  \E x : MovesTo(w, x)
<1>1. \E pc \in Plain : Goto(w, pc)
  BY DEF AwaitRequest, AwaitRetry, Plain
<1> QED
  BY <1>1, GotoMoves DEF Plain

LEMMA ProposeMoves ==
    ASSUME Inv, NEW w \in Workers, run # "accepted", Propose(w)
    PROVE  \E x : MovesTo(w, x)
<1>1. CASE lease /\ CanPropose(turn)
  <2>1. HeldOK("reserve", NextReservation(w, turn))
    BY <1>1, ReservationTyped DEF HeldOK, Holds
  <2>2. Hold(w, "reserve", NextReservation(w, turn))
    BY <1>1 DEF Propose
  <2> QED
    BY <2>1, <2>2, HoldMoves DEF Sending
<1>2. CASE ~(lease /\ CanPropose(turn))
  BY <1>2, GotoMoves DEF Propose, Plain
<1> QED
  BY <1>1, <1>2

LEMMA AdvanceMoves ==
    ASSUME Inv, NEW w \in Workers, Advance(w)
    PROVE  \E x : MovesTo(w, x)
<1>1. run # "accepted"
  BY Admitted DEF Advance, In
<1>2. CASE turn.output # None
  <2>1. turn.state = "output_recorded"
    BY <1>2 DEF Inv, TurnInv
  <2> QED
    BY <1>1, <1>2, <2>1, GotoMoves DEF Advance
<1>3. CASE turn.output = None /\ turn.state = "cancelled"
  BY <1>1, <1>3, GotoMoves DEF Advance, Plain
<1>4. CASE turn.output = None /\ turn.state = "response_unavailable"
  <2>1. turn.unavailable # None
    BY <1>4 DEF Inv, TurnInv
  <2> QED
    BY <1>1, <1>4, <2>1, GotoMoves DEF Advance
<1>5. CASE turn.output = None /\ turn.state \notin {"cancelled", "response_unavailable"}
  <2>1. CASE ~lease
    BY <1>1, <1>5, <2>1, GotoMoves DEF Advance, Plain
  <2>2. CASE lease /\ turn.state = "model_retry_waiting"
    BY <1>1, <1>5, <2>2, AwaitMoves DEF Advance
  <2>3. CASE lease /\ turn.state = "model_reserved" /\ Len(turn.steps) \notin declared
    <3>1. AwaitRequest(w, Last(turn).deadline)
      BY <1>5, <2>3 DEF Advance
    <3> QED
      BY <1>1, <3>1, AwaitMoves
  <2>4. CASE lease /\ turn.state = "model_reserved" /\ Len(turn.steps) \in declared
    <3> DEFINE h == [ordinal |-> Len(turn.steps), fence |-> Last(turn).fence,
                     proposal |-> Proposal(Len(turn.steps))]
    <3>1. Hold(w, "select", h)
      BY <1>5, <2>4 DEF Advance
    <3>2. Last(turn) \in StepType /\ Steps \in Ordinals
      BY <2>4, PhaseKnown, LastTyped
    <3>3. paid[Steps] = 1
      BY <2>4 DEF Inv, PaidInv, Steps
    <3>4. HeldOK("select", h)
      BY <3>2, <3>3 DEF HeldOK, Holds, SelectionType, StepType, Steps, Proposals, Paid
    <3> HIDE DEF h
    <3> QED
      BY <1>1, <3>1, <3>4, HoldMoves DEF Sending
  <2>5. CASE lease /\ turn.state = "tool_pending"
    <3> DEFINE h == [ordinal |-> Len(turn.steps), fence |-> Last(turn).fence,
                     proposal |-> Last(turn).proposal]
    <3>1. Hold(w, "admit", h)
      BY <1>5, <2>5 DEF Advance
    <3>2. /\ Last(turn) \in StepType /\ Steps \in Ordinals /\ Steps \in 1..Steps
          /\ Last(turn) = turn.steps[Steps] /\ StepFilled(Steps)
          /\ turn.steps[Steps].phase = "tool_pending"
      BY <2>5, PhaseKnown, LastTyped DEF PhaseOf
    <3>3. Last(turn).proposal = Proposal(Steps)
      BY <3>2 DEF StepFilled
    <3>4. HeldOK("admit", h)
      BY <3>2, <3>3 DEF HeldOK, SelectionType, StepType, Steps, Proposals, Selected
    <3> HIDE DEF h
    <3> QED
      BY <1>1, <3>1, <3>4, HoldMoves DEF Sending
  <2>6. CASE lease /\ turn.state \notin {"model_retry_waiting", "model_reserved", "tool_pending"}
    <3>1. Propose(w)
      BY <1>5, <2>6 DEF Advance
    <3> QED
      BY <1>1, <3>1, ProposeMoves
  <2> QED
    BY <2>1, <2>2, <2>3, <2>4, <2>5, <2>6
<1> QED
  BY <1>2, <1>3, <1>4, <1>5

LEMMA ReserveMoves ==
    ASSUME Inv, NEW w \in Workers, ReserveModel(w)
    PROVE  \E x : MovesTo(w, x)
<1>1. run # "accepted" /\ Holds("reserve", Held(w))
  BY Admitted DEF ReserveModel, In, Held, Inv, WorkersInv, WorkerOK, HeldOK
<1>2. CASE turn.state \notin {"open", "result_ready"}
  BY <1>1, <1>2, AwaitMoves DEF ReserveModel
<1>3. CASE turn.state \in {"open", "result_ready"} /\ CanReserveModel(turn, Held(w))
  <2>1. Begin(w, "reserve", Held(w))
    BY <1>3 DEF ReserveModel
  <2>2. CanApply("reserve", Held(w))
    BY <1>3 DEF CanApply
  <2> QED
    BY <1>1, <2>1, <2>2, BeginMoves DEF Ops
<1>4. CASE turn.state \in {"open", "result_ready"} /\ ~CanReserveModel(turn, Held(w))
  BY <1>1, <1>4, GotoMoves DEF ReserveModel, Plain
<1> QED
  BY <1>2, <1>3, <1>4

LEMMA RejectMoves ==
    ASSUME Inv, NEW w \in Workers, RecordRejection(w)
    PROVE  \E x : MovesTo(w, x)
<1> DEFINE h == [Held(w) EXCEPT !.receivedAt = now]
<1>1. run # "accepted" /\ Held(w) \in RejectionType
  BY Admitted DEF RecordRejection, In, Held, Inv, WorkersInv, WorkerOK, HeldOK, Holds
<1>2. now \in Instants
  BY BudgetAssumption DEF Inv, Scalars, Instants
<1>3. h \in RejectionType
  BY <1>1, <1>2 DEF RejectionType
<1>4. CASE ~lease
  BY <1>1, <1>4, GotoMoves DEF RecordRejection, Plain
<1>5. CASE lease /\ CanRejectModel(turn, h)
  <2>1. Begin(w, "reject", h)
    BY <1>5 DEF RecordRejection
  <2>2. CanApply("reject", h) /\ Holds("reject", h)
    BY <1>3, <1>5 DEF CanApply, Holds
  <2>3. Bears(worker[w])
    BY DEF RecordRejection, In, Bears
  <2> HIDE DEF h
  <2> QED
    BY <1>1, <2>1, <2>2, <2>3, BeginMoves DEF Ops
<1>6. CASE lease /\ ~CanRejectModel(turn, h)
  BY <1>1, <1>6, GotoMoves DEF RecordRejection, Plain
<1> QED
  BY <1>4, <1>5, <1>6

LEMMA ClaimMoves ==
    ASSUME Inv, NEW w \in Workers, ClaimRetry(w)
    PROVE  \E x : MovesTo(w, x)
<1> DEFINE n == Len(turn.rejections)
           c == [fence |-> Last(turn).fence, retryOrdinal |-> n, claimedAt |-> now,
                 nonce |-> <<w, Len(turn.steps), n>>]
<1>1. run # "accepted"
  BY Admitted DEF ClaimRetry, In
<1>2. CASE \E pc \in Plain : Goto(w, pc)
  BY <1>1, <1>2, GotoMoves DEF Plain
<1>3. CASE turn.state = "model_retry_waiting" /\ CanClaimRetry(turn, c) /\ Begin(w, "claim", c)
  <2>1. Last(turn) \in StepType /\ Steps \in Ordinals
    BY <1>3, PhaseKnown, LastTyped
  <2>2. n \in 1..MaxRetries + 1
    <3>1. n \in Nat /\ n # 0 /\ n <= MaxRetries
      BY <1>3, TurnTyped DEF CanClaimRetry
    <3> QED
      BY <3>1, BudgetAssumption
  <2>3. now \in Instants
    BY BudgetAssumption DEF Inv, Scalars, Instants
  <2>4. c \in ClaimType
    BY <2>1, <2>2, <2>3 DEF ClaimType, StepType, RetryNonces, Steps
  <2>5. CanApply("claim", c) /\ Holds("claim", c)
    BY <1>3, <2>4 DEF CanApply, Holds
  <2> HIDE DEF c
  <2> QED
    BY <1>1, <1>3, <2>5, BeginMoves DEF Ops
<1> QED
  BY <1>2, <1>3 DEF ClaimRetry, Plain

LEMMA SelectMoves ==
    ASSUME Inv, NEW w \in Workers, SelectTool(w)
    PROVE  \E x : MovesTo(w, x)
<1>1. run # "accepted" /\ Holds("select", Held(w))
  BY Admitted DEF SelectTool, In, Held, Inv, WorkersInv, WorkerOK, HeldOK
<1>2. CASE \E pc \in Plain : Goto(w, pc)
  BY <1>1, <1>2, GotoMoves DEF Plain
<1>3. CASE /\ HasStep(turn) /\ Last(turn).proposal = Held(w).proposal
           /\ Hold(w, "admit", Held(w))
  <2>1. HeldOK("admit", Held(w))
    BY <1>1, <1>3, NewestSelected DEF HeldOK, Holds, SelectionType
  <2> QED
    BY <1>1, <1>3, <2>1, HoldMoves DEF Sending
<1>4. CASE CanSelectTool(turn, Held(w)) /\ Begin(w, "select", Held(w))
  <2>1. CanApply("select", Held(w))
    BY <1>4 DEF CanApply
  <2> QED
    BY <1>1, <1>4, <2>1, BeginMoves DEF Ops
<1> QED
  BY <1>2, <1>3, <1>4 DEF SelectTool, Plain

LEMMA ResultMoves ==
    ASSUME Inv, NEW w \in Workers, RecordToolResult(w)
    PROVE  \E x : MovesTo(w, x)
<1>1. run # "accepted" /\ Holds("result", Held(w))
  BY Admitted DEF RecordToolResult, In, Held, Inv, WorkersInv, WorkerOK, HeldOK
<1>2. CASE \E pc \in Plain : Goto(w, pc)
  BY <1>1, <1>2, GotoMoves DEF Plain
<1>3. CASE Propose(w)
  BY <1>1, <1>3, ProposeMoves
<1>4. CASE CanRecordToolResult(turn, Held(w)) /\ Begin(w, "result", Held(w))
  <2>1. CanApply("result", Held(w))
    BY <1>4 DEF CanApply
  <2> QED
    BY <1>1, <1>4, <2>1, BeginMoves DEF Ops
<1> QED
  BY <1>2, <1>3, <1>4 DEF RecordToolResult, Plain

(* Whoever looks for its event again holds what it held.                    *)
LEMMA ReadbackMoves ==
    ASSUME Inv, NEW w \in Workers, worker[w].pc = "append", worker[w].op \notin {"reserve", "claim"},
           worker' = [worker EXCEPT ![w].pc = "readback"]
    PROVE  \E x : MovesTo(w, x)
<1> DEFINE x == [pc |-> "readback", op |-> worker[w].op, at |-> worker[w].at,
                 held |-> worker[w].held]
<1>1. worker' = [worker EXCEPT ![w] = x]
  <2>1. [worker[w] EXCEPT !.pc = "readback"] = x
    BY DEF Inv, WorkersInv, WorkerOK
  <2> QED
    BY <2>1
<1>2. WorkerOK(x)
  BY Admitted DEF Inv, WorkersInv, WorkerOK, HeldOK, AppendOK, Pcs
<1>3. ~Bears(x) /\ x.pc \notin Sending
  BY DEF Bears, Sending
<1>4. MovesTo(w, x)
  BY <1>1, <1>2, <1>3 DEF MovesTo
<1> QED
  BY <1>4

LEMMA ConflictMoves ==
    ASSUME Inv, NEW w \in Workers, AppendConflicts(w)
    PROVE  \E x : MovesTo(w, x)
<1>1. run # "accepted" /\ worker[w].pc = "append"
  BY Admitted DEF AppendConflicts, In
<1>2. CASE worker[w].op = "reserve"
  BY <1>1, <1>2, AwaitMoves DEF AppendConflicts
<1>3. CASE worker[w].op = "claim"
  BY <1>1, <1>3, GotoMoves DEF AppendConflicts, Plain
<1>4. CASE worker[w].op \notin {"reserve", "claim"}
  BY <1>1, <1>4, ReadbackMoves DEF AppendConflicts
<1> QED
  BY <1>2, <1>3, <1>4

(* A send right that is read back as the newest event is the executions own.*)
LEMMA RightMoves ==
    ASSUME Inv, NEW w \in Workers, worker[w].pc = "readback", worker[w].op \in {"reserve", "claim"},
           turn.revision = worker[w].at + 1, turn.state = "model_reserved",
           NEW pc \in {"consume", "dispatch"}, Hold(w, pc, Delivery)
    PROVE  \E x : MovesTo(w, x)
<1>1. HasStep(turn)
  BY PhaseKnown
<1>2. HeldOK(pc, Delivery) /\ Delivery.ordinal = Steps
  BY <1>1, DeliveryTyped DEF HeldOK
<1>3. Bears(worker[w])
  BY DEF Bears
<1> QED
  BY <1>2, <1>3, Admitted, HoldMoves

LEMMA LookbackMoves ==
    ASSUME Inv, NEW w \in Workers, Readback(w)
    PROVE  \E x : MovesTo(w, x)
<1>1. /\ run # "accepted" /\ worker[w].pc = "readback" /\ worker[w].op \in Ops
      /\ Holds(worker[w].op, Held(w))
  BY Admitted DEF Readback, In, Held, Inv, WorkersInv, WorkerOK, AppendOK
<1>2. CASE \E pc \in Plain : Goto(w, pc)
  BY <1>1, <1>2, GotoMoves DEF Plain
<1>3. CASE \/ \E deadline : AwaitRequest(w, deadline)
           \/ AwaitRetry(w, "advance")
  BY <1>1, <1>3, AwaitMoves
<1>4. CASE worker[w].op = "claim"
  <2>1. CASE HoldsWinner(w)
    BY <1>1, <1>4, <2>1, RightMoves DEF Readback, HoldsWinner
  <2> QED
    BY <1>2, <1>4, <2>1 DEF Readback, Plain
<1>5. CASE worker[w].op = "reserve"
  <2>1. CASE HoldsWinner(w)
    <3>1. turn.state = "model_reserved" /\ turn.revision = worker[w].at + 1
      BY <1>5, <2>1 DEF HoldsWinner
    <3>2. \E pc \in {"consume", "dispatch"} : Hold(w, pc, Delivery)
      BY <1>5, <2>1 DEF Readback
    <3> QED
      BY <1>1, <1>5, <3>1, <3>2, RightMoves
  <2>2. CASE ~HoldsWinner(w)
    BY <1>3, <1>5, <2>2 DEF Readback
  <2> QED
    BY <2>1, <2>2
<1>6. CASE worker[w].op = "reject"
  BY <1>2, <1>3, <1>6 DEF Readback, Plain, Recovers
<1>7. CASE worker[w].op = "select"
  <2>1. CASE HoldsWinner(w)
    <3>1. HasStep(turn) /\ Last(turn).proposal = Held(w).proposal
      BY <1>7, <2>1 DEF HoldsWinner
    <3>2. HeldOK("admit", Held(w))
      BY <1>1, <1>7, <3>1, NewestSelected DEF HeldOK, Holds, SelectionType
    <3>3. Hold(w, "admit", Held(w))
      BY <1>7, <2>1 DEF Readback
    <3> QED
      BY <1>1, <3>2, <3>3, HoldMoves DEF Sending
  <2> QED
    BY <1>2, <1>7, <2>1 DEF Readback, Plain, Recovers
<1>8. CASE worker[w].op = "result"
  <2>1. CASE HoldsWinner(w) /\ InPhase(turn, "result_ready")
    <3>1. Propose(w)
      BY <1>8, <2>1 DEF Readback
    <3> QED
      BY <1>1, <3>1, ProposeMoves
  <2> QED
    BY <1>2, <1>8, <2>1 DEF Readback, Plain, Recovers
<1>9. CASE worker[w].op = "output"
  <2>1. CASE HoldsWinner(w)
    <3>1. turn.output # None
      <4>1. Held(w).fence \in Fences /\ turn.output = Held(w).fence
        BY <1>1, <1>9, <2>1 DEF HoldsWinner, Holds, AnswerType
      <4> QED
        BY <4>1, NullAssumption DEF Fences
    <3>2. Goto(w, "finish_answer")
      BY <1>9, <2>1 DEF Readback
    <3> QED
      BY <1>1, <3>1, <3>2, GotoMoves
  <2>2. CASE ~HoldsWinner(w) /\ turn.output = None
    <3>1. Hold(w, "prepare", Held(w))
      BY <1>9, <2>2 DEF Readback
    <3>2. HeldOK("prepare", Held(w))
      BY <1>1, <1>9 DEF HeldOK
    <3> QED
      BY <1>1, <3>1, <3>2, HoldMoves DEF Sending
  <2>3. CASE ~HoldsWinner(w) /\ turn.output # None
    BY <1>2, <1>9, <2>3 DEF Readback, Plain, Recovers
  <2> QED
    BY <2>1, <2>2, <2>3
<1>10. CASE worker[w].op = "unavailable"
  <2>1. CASE HoldsWinner(w) /\ turn.state = "response_unavailable"
    <3>1. turn.unavailable # None /\ Goto(w, "recover")
      BY <1>10, <2>1 DEF Readback, Inv, TurnInv
    <3> QED
      BY <1>1, <3>1, GotoMoves
  <2> QED
    BY <1>2, <1>10, <2>1 DEF Readback, Plain, Recovers
<1> QED
  BY <1>1, <1>4, <1>5, <1>6, <1>7, <1>8, <1>9, <1>10 DEF Ops

LEMMA ConsumeMoves ==
    ASSUME Inv, NEW w \in Workers, ConsumeResult(w) \/ DispatchReservedModel(w)
    PROVE  \E x : MovesTo(w, x)
<1>1. /\ run # "accepted" /\ worker[w].pc \in Sending /\ Bears(worker[w])
      /\ Held(w) \in DeliveryType /\ Held(w).ordinal = Steps
  BY Admitted DEF ConsumeResult, DispatchReservedModel, In, Held, Inv, WorkersInv, WorkerOK,
     HeldOK, Bears, Sending, SendRightInv
<1>2. CASE \E pc \in Plain : Goto(w, pc)
  BY <1>1, <1>2, GotoMoves DEF Plain
<1>3. CASE \E pc \in {"dispatch", "send"} : Hold(w, pc, Held(w))
  <2>1. \A pc \in {"dispatch", "send"} : HeldOK(pc, Held(w))
    BY <1>1 DEF HeldOK
  <2> QED
    BY <1>1, <1>3, <2>1, HoldMoves
<1> QED
  BY <1>2, <1>3 DEF ConsumeResult, DispatchReservedModel, Plain

LEMMA ReadResultMoves ==
    ASSUME Inv, NEW w \in Workers, ReadToolResult(w)
    PROVE  \E x : MovesTo(w, x)
<1> DEFINE o == Held(w).ordinal
           notAfter == ResultDeadline(invocation[o], turn.steps[o])
           h == [ordinal |-> o, proposal |-> Held(w).proposal, authority |-> notAfter,
                 payload |-> o]
<1>1. /\ run # "accepted" /\ Held(w) \in SelectionType /\ Held(w).proposal = Proposal(o)
      /\ Selected(o)
  BY Admitted DEF ReadToolResult, In, Held, Inv, WorkersInv, WorkerOK, HeldOK
<1>2. CASE \E pc \in Plain : Goto(w, pc)
  BY <1>1, <1>2, GotoMoves DEF Plain
<1>3. CASE invocation[o].state = "settled" /\ Hold(w, "record", h)
  <2>1. invocation[o] \in InvocationType /\ turn.steps[o] \in StepType /\ o \in Ordinals
    BY <1>1, TurnTyped DEF Selected, Inv, Scalars, SelectionType
  <2>2. notAfter \in 0..WallClockDeadline /\ notAfter <= invocation[o].notAfter
    BY <2>1, BudgetAssumption DEF ResultDeadline, Lesser, InvocationType, StepType
  <2>3. HeldOK("record", h)
    BY <1>1, <1>3, <2>1, <2>2 DEF HeldOK, Holds, ResultType, SelectionType, Backed
  <2> HIDE DEF h
  <2> QED
    BY <1>1, <1>3, <2>3, HoldMoves DEF Sending
<1> QED
  BY <1>2, <1>3 DEF ReadToolResult, Plain

LEMMA AnswerMoves ==
    ASSUME Inv, NEW w \in Workers, AppendOutput(w)
    PROVE  \E x : MovesTo(w, x)
<1> DEFINE h == [ordinal |-> Held(w).ordinal, fence |-> Held(w).fence,
                 deadline |-> Held(w).deadline, head |-> head]
<1>1. run # "accepted" /\ Held(w) \in DeliveryType /\ Paid(Held(w))
  BY Admitted DEF AppendOutput, In, Held, Inv, WorkersInv, WorkerOK, HeldOK
<1>2. CASE turn.output = Held(w).fence /\ turn.output # None
  BY <1>1, <1>2, GotoMoves DEF AppendOutput
<1>3. CASE Hold(w, "prepare", h)
  <2>1. HeldOK("prepare", h)
    BY <1>1 DEF HeldOK, Holds, AnswerType, DeliveryType, Paid, Inv, Scalars
  <2> HIDE DEF h
  <2> QED
    BY <1>1, <1>3, <2>1, HoldMoves DEF Sending
<1>4. CASE Goto(w, "caught")
  BY <1>1, <1>4, GotoMoves DEF Plain
<1> QED
  BY <1>2, <1>3, <1>4 DEF AppendOutput

LEMMA OutputMoves ==
    ASSUME Inv, NEW w \in Workers, PrepareOutput(w) \/ MarkOutput(w)
    PROVE  \E x : MovesTo(w, x)
<1> DEFINE h == [Held(w) EXCEPT !.head = head]
<1>1. run # "accepted" /\ Holds("output", Held(w))
  BY Admitted DEF PrepareOutput, MarkOutput, In, Held, Inv, WorkersInv, WorkerOK, HeldOK
<1>2. CASE \E pc \in Plain : Goto(w, pc)
  BY <1>1, <1>2, GotoMoves DEF Plain
<1>3. CASE Hold(w, "mark_output", h)
  <2>1. head \in Nat
    BY DEF Inv, Scalars
  <2>2. h \in AnswerType /\ h.ordinal = Held(w).ordinal
    BY <1>1, <2>1 DEF Holds, AnswerType
  <2>3. HeldOK("mark_output", h)
    BY <1>1, <2>2 DEF HeldOK, Holds, Paid
  <2> HIDE DEF h
  <2> QED
    BY <1>1, <1>3, <2>3, HoldMoves DEF Sending
<1>4. CASE Hold(w, "prepare", Held(w))
  <2>1. HeldOK("prepare", Held(w))
    BY <1>1 DEF HeldOK
  <2> QED
    BY <1>1, <1>4, <2>1, HoldMoves DEF Sending
<1>5. CASE CanRecordOutput(turn, Held(w)) /\ Begin(w, "output", Held(w))
  <2>1. CanApply("output", Held(w))
    BY <1>5 DEF CanApply
  <2> QED
    BY <1>1, <1>5, <2>1, BeginMoves DEF Ops
<1> QED
  BY <1>2, <1>3, <1>4, <1>5 DEF PrepareOutput, MarkOutput, Plain

LEMMA CaughtMoves ==
    ASSUME Inv, NEW w \in Workers, Caught(w) \/ Winner(w)
    PROVE  \E x : MovesTo(w, x)
<1>1. run # "accepted"
  BY Admitted DEF Caught, Winner, In
<1>2. CASE \/ \E pc \in Plain : Goto(w, pc)
           \/ turn.output # None /\ Goto(w, "finish")
           \/ turn.unavailable # None /\ Goto(w, "recover")
  BY <1>1, <1>2, GotoMoves DEF Plain
<1>3. CASE \/ \E deadline : AwaitRequest(w, deadline)
           \/ AwaitRetry(w, "advance")
  BY <1>1, <1>3, AwaitMoves
<1>4. /\ turn.output # None <=> turn.state = "output_recorded"
      /\ turn.state = "response_unavailable" => turn.unavailable # None
  BY DEF Inv, TurnInv
<1>5. CASE Caught(w)
  BY <1>2, <1>3, <1>4, <1>5 DEF Caught, Plain
<1>6. CASE Winner(w)
  BY <1>2, <1>4, <1>6 DEF Winner, Plain
<1> QED
  BY <1>5, <1>6

LEMMA ReceiptTyped ==
    ASSUME Inv, turn.state \notin {"response_unavailable", "output_recorded", "cancelled"}
    PROVE  UnavailableReceipt(turn) \in ReceiptType
<1>1. turn.state \in {"open", "model_reserved", "model_retry_waiting", "tool_pending",
                      "result_ready"}
  BY TurnTyped DEF States, Accepts
<1>2. Steps \in 0..MaxModelTurns
  BY TurnTyped, BudgetAssumption
<1>3. CASE turn.state \in {"model_reserved", "model_retry_waiting"}
  <2>1. Last(turn).fence \in Fences
    BY <1>3, PhaseKnown, LastTyped DEF StepType
  <2> QED
    BY <1>2, <1>3, <2>1 DEF UnavailableReceipt, ReceiptType, Steps
<1>4. CASE turn.state = "tool_pending"
  <2>1. Last(turn).proposal = Proposal(Steps) /\ Steps \in Ordinals
    BY <1>4, PhaseKnown, LastTyped DEF StepFilled, PhaseOf
  <2> QED
    BY <1>2, <1>4, <2>1 DEF UnavailableReceipt, ReceiptType, Steps, Proposals
<1>5. CASE turn.state \in {"open", "result_ready"}
  BY <1>2, <1>5 DEF UnavailableReceipt, ReceiptType, Steps
<1> QED
  BY <1>1, <1>3, <1>4, <1>5

LEMMA UnavailableMoves ==
    ASSUME Inv, NEW w \in Workers, ResponseUnavailable(w) \/ MarkResponseUnavailable(w)
    PROVE  \E x : MovesTo(w, x)
<1>1. run # "accepted"
  BY Admitted DEF ResponseUnavailable, MarkResponseUnavailable, In
<1>2. CASE \E pc \in Plain : Goto(w, pc)
  BY <1>1, <1>2, GotoMoves DEF Plain
<1>3. CASE ResponseUnavailable(w)
  <2>1. CASE turn.state = "response_unavailable"
    <3>1. turn.unavailable # None
      BY <2>1 DEF Inv, TurnInv
    <3> QED
      BY <1>1, <1>3, <2>1, <3>1, GotoMoves DEF ResponseUnavailable
  <2>2. CASE /\ turn.state \notin {"response_unavailable", "output_recorded", "cancelled"}
             /\ Hold(w, "mark", UnavailableReceipt(turn))
    <3>1. HeldOK("mark", UnavailableReceipt(turn))
      BY <2>2, ReceiptTyped DEF HeldOK, Holds
    <3> QED
      BY <1>1, <2>2, <3>1, HoldMoves DEF Sending
  <2> QED
    BY <1>2, <1>3, <2>1, <2>2 DEF ResponseUnavailable, Plain
<1>4. CASE MarkResponseUnavailable(w)
  <2>1. Holds("unavailable", Held(w))
    BY <1>4 DEF MarkResponseUnavailable, In, Held, Inv, WorkersInv, WorkerOK, HeldOK
  <2>2. CASE CanMarkUnavailable(turn, Held(w)) /\ Begin(w, "unavailable", Held(w))
    <3>1. CanApply("unavailable", Held(w))
      BY <2>2 DEF CanApply
    <3> QED
      BY <1>1, <2>1, <2>2, <3>1, BeginMoves DEF Ops
  <2> QED
    BY <1>2, <1>4, <2>2 DEF MarkResponseUnavailable, Plain
<1> QED
  BY <1>3, <1>4

LEMMA RestingMoves ==
    ASSUME Inv, NEW w \in Workers, AttemptsSpent(w) \/ AwaitAnswer(w)
    PROVE  \E x : MovesTo(w, x)
<1>1. run # "accepted"
  BY Admitted DEF AttemptsSpent, AwaitAnswer, In
<1>2. \E pc \in Plain : Goto(w, pc)
  BY DEF AttemptsSpent, AwaitAnswer, Plain
<1> QED
  BY <1>1, <1>2, GotoMoves DEF Plain

(* The steps of an execution that only read the stores.                     *)
Reading(w) ==
    \/ AttemptsSpent(w) \/ AwaitAnswer(w) \/ Advance(w) \/ ReserveModel(w) \/ RecordRejection(w) \/ ClaimRetry(w)
    \/ SelectTool(w) \/ RecordToolResult(w) \/ AppendConflicts(w) \/ Readback(w)
    \/ ConsumeResult(w) \/ DispatchReservedModel(w) \/ ReadToolResult(w)
    \/ AppendOutput(w) \/ PrepareOutput(w) \/ MarkOutput(w)
    \/ Caught(w) \/ ResponseUnavailable(w) \/ MarkResponseUnavailable(w) \/ Winner(w)

LEMMA ReadingKeepsInv ==
    ASSUME Inv, NEW w \in Workers, Reading(w)
    PROVE  Inv' /\ UNCHANGED stores
<1>1. UNCHANGED stores
  BY DEF Reading, stores, External, AttemptsSpent, AwaitAnswer, Advance, ReserveModel, RecordRejection, ClaimRetry,
     SelectTool, RecordToolResult, AppendConflicts, Readback, ConsumeResult,
     DispatchReservedModel, ReadToolResult, AppendOutput, PrepareOutput, MarkOutput, Caught,
     ResponseUnavailable, MarkResponseUnavailable, Winner
<1>2. \E x : MovesTo(w, x)
  BY AdvanceMoves, ReserveMoves, RejectMoves, ClaimMoves, SelectMoves, ResultMoves,
     ConflictMoves, LookbackMoves, ConsumeMoves, ReadResultMoves, AnswerMoves, OutputMoves,
     CaughtMoves, UnavailableMoves, RestingMoves DEF Reading
<1> QED
  BY <1>1, <1>2, QuietKeepsInv

-----------------------------------------------------------------------------
(* One event on the turn.                                                  *)

(* Every event of an execution is written to a turn that has not ended.     *)
Active == {"open", "model_reserved", "model_retry_waiting", "tool_pending", "result_ready"}

(* An event moves the revision, and takes back nothing that was relied on.  *)
Grows ==
    /\ turn'.revision = turn.revision + 1 /\ Steps <= Steps'
    /\ \A o \in Ordinals : Selected(o) => Selected(o)'
    /\ turn.output # None => turn'.output # None
    /\ turn.unavailable # None => turn'.unavailable # None

LEMMA StatesAre ==
    States = {"open", "model_reserved", "model_retry_waiting", "tool_pending", "result_ready",
              "response_unavailable", "output_recorded", "cancelled"}
BY DEF States, Accepts

LEMMA ActiveNotEnded ==
    ASSUME Inv, turn.state \in Active
    PROVE  /\ turn.output = None /\ turn.cancellation = None /\ turn.unavailable = None
           /\ ~settled /\ head <= MaxHead
           /\ run \in {"accepted", "running", "cancelling", "waiting_for_input", "recovery_required"}
           /\ turn.state # "tool_pending" => run \in {"accepted", "running", "cancelling"}
<1>1. turn.output = None /\ turn.cancellation = None /\ turn.unavailable = None
  BY DEF Inv, TurnInv, Active
<1> QED
  BY <1>1 DEF Inv, RunInv, Scalars, Active, Runs

(* An event that adds no step and fills none.                               *)
LEMMA StepsKept ==
    ASSUME Inv, UNCHANGED <<declared, invocation, paid>>, turn'.steps = turn.steps,
           turn'.revision = turn.revision + 1,
           turn.output # None => turn'.output # None,
           turn.unavailable # None => turn'.unavailable # None,
           turn'.output # None => paid[Steps] = 1,
           turn'.state = "model_retry_waiting" => paid[Steps] = 0
    PROVE  Grows /\ PaidInv' /\ ResultInv'
<1>1. Steps' = Steps /\ Steps \in Nat
  BY TurnTyped DEF Steps
<1>2. Grows
  BY <1>1 DEF Grows, Selected
<1>3. PaidInv'
  BY <1>1 DEF PaidInv, Inv
<1>4. ResultInv'
  BY <1>1, <1>2 DEF ResultInv, Inv, Grows
<1> QED
  BY <1>2, <1>3, <1>4

LEMMA RejectWrites ==
    ASSUME Inv, UNCHANGED <<declared, invocation, paid>>, NEW h \in RejectionType,
           paid[Steps] = 0, CanRejectModel(turn, h), turn' = AfterRejectModel(turn, h)
    PROVE  TurnInv' /\ PaidInv' /\ ResultInv' /\ Grows /\ turn.state \in Active
<1>0. turn \in TurnType
  BY DEF Inv, TurnInv
<1>1. turn.state = "model_reserved"
  BY TurnTyped DEF CanRejectModel, Accepts, States
<1>2. Append(turn.rejections, h) \in Seq(RejectionType)
  BY TurnTyped
<1>3. /\ turn'.state = "model_retry_waiting" /\ turn'.revision = turn.revision + 1
      /\ turn'.steps = turn.steps /\ turn'.output = turn.output
      /\ turn'.unavailable = turn.unavailable /\ turn'.cancellation = turn.cancellation
      /\ turn'.calls = turn.calls
  BY <1>0 DEF AfterRejectModel, TurnType
<1>6. turn' \in TurnType
  <2>1. "model_retry_waiting" \in States /\ turn.revision + 1 \in Nat
    BY StatesAre, TurnTyped
  <2> QED
    BY <1>0, <1>1, <1>2, <2>1 DEF AfterRejectModel, TurnType
<1>4. TurnInv'
  BY <1>6, <1>1, <1>3 DEF TurnInv, Inv, Steps, StepFilled, PhaseOf
<1>5. turn'.output = None
  BY <1>1, <1>3 DEF Inv, TurnInv
<1> QED
  BY <1>1, <1>3, <1>4, <1>5, StepsKept DEF Active

LEMMA ClaimWrites ==
    ASSUME Inv, UNCHANGED <<declared, invocation, paid>>, NEW h \in ClaimType,
           CanClaimRetry(turn, h), turn' = AfterClaimRetry(turn, h)
    PROVE  /\ TurnInv' /\ PaidInv' /\ ResultInv' /\ Grows /\ turn.state \in Active
           /\ turn.state = "model_retry_waiting" /\ turn'.state = "model_reserved"
           /\ Steps' = Steps
<1>0. turn \in TurnType
  BY DEF Inv, TurnInv
<1>1. turn.state = "model_retry_waiting"
  BY TurnTyped DEF CanClaimRetry, Accepts, States
<1>3. /\ turn'.state = "model_reserved" /\ turn'.revision = turn.revision + 1
      /\ turn'.steps = turn.steps /\ turn'.output = turn.output
      /\ turn'.unavailable = turn.unavailable /\ turn'.cancellation = turn.cancellation
      /\ turn'.calls = turn.calls
  BY <1>0 DEF AfterClaimRetry, TurnType
<1>6. turn' \in TurnType
  <2>1. "model_reserved" \in States /\ turn.revision + 1 \in Nat
    BY StatesAre, TurnTyped
  <2> QED
    BY <1>0, <1>1, <2>1 DEF AfterClaimRetry, TurnType
<1>4. TurnInv'
  BY <1>6, <1>1, <1>3 DEF TurnInv, Inv, Steps, StepFilled, PhaseOf
<1>5. turn'.output = None
  BY <1>1, <1>3 DEF Inv, TurnInv
<1> QED
  BY <1>1, <1>3, <1>4, <1>5, StepsKept DEF Active, Steps

LEMMA OutputWrites ==
    ASSUME Inv, UNCHANGED <<declared, invocation, paid>>, NEW h \in AnswerType, Paid(h),
           CanRecordOutput(turn, h), turn' = AfterRecordOutput(turn, h)
    PROVE  /\ TurnInv' /\ PaidInv' /\ ResultInv' /\ Grows /\ turn.state \in Active
           /\ paid[Steps] = 1
<1>0. turn \in TurnType
  BY DEF Inv, TurnInv
<1>1. turn.state = "model_reserved" /\ paid[Steps] = 1
  BY TurnTyped DEF CanRecordOutput, Accepts, States, Paid, Steps
<1>2. h.fence \in Fences /\ h.fence # None
  BY NullAssumption DEF AnswerType, Fences
<1>3. /\ turn'.state = "output_recorded" /\ turn'.revision = turn.revision + 1
      /\ turn'.steps = turn.steps /\ turn'.output = h.fence
      /\ turn'.unavailable = turn.unavailable /\ turn'.cancellation = turn.cancellation
      /\ turn'.calls = turn.calls
  BY <1>0 DEF AfterRecordOutput, TurnType
<1>6. turn' \in TurnType
  <2>1. "output_recorded" \in States /\ turn.revision + 1 \in Nat
    BY StatesAre, TurnTyped
  <2> QED
    BY <1>0, <1>1, <1>2, <2>1 DEF AfterRecordOutput, TurnType
<1>4. TurnInv'
  BY <1>6, <1>1, <1>2, <1>3 DEF TurnInv, Inv, Steps, StepFilled, PhaseOf
<1> QED
  BY <1>1, <1>2, <1>3, <1>4, StepsKept DEF Active

LEMMA UnavailableWrites ==
    ASSUME Inv, UNCHANGED <<declared, invocation, paid>>, NEW h \in ReceiptType,
           CanMarkUnavailable(turn, h), turn' = AfterMarkUnavailable(turn, h)
    PROVE  /\ TurnInv' /\ PaidInv' /\ ResultInv' /\ Grows /\ turn.state \in Active
           /\ turn'.state = "response_unavailable" /\ Steps' = Steps
<1>0. turn \in TurnType
  BY DEF Inv, TurnInv
<1>1. turn.state \in Active
  BY TurnTyped DEF CanMarkUnavailable, Accepts, States, Active
<1>2. h.reason \in {"model", "tool", "allowance"} /\ h.reason # None
  BY NullAssumption DEF ReceiptType
<1>3. /\ turn'.state = "response_unavailable" /\ turn'.revision = turn.revision + 1
      /\ turn'.steps = turn.steps /\ turn'.output = turn.output
      /\ turn'.unavailable = h.reason /\ turn'.cancellation = turn.cancellation
      /\ turn'.calls = turn.calls
  BY <1>0 DEF AfterMarkUnavailable, TurnType
<1>6. turn' \in TurnType
  <2>1. "response_unavailable" \in States /\ turn.revision + 1 \in Nat
    BY StatesAre, TurnTyped
  <2> QED
    BY <1>0, <1>1, <1>2, <2>1 DEF AfterMarkUnavailable, TurnType
<1>4. TurnInv'
  BY <1>6, <1>1, <1>2, <1>3 DEF TurnInv, Inv, Steps, StepFilled, PhaseOf, Active
<1>5. turn'.output = None
  BY <1>1, <1>3, ActiveNotEnded
<1> QED
  BY <1>1, <1>2, <1>3, <1>4, <1>5, StepsKept DEF Steps

LEMMA CancelWrites ==
    ASSUME Inv, UNCHANGED <<declared, invocation, paid>>,
           turn.output = None, turn.cancellation = None, turn' = AfterCancel(turn, StopCommand)
    PROVE  /\ TurnInv' /\ PaidInv' /\ ResultInv' /\ Grows /\ CanCancel(turn)
           /\ turn'.state = "cancelled" /\ turn'.cancellation # None /\ turn'.output = None
           /\ turn'.unavailable = turn.unavailable /\ Steps' = Steps
<1>0. turn \in TurnType
  BY DEF Inv, TurnInv
<1>1. turn.state \in Active \union {"response_unavailable"}
  BY TurnTyped DEF Inv, TurnInv, Accepts, States, Active
<1>3. /\ turn'.state = "cancelled" /\ turn'.revision = turn.revision + 1
      /\ turn'.steps = turn.steps /\ turn'.output = turn.output
      /\ turn'.unavailable = turn.unavailable /\ turn'.cancellation = StopCommand
      /\ turn'.calls = turn.calls
  BY <1>0 DEF AfterCancel, TurnType
<1>6. turn' \in TurnType
  <2>1. "cancelled" \in States /\ turn.revision + 1 \in Nat
    BY StatesAre, TurnTyped
  <2> QED
    BY <1>0, <1>1, <2>1 DEF AfterCancel, TurnType
<1>4. TurnInv'
  BY <1>6, <1>1, <1>3, NullAssumption DEF TurnInv, Inv, Steps, StepFilled, PhaseOf, Active
<1>5. CanCancel(turn)
  BY <1>1 DEF CanCancel, Accepts, Active
<1> QED
  BY <1>1, <1>3, <1>4, <1>5, StepsKept, NullAssumption DEF Steps

(* An event that fills the newest step.                                     *)
LEMMA SelectWrites ==
    ASSUME Inv, UNCHANGED <<declared, invocation, paid>>, NEW h \in SelectionType,
           h.proposal = Proposal(h.ordinal), Paid(h),
           CanSelectTool(turn, h), turn' = AfterSelectTool(turn, h)
    PROVE  /\ TurnInv' /\ PaidInv' /\ ResultInv' /\ Grows /\ turn.state \in Active
           /\ paid[Steps] = 1 /\ turn'.output = None
<1> DEFINE step == [Last(turn) EXCEPT !.phase = "tool_pending", !.proposal = h.proposal]
<1>0. turn \in TurnType
  BY DEF Inv, TurnInv
<1>1. turn.state = "model_reserved" /\ h.ordinal = Steps
  BY TurnTyped DEF CanSelectTool, Accepts, States, Steps
<1>2. /\ Last(turn) = turn.steps[Steps] /\ Last(turn) \in StepType /\ Steps \in 1..Steps
      /\ Steps \in Ordinals /\ turn.steps[Steps].phase = "model_reserved" /\ StepFilled(Steps)
  BY <1>1, PhaseKnown, LastTyped DEF PhaseOf
<1>3. h.proposal = Proposal(Steps) /\ h.proposal \in Proposals /\ paid[Steps] = 1
  BY <1>1, <1>2 DEF SelectionType, Paid
<1>4. /\ step \in StepType /\ step.phase = "tool_pending" /\ step.proposal = Proposal(Steps)
      /\ step.result = None
  BY <1>2, <1>3 DEF StepType, StepFilled
<1>5. turn' = [turn EXCEPT !.state = "tool_pending", !.revision = @ + 1, !.tools = @ + 1,
                           !.steps = [@ EXCEPT ![Steps] = step]]
  BY <1>0, <1>2 DEF AfterSelectTool, Last, TurnType, StepType, Steps
<1> HIDE DEF step
<1>6. /\ turn'.state = "tool_pending" /\ turn'.revision = turn.revision + 1
      /\ turn'.steps = [turn.steps EXCEPT ![Steps] = step] /\ turn'.output = turn.output
      /\ turn'.unavailable = turn.unavailable /\ turn'.cancellation = turn.cancellation
      /\ turn'.calls = turn.calls
  BY <1>0, <1>5 DEF TurnType
<1>7. turn' \in TurnType
  <2>1. /\ "tool_pending" \in States /\ turn.revision + 1 \in Nat /\ turn.tools + 1 \in Nat
        /\ [turn.steps EXCEPT ![Steps] = step] \in Seq(StepType)
    BY <1>0, <1>2, <1>4, StatesAre, TurnTyped DEF TurnType
  <2> QED
    BY <1>0, <1>5, <2>1 DEF TurnType
<1>8. /\ Steps' = Steps /\ turn'.steps[Steps] = step
      /\ \A i \in 1..Steps : i # Steps => turn'.steps[i] = turn.steps[i]
  BY <1>2, <1>6, TurnTyped DEF Steps
<1>9. TurnInv'
  <2>1. \A i \in 1..Steps : StepFilled(i)' /\ (i < Steps => turn'.steps[i].phase = "result_ready")
    <3> TAKE i \in 1..Steps
    <3>1. CASE i = Steps
      BY <1>2, <1>4, <1>8, <3>1 DEF StepFilled
    <3>2. CASE i # Steps
      BY <1>8, <3>2 DEF StepFilled, Inv, TurnInv
    <3> QED
      BY <3>1, <3>2
  <2> QED
    BY <1>1, <1>2, <1>4, <1>6, <1>7, <1>8, <2>1 DEF TurnInv, Inv, PhaseOf
<1>10. Grows
  <2>1. \A o \in Ordinals : Selected(o) => Selected(o)'
    BY <1>4, <1>8 DEF Selected
  <2> QED
    BY <1>6, <1>8, <2>1, TurnTyped DEF Grows
<1>11. turn'.output = None
  BY <1>1, <1>6 DEF Inv, TurnInv
<1>12. PaidInv'
  <2>1. \A o \in 1..Steps : turn'.steps[o].proposal # None => paid[o] = 1
    BY <1>3, <1>8 DEF Inv, PaidInv
  <2> QED
    BY <1>6, <1>8, <1>11, <2>1 DEF Inv, PaidInv
<1>13. ResultInv'
  BY <1>4, <1>8, <1>10 DEF Inv, ResultInv, Grows
<1> QED
  BY <1>1, <1>3, <1>9, <1>10, <1>11, <1>12, <1>13 DEF Active

LEMMA ResultWrites ==
    ASSUME Inv, UNCHANGED <<declared, invocation, paid>>, NEW h \in ResultType, Backed(h),
           CanRecordToolResult(turn, h), turn' = AfterRecordToolResult(turn, h)
    PROVE  /\ TurnInv' /\ PaidInv' /\ ResultInv' /\ Grows /\ turn.state = "tool_pending"
           /\ turn'.output = None
<1> DEFINE step == [Last(turn) EXCEPT !.phase = "result_ready", !.result = h.authority,
                                      !.payload = h.payload]
<1>0. turn \in TurnType
  BY DEF Inv, TurnInv
<1>1. turn.state = "tool_pending" /\ h.ordinal = Steps
  BY TurnTyped DEF CanRecordToolResult, Accepts, States, Steps
<1>2. /\ Last(turn) = turn.steps[Steps] /\ Last(turn) \in StepType /\ Steps \in 1..Steps
      /\ Steps \in Ordinals /\ turn.steps[Steps].phase = "tool_pending" /\ StepFilled(Steps)
  BY <1>1, PhaseKnown, LastTyped DEF PhaseOf
<1>3. /\ h.authority \in Nat /\ h.authority # None /\ h.authority <= Last(turn).authority
      /\ h.payload \in Ordinals /\ invocation[Steps].state = "settled" /\ h.authority <= invocation[Steps].notAfter
  <2>1. h.authority \in 0..WallClockDeadline /\ h.payload \in Ordinals
    BY DEF ResultType
  <2> QED
    BY <1>1, <2>1, BudgetAssumption, NullAssumption DEF Backed, CanRecordToolResult
<1>4. /\ step \in StepType /\ step.phase = "result_ready" /\ step.proposal = Proposal(Steps)
      /\ step.result = h.authority /\ step.authority = Last(turn).authority
  BY <1>2, <1>3 DEF StepType, StepFilled
<1>5. turn' = [turn EXCEPT !.state = "result_ready", !.revision = @ + 1,
                           !.steps = [@ EXCEPT ![Steps] = step]]
  BY <1>0, <1>2 DEF AfterRecordToolResult, Last, TurnType, StepType, Steps
<1> HIDE DEF step
<1>6. /\ turn'.state = "result_ready" /\ turn'.revision = turn.revision + 1
      /\ turn'.steps = [turn.steps EXCEPT ![Steps] = step] /\ turn'.output = turn.output
      /\ turn'.unavailable = turn.unavailable /\ turn'.cancellation = turn.cancellation
      /\ turn'.calls = turn.calls
  BY <1>0, <1>5 DEF TurnType
<1>7. turn' \in TurnType
  <2>1. /\ "result_ready" \in States /\ turn.revision + 1 \in Nat
        /\ [turn.steps EXCEPT ![Steps] = step] \in Seq(StepType)
    BY <1>0, <1>2, <1>4, StatesAre, TurnTyped DEF TurnType
  <2> QED
    BY <1>0, <1>5, <2>1 DEF TurnType
<1>8. /\ Steps' = Steps /\ turn'.steps[Steps] = step
      /\ \A i \in 1..Steps : i # Steps => turn'.steps[i] = turn.steps[i]
  BY <1>2, <1>6, TurnTyped DEF Steps
<1>9. TurnInv'
  <2>1. \A i \in 1..Steps : StepFilled(i)' /\ (i < Steps => turn'.steps[i].phase = "result_ready")
    <3> TAKE i \in 1..Steps
    <3>1. CASE i = Steps
      BY <1>2, <1>3, <1>4, <1>8, <3>1 DEF StepFilled
    <3>2. CASE i # Steps
      BY <1>8, <3>2 DEF StepFilled, Inv, TurnInv
    <3> QED
      BY <3>1, <3>2
  <2> QED
    BY <1>1, <1>2, <1>4, <1>6, <1>7, <1>8, <2>1 DEF TurnInv, Inv, PhaseOf
<1>10. Grows
  <2>1. \A o \in Ordinals : Selected(o) => Selected(o)'
    BY <1>4, <1>8 DEF Selected
  <2> QED
    BY <1>6, <1>8, <2>1, TurnTyped DEF Grows
<1>11. turn'.output = None
  BY <1>1, <1>6 DEF Inv, TurnInv
<1>12. PaidInv'
  <2>1. \A o \in 1..Steps : turn'.steps[o].proposal # None => turn.steps[o].proposal # None
    BY <1>2, <1>8, NullAssumption DEF StepFilled
  <2> QED
    BY <1>6, <1>8, <1>11, <2>1 DEF Inv, PaidInv
<1>13. ResultInv'
  BY <1>2, <1>3, <1>4, <1>8, <1>10 DEF Inv, ResultInv, Grows
<1> QED
  BY <1>1, <1>9, <1>10, <1>11, <1>12, <1>13

(* An event that reserves the next request, for which nothing was paid.     *)
LEMMA ReserveWrites ==
    ASSUME Inv, UNCHANGED <<declared, invocation, paid>>, NEW h \in ReservationType,
           CanReserveModel(turn, h), turn' = AfterReserveModel(turn, h)
    PROVE  /\ TurnInv' /\ PaidInv' /\ ResultInv' /\ Grows
           /\ turn.state \in {"open", "result_ready"} /\ turn'.state = "model_reserved"
           /\ Steps' > 0 /\ paid[Steps'] = 0 /\ turn'.output = None
<1> DEFINE step == ReservedStep(h)
<1>0. turn \in TurnType
  BY DEF Inv, TurnInv
<1>1. turn.state \in {"open", "result_ready"}
  BY TurnTyped DEF CanReserveModel, Accepts, States
<1>2. Steps + 1 \in Ordinals /\ Steps + 1 <= MaxModelTurns
  BY TurnTyped, BudgetAssumption DEF CanReserveModel, FitsAllowance, Ordinals
<1>3. /\ step \in StepType /\ step.phase = "model_reserved" /\ step.proposal = None
      /\ step.result = None
  BY BudgetAssumption DEF ReservationType, ReservedStep, StepType
<1>4. CyclesFed(turn) \in Nat /\ h.tokens \in Nat
  BY <1>0, BudgetAssumption DEF CyclesFed, TurnType, ReservationType
<1> HIDE DEF step
<1>5. turn' = [turn EXCEPT !.state = "model_reserved", !.revision = @ + 1,
                           !.steps = Append(@, step), !.calls = @ + 1, !.tokens = @ + h.tokens,
                           !.cycles = CyclesFed(turn), !.rejections = <<>>, !.claim = None]
  BY DEF AfterReserveModel, step
<1>6. /\ turn'.state = "model_reserved" /\ turn'.revision = turn.revision + 1
      /\ turn'.steps = Append(turn.steps, step) /\ turn'.output = turn.output
      /\ turn'.unavailable = turn.unavailable /\ turn'.cancellation = turn.cancellation
      /\ turn'.calls = turn.calls + 1
  BY <1>0, <1>5 DEF TurnType
<1>7. turn' \in TurnType
  <2>1. /\ "model_reserved" \in States /\ turn.revision + 1 \in Nat /\ turn.calls + 1 \in Nat
        /\ Append(turn.steps, step) \in Seq(StepType) /\ turn.tokens + h.tokens \in Nat
        /\ <<>> \in Seq(RejectionType)
    BY <1>0, <1>3, <1>4, StatesAre, TurnTyped DEF TurnType
  <2> QED
    BY <1>0, <1>4, <1>5, <2>1 DEF TurnType
<1>8. /\ Steps' = Steps + 1 /\ turn'.steps[Steps + 1] = step
      /\ \A i \in 1..Steps : turn'.steps[i] = turn.steps[i]
  BY <1>3, <1>6, TurnTyped DEF Steps
<1>9. TurnInv'
  <2>1. Steps > 0 => turn.steps[Steps].phase = "result_ready"
    BY <1>1 DEF Inv, TurnInv, PhaseOf
  <2>2. \A i \in 1..Steps : StepFilled(i)' /\ turn'.steps[i].phase = "result_ready"
    BY <1>8, <2>1, TurnTyped DEF StepFilled, Inv, TurnInv
  <2>3. \A i : i = Steps + 1 => StepFilled(i)'
    BY <1>3, <1>8 DEF StepFilled
  <2>4. \A i \in 1..Steps + 1 : i \in 1..Steps \/ i = Steps + 1
    BY TurnTyped
  <2>5. Steps' > 0 /\ turn'.steps[Steps'].phase = "model_reserved"
    BY <1>3, <1>8, TurnTyped
  <2>6. turn'.calls = Steps'
    BY <1>6, <1>8, TurnTyped
  <2>7. \A i \in 1..Steps' : StepFilled(i)' /\ (i < Steps' => turn'.steps[i].phase = "result_ready")
    BY <1>8, <2>2, <2>3, <2>4, TurnTyped
  <2> QED
    BY <1>1, <1>2, <1>6, <1>7, <1>8, <2>5, <2>6, <2>7 DEF TurnInv, Inv, PhaseOf
<1>10. Grows
  <2>1. \A o \in Ordinals : Selected(o) => Selected(o)'
    BY <1>8, TurnTyped DEF Selected
  <2> QED
    BY <1>6, <1>8, <2>1, TurnTyped DEF Grows
<1>11. turn'.output = None
  BY <1>1, <1>6 DEF Inv, TurnInv
<1>12. paid[Steps + 1] = 0
  BY <1>2, TurnTyped DEF Inv, PaidInv, Scalars
<1>13. PaidInv'
  <2>1. \A o \in 1..Steps' : turn'.steps[o].proposal # None => paid[o] = 1
    <3>1. \A o \in 1..Steps' : o \in 1..Steps \/ o = Steps + 1
      BY <1>8, TurnTyped
    <3> QED
      BY <1>3, <1>8, <3>1 DEF Inv, PaidInv
  <2>2. \A o \in Ordinals : paid[o] = 1 => o <= Steps'
    BY <1>8, TurnTyped DEF Inv, PaidInv, Ordinals
  <2>3. \A o \in declared : o \in 1..Steps' /\ paid[o] = 1
    BY <1>8, TurnTyped DEF Inv, PaidInv
  <2>4. turn'.state # "model_retry_waiting"
    BY <1>6
  <2> QED
    BY <1>11, <2>1, <2>2, <2>3, <2>4 DEF PaidInv
<1>14. ResultInv'
  <2>1. \A o \in 1..Steps' : turn'.steps[o].result # None => o \in 1..Steps
    BY <1>3, <1>8, TurnTyped
  <2>2. \A o \in Ordinals : invocation'[o].state # "none" => Selected(o)'
    BY <1>10 DEF Inv, ResultInv, Grows
  <2> QED
    BY <1>8, <2>1, <2>2 DEF Inv, ResultInv
<1>15. Steps' > 0
  BY <1>8, TurnTyped
<1> QED
  BY <1>1, <1>6, <1>8, <1>9, <1>10, <1>11, <1>12, <1>13, <1>14, <1>15

-----------------------------------------------------------------------------
(* What the other executions rely on survives every step of the system.    *)

CallsKept ==
    \A o \in Ordinals :
        /\ invocation[o].state = "settled" => invocation'[o] = invocation[o]
        /\ invocation'[o].state # "none" => invocation[o].state # "none" \/ Selected(o)

Stable ==
    /\ UNCHANGED turn \/ Grows
    /\ run' = "accepted" => run = "accepted"
    /\ \A o \in Ordinals : paid[o] = 1 => paid'[o] = 1
    /\ CallsKept

LEMMA StillOK ==
    ASSUME Inv, Stable, NEW x, WorkerOK(x)
    PROVE  WorkerOK(x)'
<1>1. \A o \in Ordinals : Selected(o) => Selected(o)'
  BY DEF Stable, Grows, Selected, Steps
<1>2. ASSUME NEW op, NEW h, Holds(op, h) PROVE Holds(op, h)'
  <2>1. op = "select" => Paid(h)'
    BY <1>2 DEF Holds, SelectionType, Paid, Stable
  <2>2. op = "output" => Paid(h)'
    BY <1>2 DEF Holds, AnswerType, Paid, Stable
  <2>3. op = "result" => Backed(h)'
    BY <1>2 DEF Holds, ResultType, Backed, Stable, CallsKept
  <2> QED
    BY <1>2, <2>1, <2>2, <2>3 DEF Holds
<1>3. \A h, pc : HeldOK(pc, h) => HeldOK(pc, h)'
  <2> TAKE h, pc
  <2> HAVE HeldOK(pc, h)
  <2>1. pc \in {"answer", "declare"} => Paid(h)'
    BY DEF HeldOK, DeliveryType, Paid, Stable
  <2>2. pc \in {"admit", "result"} => Selected(h.ordinal)'
    <3>1. pc \in {"admit", "result"} => h.ordinal \in Ordinals /\ Selected(h.ordinal)
      BY DEF HeldOK, SelectionType
    <3>2. \A o \in Ordinals : o = h.ordinal /\ Selected(o) => Selected(o)'
      BY <1>1
    <3> QED
      BY <3>1, <3>2
  <2> QED
    BY <1>2, <2>1, <2>2 DEF HeldOK
<1>4. AppendOK(x) => AppendOK(x)'
  <2> HAVE AppendOK(x)
  <2>1. Holds(x.op, x.held)'
    BY <1>2 DEF AppendOK
  <2>2. CASE UNCHANGED turn
    BY <2>1, <2>2 DEF AppendOK, CanApply
  <2>3. CASE Grows
    BY <2>1, <2>3, TurnTyped DEF AppendOK, Grows
  <2> QED
    BY <2>2, <2>3 DEF Stable
<1>5. /\ turn.output # None => turn'.output # None
      /\ turn.unavailable # None => turn'.unavailable # None
  BY DEF Stable, Grows
<1> QED
  BY <1>3, <1>4, <1>5 DEF WorkerOK, Stable

LEMMA NoNewRight ==
    ASSUME Inv, UNCHANGED turn \/ Grows, NEW x, WorkerOK(x), Bears(x)'
    PROVE  Bears(x)
<1>1. CASE UNCHANGED turn
  BY <1>1 DEF Bears
<1>2. CASE Grows
  BY <1>2, TurnTyped DEF Grows, Bears, WorkerOK, AppendOK
<1> QED
  BY <1>1, <1>2

(* A step that leaves the turn and the payments alone, and moves at most    *)
(* one execution, which gains no send right.                                *)
LEMMA WorkersKept ==
    ASSUME Inv, Stable, UNCHANGED <<turn, paid>>,
           \/ UNCHANGED worker
           \/ \E w \in Workers : \E x : worker' = [worker EXCEPT ![w] = x] /\ WorkerOK(x)' /\ ~Bears(x)
    PROVE  WorkersInv' /\ SendRightInv'
<1>2. CASE UNCHANGED worker
  <2>1. WorkersInv'
    BY <1>2, StillOK DEF Inv, WorkersInv
  <2>2. \A x : Bears(x)' <=> Bears(x)
    BY DEF Bears
  <2>3. SendRightInv'
    BY <1>2, <2>2 DEF Inv, SendRightInv, Steps
  <2> QED
    BY <2>1, <2>3
<1>3. ASSUME NEW w \in Workers, NEW x, worker' = [worker EXCEPT ![w] = x], WorkerOK(x)', ~Bears(x)
      PROVE  WorkersInv' /\ SendRightInv'
  <2>1. /\ worker'[w] = x
        /\ \A v \in Workers : v # w => worker'[v] = worker[v]
        /\ worker' = [v \in Workers |-> worker'[v]]
    BY <1>3, Moved DEF Inv
  <2>2. WorkersInv'
    BY <1>3, <2>1, StillOK DEF Inv, WorkersInv
  <2>3. \A y : Bears(y)' <=> Bears(y)
    BY DEF Bears
  <2>4. SendRightInv'
    BY <1>3, <2>1, <2>3 DEF Inv, SendRightInv, Steps
  <2> QED
    BY <2>2, <2>4
<1> QED
  BY <1>2, <1>3

(* An execution that holds nothing.                                         *)
LEMMA AtOK ==
    ASSUME NEW pc \in Plain \union {"finish", "finish_answer", "settle", "recover"},
           run' = "accepted" => pc = "start",
           pc \in {"finish", "finish_answer", "settle"} => turn'.output # None,
           pc = "recover" => turn'.unavailable # None
    PROVE  WorkerOK(At(pc))' /\ ~Bears(At(pc)) /\ ~Bears(At(pc))'
BY DEF WorkerOK, At, HeldOK, Pcs, Bears, Sending, Plain

-----------------------------------------------------------------------------
(* The appends.                                                            *)

LEMMA CommitWrites ==
    ASSUME Inv, NEW w \in Workers, worker[w].pc = "append", Unchanged(w), Commit(w),
           UNCHANGED <<declared, invocation, paid>>
    PROVE  /\ worker[w].op \in Ops /\ TurnInv' /\ PaidInv' /\ ResultInv' /\ Grows
           /\ turn.state \in Active /\ turn'.cancellation = None
           /\ turn'.output # None <=> worker[w].op = "output"
           /\ worker[w].op \in {"reserve", "claim"} =>
                 /\ turn.state # "model_reserved" /\ turn'.state = "model_reserved"
                 /\ Steps' > 0 /\ paid[Steps'] = 0
           /\ worker[w].op = "result" => turn.state # "model_reserved"
           /\ worker[w].op \in {"select", "output"} => paid[Steps] = 1
           /\ worker[w].op = "reject" => Bears(worker[w])
           /\ worker[w].op = "unavailable" =>
                 turn'.state = "response_unavailable" /\ Steps' = Steps
<1> DEFINE op == worker[w].op
           h == Held(w)
<1>1. op \in Ops /\ Holds(op, h) /\ CanApply(op, h) /\ turn' = Applied(op, h)
  BY DEF Inv, WorkersInv, WorkerOK, AppendOK, Unchanged, Commit, Held
<1> HIDE DEF op, h
<1>2. CASE op = "reserve"
  <2>1. h \in ReservationType /\ CanReserveModel(turn, h) /\ turn' = AfterReserveModel(turn, h)
    BY <1>1, <1>2 DEF Holds, CanApply, Applied
  <2>2. turn.state \in Active /\ turn.state # "model_reserved" /\ turn'.state = "model_reserved"
    BY <2>1, ReserveWrites DEF Active
  <2>3. turn'.cancellation = None
    BY <2>2, ReserveWrites, <2>1 DEF TurnInv
  <2> QED
    BY <1>2, <2>1, <2>2, <2>3, ReserveWrites DEF op, Ops
<1>3. CASE op = "reject"
  <2>1. h \in RejectionType /\ CanRejectModel(turn, h) /\ turn' = AfterRejectModel(turn, h)
    BY <1>1, <1>3 DEF Holds, CanApply, Applied
  <2>2. Bears(worker[w]) /\ paid[Steps] = 0
    BY <1>3 DEF Bears, op, Inv, SendRightInv
  <2>3. turn'.output = None /\ turn'.cancellation = None
    <3>1. turn \in TurnType /\ turn.output = None /\ turn.cancellation = None
      BY <2>1, <2>2, RejectWrites, ActiveNotEnded DEF Inv, TurnInv
    <3> QED
      BY <2>1, <3>1 DEF AfterRejectModel, TurnType
  <2> QED
    BY <1>3, <2>1, <2>2, <2>3, RejectWrites DEF op, Ops
<1>4. CASE op = "claim"
  <2>1. h \in ClaimType /\ CanClaimRetry(turn, h) /\ turn' = AfterClaimRetry(turn, h)
    BY <1>1, <1>4 DEF Holds, CanApply, Applied
  <2>2. /\ turn.state = "model_retry_waiting" /\ turn'.state = "model_reserved"
        /\ TurnInv' /\ Steps' = Steps
    BY <2>1, ClaimWrites
  <2>3. turn'.output = None /\ turn'.cancellation = None
    BY <2>2 DEF TurnInv
  <2>4. Steps > 0 /\ paid[Steps] = 0
    BY <2>2, PhaseKnown DEF Inv, PaidInv
  <2> QED
    BY <1>4, <2>1, <2>2, <2>3, <2>4, ClaimWrites DEF op, Ops
<1>5. CASE op = "select"
  <2>1. /\ h \in SelectionType /\ h.proposal = Proposal(h.ordinal) /\ Paid(h)
        /\ CanSelectTool(turn, h) /\ turn' = AfterSelectTool(turn, h)
    BY <1>1, <1>5 DEF Holds, CanApply, Applied
  <2>2. turn'.cancellation = None
    <3>1. turn \in TurnType /\ turn.cancellation = None
      BY <2>1, SelectWrites, ActiveNotEnded DEF Inv, TurnInv
    <3> QED
      BY <2>1, <3>1 DEF AfterSelectTool, TurnType
  <2> QED
    BY <1>5, <2>1, <2>2, SelectWrites DEF op, Ops
<1>6. CASE op = "result"
  <2>1. /\ h \in ResultType /\ Backed(h)
        /\ CanRecordToolResult(turn, h) /\ turn' = AfterRecordToolResult(turn, h)
    BY <1>1, <1>6 DEF Holds, CanApply, Applied
  <2>2. turn.state \in Active /\ turn.state # "model_reserved"
    BY <2>1, ResultWrites DEF Active
  <2>3. turn'.cancellation = None
    <3>1. turn \in TurnType /\ turn.cancellation = None
      BY <2>2, ActiveNotEnded DEF Inv, TurnInv
    <3> QED
      BY <2>1, <3>1 DEF AfterRecordToolResult, TurnType
  <2> QED
    BY <1>6, <2>1, <2>2, <2>3, ResultWrites DEF op, Ops
<1>7. CASE op = "output"
  <2>1. /\ h \in AnswerType /\ Paid(h)
        /\ CanRecordOutput(turn, h) /\ turn' = AfterRecordOutput(turn, h)
    BY <1>1, <1>7 DEF Holds, CanApply, Applied
  <2>2. turn'.cancellation = None /\ turn'.output # None
    <3>1. turn \in TurnType /\ turn.cancellation = None
      BY <2>1, OutputWrites, ActiveNotEnded DEF Inv, TurnInv
    <3>2. h.fence # None
      BY <2>1, NullAssumption DEF AnswerType, Fences
    <3> QED
      BY <2>1, <3>1, <3>2 DEF AfterRecordOutput, TurnType
  <2> QED
    BY <1>7, <2>1, <2>2, OutputWrites DEF op, Ops
<1>8. CASE op = "unavailable"
  <2>1. /\ h \in ReceiptType
        /\ CanMarkUnavailable(turn, h) /\ turn' = AfterMarkUnavailable(turn, h)
    BY <1>1, <1>8 DEF Holds, CanApply, Applied
  <2>2. turn'.state = "response_unavailable" /\ TurnInv'
    BY <2>1, UnavailableWrites
  <2>3. turn'.output = None /\ turn'.cancellation = None
    BY <2>2 DEF TurnInv
  <2> QED
    BY <1>8, <2>1, <2>2, <2>3, UnavailableWrites DEF op, Ops
<1> QED
  BY <1>1, <1>2, <1>3, <1>4, <1>5, <1>6, <1>7, <1>8 DEF Ops

(* A run that waits for its owner or for recovery sees no event but that its*)
(* answer is unavailable.                                                   *)
LEMMA CommitRun ==
    ASSUME Inv, NEW w \in Workers, worker[w].pc = "append", Unchanged(w), Commit(w)
    PROVE  worker[w].op = "unavailable" \/ run \in {"running", "cancelling"}
<1> DEFINE op == worker[w].op
           h == Held(w)
<1>1. op \in Ops /\ Holds(op, h) /\ CanApply(op, h) /\ run # "accepted"
  BY Admitted DEF Inv, WorkersInv, WorkerOK, AppendOK, Unchanged, Commit, Held
<1> HIDE DEF op, h
<1>2. CASE op = "result"
  <2>1. h.ordinal = Steps /\ turn.state = "tool_pending" /\ invocation[Steps].state = "settled"
    BY <1>1, <1>2, TurnTyped DEF Holds, CanApply, CanRecordToolResult, Accepts, States, Backed, Steps
  <2>2. turn.state \in Active
    BY <2>1 DEF Active
  <2> QED
    BY <1>1, <2>1, <2>2, ActiveNotEnded DEF Inv, RunInv
<1>3. CASE op \notin {"result", "unavailable"}
  <2>1. turn.state \in Active \ {"tool_pending"}
    <3>1. CASE op = "reserve"
      BY <1>1, <3>1, TurnTyped DEF CanApply, CanReserveModel, Accepts, States, Active
    <3>2. CASE op = "reject"
      BY <1>1, <3>2, TurnTyped DEF CanApply, CanRejectModel, Accepts, States, Active
    <3>3. CASE op = "claim"
      BY <1>1, <3>3, TurnTyped DEF CanApply, CanClaimRetry, Accepts, States, Active
    <3>4. CASE op = "select"
      BY <1>1, <3>4, TurnTyped DEF CanApply, CanSelectTool, Accepts, States, Active
    <3>5. CASE op = "output"
      BY <1>1, <3>5, TurnTyped DEF CanApply, CanRecordOutput, Accepts, States, Active
    <3> QED
      BY <1>1, <1>3, <3>1, <3>2, <3>3, <3>4, <3>5 DEF Ops
  <2> QED
    BY <1>1, <2>1, ActiveNotEnded
<1> QED
  BY <1>2, <1>3 DEF op

(* A stored event: whoever wrote it reads it back, or lost the answer.      *)
LEMMA CommitKeepsInv ==
    ASSUME Inv, NEW w \in Workers, worker[w].pc = "append", Unchanged(w), Commit(w),
           UNCHANGED <<settled, run, lease, declared, invocation, now, stop, paid>>,
           faults' \in 0..MaxFaults,
           NEW x, worker' = [worker EXCEPT ![w] = x], WorkerOK(x)', x.pc \notin Sending,
           Bears(x)' => worker[w].op \in {"reserve", "claim"}
    PROVE  Inv'
<1>1. /\ TurnInv' /\ PaidInv' /\ ResultInv' /\ Grows /\ turn.state \in Active
      /\ turn'.cancellation = None /\ (turn'.output # None <=> worker[w].op = "output")
  BY CommitWrites
<1>2. /\ turn.output = None /\ turn.cancellation = None /\ ~settled /\ head <= MaxHead
      /\ run \in {"running", "cancelling", "waiting_for_input", "recovery_required"}
      /\ worker[w].op = "unavailable" \/ run \in {"running", "cancelling"}
  BY <1>1, ActiveNotEnded, Admitted, CommitRun
<1>3. Scalars'
  <2>1. head' \in 0..MaxHead + 1
    BY <1>2, WindowAssumption DEF Commit, Inv, Scalars
  <2>2. turn'.output = None => head' <= MaxHead
    BY <1>1, <1>2 DEF Commit
  <2> QED
    BY <2>1, <2>2 DEF Inv, Scalars
<1>4. RunInv'
  <2>1. CASE run \in {"running", "cancelling"}
    BY <1>1, <1>2, <2>1 DEF RunInv
  <2>2. CASE run \in {"waiting_for_input", "recovery_required"}
    <3>1. /\ worker[w].op = "unavailable" /\ turn'.output = None
          /\ turn'.state = "response_unavailable" /\ Steps' = Steps
      BY <1>1, <1>2, <2>2, CommitWrites
    <3> QED
      BY <1>1, <1>2, <2>2, <3>1 DEF RunInv, Inv
  <2> QED
    BY <1>2, <2>1, <2>2
<1>5. StopInv'
  <2>1. turn.revision \in Nat /\ turn'.revision = turn.revision + 1
    BY <1>1, TurnTyped DEF Grows
  <2>2. stop.pc \in {"target", "commit"} =>
           stop.at <= turn'.revision /\ stop.at # turn'.revision
    BY <2>1 DEF Inv, StopInv, Scalars
  <2> QED
    BY <1>1, <1>2, <2>1, <2>2 DEF Inv, StopInv, Idle
<1>6. /\ worker'[w] = x
      /\ \A v \in Workers : v # w => worker'[v] = worker[v]
      /\ worker' = [v \in Workers |-> worker'[v]]
  BY Moved DEF Inv
<1>7. WorkersInv'
  <2>1. Stable
    BY <1>1 DEF Stable, CallsKept
  <2> QED
    BY <1>6, <2>1, StillOK DEF Inv, WorkersInv
<1>8. \A v \in Workers : v # w /\ Bears(worker[v])' => Bears(worker[v])
  <2>1. \A y : WorkerOK(y) /\ Bears(y)' => Bears(y)
    BY <1>1, NoNewRight
  <2> QED
    BY <1>6, <2>1 DEF Inv, WorkersInv
<1>9. SendRightInv'
  <2> SUFFICES ASSUME NEW u \in Workers, Bears(worker[u])'
               PROVE  /\ turn'.state \in {"model_reserved", "response_unavailable", "cancelled"}
                      /\ Steps' > 0 /\ paid[Steps'] = 0
                      /\ worker'[u].pc \in Sending => worker'[u].held.ordinal = Steps'
                      /\ \A v \in Workers : Bears(worker[v])' => v = u
    BY DEF SendRightInv
  <2>1. CASE u = w
    <3>1. worker[w].op \in {"reserve", "claim"}
      BY <1>6, <2>1
    <3>2. turn.state \notin {"model_reserved", "response_unavailable", "cancelled"}
      BY <1>1, <3>1, CommitWrites DEF Active
    <3>3. \A v \in Workers : ~Bears(worker[v])
      BY <3>2 DEF Inv, SendRightInv
    <3> QED
      BY <1>6, <1>8, <2>1, <3>1, <3>3, CommitWrites
  <2>2. CASE u # w
    <3>1. Bears(worker[u])
      BY <1>8, <2>2
    <3>2. /\ turn.state = "model_reserved" /\ Steps > 0 /\ paid[Steps] = 0
          /\ worker[u].pc \in Sending => worker[u].held.ordinal = Steps
          /\ \A v \in Workers : Bears(worker[v]) => v = u
      BY <1>1, <3>1 DEF Inv, SendRightInv, Active
    <3>3. worker[w].op = "unavailable"
      BY <2>2, <3>2, CommitWrites DEF Ops
    <3>4. turn'.state = "response_unavailable" /\ Steps' = Steps
      BY <3>3, CommitWrites
    <3>5. ~Bears(worker[w])'
      BY <1>6, <3>3
    <3> QED
      BY <1>6, <1>8, <2>2, <3>2, <3>4, <3>5
  <2> QED
    BY <2>1, <2>2
<1> QED
  BY <1>1, <1>3, <1>4, <1>5, <1>7, <1>9 DEF Inv

LEMMA AcknowledgedKeepsInv ==
    ASSUME Inv, NEW w \in Workers, AppendAcknowledged(w)
    PROVE  Inv'
<1>1. /\ worker[w].pc = "append" /\ Unchanged(w) /\ Commit(w)
      /\ UNCHANGED <<settled, run, lease, declared, invocation, now, stop, faults, paid>>
      /\ worker' = [worker EXCEPT ![w].pc = "readback"]
  BY DEF AppendAcknowledged, In
<1>2. Grows /\ AppendOK(worker[w]) /\ run # "accepted"
  BY <1>1, CommitWrites, Admitted DEF Inv, WorkersInv, WorkerOK
<1>3. PICK x : x = [pc |-> "readback", op |-> worker[w].op, at |-> worker[w].at,
                    held |-> worker[w].held]
  OBVIOUS
<1>4. worker' = [worker EXCEPT ![w] = x]
  <2>1. [worker[w] EXCEPT !.pc = "readback"] = x
    BY <1>3 DEF Inv, WorkersInv, WorkerOK
  <2> QED
    BY <1>1, <2>1
<1>5. /\ x = [pc |-> x.pc, op |-> x.op, at |-> x.at, held |-> x.held]
      /\ x.pc = "readback" /\ x.op = worker[w].op /\ x.at = worker[w].at /\ x.held = worker[w].held
  BY <1>3
<1>6. WorkerOK(x)'
  <2>1. \A h, op : Holds(op, h) => Holds(op, h)'
    BY <1>1 DEF Holds, Paid, Backed
  <2>2. AppendOK(x)'
    BY <1>1, <1>2, <1>5, <2>1, TurnTyped DEF AppendOK, Grows, Unchanged
  <2> QED
    BY <1>1, <1>2, <1>5, <2>2 DEF WorkerOK, HeldOK, Pcs
<1>7. x.pc \notin Sending /\ (Bears(x)' => worker[w].op \in {"reserve", "claim"})
  BY <1>5 DEF Bears, Sending
<1>8. faults' \in 0..MaxFaults
  BY <1>1 DEF Inv, Scalars
<1> QED
  BY <1>1, <1>4, <1>6, <1>7, <1>8, CommitKeepsInv

(* A step that leaves the turn alone and moves at most one execution.       *)
LEMMA TurnKept ==
    ASSUME Inv, UNCHANGED turn
    PROVE  /\ TurnInv' /\ Steps' = Steps
           /\ UNCHANGED <<paid, declared>> => PaidInv'
           /\ CallsKept => ResultInv'
           /\ UNCHANGED invocation => CallsKept
<1>1. TurnInv' /\ Steps' = Steps
  BY DEF Inv, TurnInv, Steps, StepFilled
<1>2. UNCHANGED <<paid, declared>> => PaidInv'
  BY <1>1 DEF Inv, PaidInv
<1>3. CallsKept => ResultInv'
  BY <1>1, TurnTyped DEF Inv, ResultInv, CallsKept, Selected
<1>4. UNCHANGED invocation => CallsKept
  BY DEF CallsKept
<1> QED
  BY <1>1, <1>2, <1>3, <1>4

LEMMA FailureKeepsInv ==
    ASSUME Inv, NEW w \in Workers, AppendFails(w)
    PROVE  Inv'
<1>1. /\ worker[w].pc = "append" /\ faults < MaxFaults /\ faults' = faults + 1
      /\ UNCHANGED <<settled, run, lease, declared, invocation, now, stop, paid>>
  BY DEF AppendFails, In
<1>2. faults' \in 0..MaxFaults /\ run # "accepted"
  BY <1>1, Admitted, WindowAssumption DEF Inv, Scalars
<1>3. worker[w].op \in Ops /\ AppendOK(worker[w])
  BY <1>1 DEF Inv, WorkersInv, WorkerOK, AppendOK
<1>4. PICK x : x = IF worker[w].op = "reject"
                   THEN [pc |-> "readback", op |-> worker[w].op, at |-> worker[w].at,
                         held |-> worker[w].held]
                   ELSE At(Recovers(worker[w].op))
  OBVIOUS
<1>5. worker' = [worker EXCEPT ![w] = x]
  <2>1. [worker[w] EXCEPT !.pc = "readback"] =
           [pc |-> "readback", op |-> worker[w].op, at |-> worker[w].at, held |-> worker[w].held]
    BY DEF Inv, WorkersInv, WorkerOK
  <2>2. worker' = [worker EXCEPT ![w] =
           IF worker[w].op = "reject" THEN [worker[w] EXCEPT !.pc = "readback"]
           ELSE At(Recovers(worker[w].op))]
    BY DEF AppendFails
  <2> QED
    BY <1>4, <2>1, <2>2
<1>6. ASSUME UNCHANGED turn \/ Grows
      PROVE  WorkerOK(x)' /\ ~Bears(x) /\ ~Bears(x)'
  <2>1. CASE worker[w].op = "reject"
    <3>1. /\ x = [pc |-> x.pc, op |-> x.op, at |-> x.at, held |-> x.held]
          /\ x.pc = "readback" /\ x.op = "reject" /\ x.at = worker[w].at
          /\ x.held = worker[w].held
      BY <1>4, <2>1
    <3>2. AppendOK(x)'
      BY <1>3, <1>6, <3>1, <2>1, TurnTyped DEF AppendOK, Holds, Grows
    <3> QED
      BY <1>1, <1>2, <3>1, <3>2 DEF WorkerOK, HeldOK, Pcs, Bears, Sending
  <2>2. CASE worker[w].op # "reject"
    <3>1. PICK pc \in {"winner", "caught"} : x = At(pc)
      BY <1>4, <2>2 DEF Recovers
    <3> QED
      BY <1>1, <1>2, <3>1, AtOK DEF Plain
  <2> QED
    BY <2>1, <2>2
<1>7. CASE Unchanged(w) /\ Commit(w)
  <2>1. Grows
    BY <1>1, <1>7, CommitWrites
  <2>2. x.pc \notin Sending
    BY <1>6, <2>1 DEF Bears
  <2> QED
    BY <1>1, <1>2, <1>5, <1>6, <1>7, <2>1, <2>2, CommitKeepsInv
<1>8. CASE UNCHANGED <<turn, head>>
  <2>1. Stable
    BY <1>1, <1>8 DEF Stable, CallsKept
  <2>2. WorkersInv' /\ SendRightInv'
    BY <1>1, <1>5, <1>6, <1>8, <2>1, WorkersKept
  <2>3. Scalars' /\ RunInv' /\ StopInv'
    BY <1>1, <1>2, <1>8 DEF Inv, Scalars, RunInv, StopInv, Idle, Steps
  <2> QED
    BY <1>1, <1>8, <2>2, <2>3, TurnKept DEF Inv
<1> QED
  BY <1>7, <1>8 DEF AppendFails

-----------------------------------------------------------------------------
(* The other steps of an execution.                                        *)

(* Only the run, the pointer or the faults change, and the execution moves  *)
(* to where it holds nothing.                                               *)
LEMMA GotoKeepsWorkers ==
    ASSUME Inv, NEW w \in Workers, UNCHANGED <<turn, paid>>, Stable,
           NEW pc \in Plain \union {"finish", "finish_answer", "settle", "recover"},
           run' = "accepted" => pc = "start",
           pc \in {"finish", "finish_answer", "settle"} => turn.output # None,
           pc = "recover" => turn.unavailable # None,
           Goto(w, pc)
    PROVE  WorkersInv' /\ SendRightInv'
<1>1. WorkerOK(At(pc))' /\ ~Bears(At(pc))
  BY AtOK
<1>2. PICK x : x = At(pc)
  OBVIOUS
<1>3. WorkerOK(x)' /\ ~Bears(x) /\ worker' = [worker EXCEPT ![w] = x]
  BY <1>1, <1>2 DEF Goto
<1> QED
  BY <1>3, WorkersKept

LEMMA StartKeepsInv ==
    ASSUME Inv, NEW w \in Workers, Start(w)
    PROVE  Inv'
<1>1. UNCHANGED <<turn, settled, head, lease, declared, invocation, now, stop, faults, paid>>
  BY DEF Start
<1>2. /\ turn.output # None <=> turn.state = "output_recorded"
      /\ turn.state = "response_unavailable" => turn.unavailable # None
      /\ run = "accepted" => turn.state = "open" /\ ~settled
  BY DEF Inv, TurnInv, RunInv
<1>3. \/ UNCHANGED run /\ run # "accepted"
      \/ run = "accepted" /\ run' = "running"
  BY <1>2 DEF Start, Lifecycle
<1>4. PICK pc \in {"ended", "finish", "advance"} :
         Goto(w, pc) /\ (pc = "finish" => turn.output # None)
  BY <1>2 DEF Start
<1>5. Stable /\ run' # "accepted"
  BY <1>1, <1>3 DEF Stable, CallsKept
<1>6. WorkersInv' /\ SendRightInv'
  BY <1>1, <1>4, <1>5, GotoKeepsWorkers DEF Plain
<1>7. Scalars' /\ RunInv' /\ StopInv'
  BY <1>1, <1>2, <1>3 DEF Inv, Scalars, RunInv, StopInv, Idle, Runs, TurnInv, Steps
<1> QED
  BY <1>1, <1>6, <1>7, TurnKept DEF Inv

LEMMA RecoverKeepsInv ==
    ASSUME Inv, NEW w \in Workers, EnterRecoveryRequired(w)
    PROVE  Inv'
<1>1. /\ UNCHANGED <<turn, settled, head, lease, declared, invocation, now, stop, faults, paid>>
      /\ worker[w].pc = "recover" /\ run # "accepted"
  BY Admitted DEF EnterRecoveryRequired, In
<1>2. turn.unavailable # None
  BY <1>1 DEF Inv, WorkersInv, WorkerOK
<1>3. /\ run' # "accepted" /\ \E pc \in {"ended", "start"} : Goto(w, pc)
      /\ UNCHANGED run \/ (run \in {"running", "recovery_required"} /\ run' = "recovery_required")
  BY <1>1 DEF EnterRecoveryRequired, Lifecycle
<1>4. Stable
  BY <1>1, <1>3 DEF Stable, CallsKept
<1>5. WorkersInv' /\ SendRightInv'
  BY <1>1, <1>3, <1>4, GotoKeepsWorkers DEF Plain
<1>6. turn.state \in {"response_unavailable", "cancelled"} /\ turn.output = None
  BY <1>2 DEF Inv, TurnInv
<1>7. run \in {"running", "recovery_required"} =>
         turn.state = "response_unavailable" /\ turn.cancellation = None
  BY <1>6 DEF Inv, RunInv, TurnInv
<1>8. Scalars' /\ RunInv' /\ StopInv'
  BY <1>1, <1>3, <1>6, <1>7 DEF Inv, Scalars, RunInv, StopInv, Idle, Steps, Runs
<1> QED
  BY <1>1, <1>5, <1>8, TurnKept DEF Inv

LEMMA FinishKeepsInv ==
    ASSUME Inv, NEW w \in Workers, FinishOutput(w)
    PROVE  Inv'
<1>1. /\ UNCHANGED <<turn, settled, head, lease, declared, invocation, now, stop, faults, paid>>
      /\ worker[w].pc \in {"finish", "finish_answer"} /\ run # "accepted"
  BY Admitted DEF FinishOutput
<1>2. turn.output # None
  BY <1>1 DEF Inv, WorkersInv, WorkerOK
<1>3. /\ run' # "accepted" /\ \E pc \in {"ended", "start", "settle", "caught"} : Goto(w, pc)
      /\ UNCHANGED run \/ (run \in {"running", "completed"} /\ run' = "completed")
  BY <1>1 DEF FinishOutput, Lifecycle
<1>4. Stable
  BY <1>1, <1>3 DEF Stable, CallsKept
<1>5. WorkersInv' /\ SendRightInv'
  BY <1>1, <1>2, <1>3, <1>4, GotoKeepsWorkers DEF Plain
<1>6. turn.state = "output_recorded" /\ turn.cancellation = None
  BY <1>2 DEF Inv, TurnInv
<1>7. Scalars' /\ RunInv' /\ StopInv'
  BY <1>1, <1>2, <1>3, <1>6 DEF Inv, Scalars, RunInv, StopInv, Idle, Steps, Runs
<1> QED
  BY <1>1, <1>5, <1>7, TurnKept DEF Inv

LEMMA SettleKeepsInv ==
    ASSUME Inv, NEW w \in Workers, Settle(w)
    PROVE  Inv'
<1>1. /\ UNCHANGED <<turn, head, run, lease, declared, invocation, now, stop, faults, paid>>
      /\ worker[w].pc = "settle" /\ run # "accepted" /\ settled' = TRUE /\ Goto(w, "ended")
  BY Admitted DEF Settle, In
<1>2. turn.output # None
  BY <1>1 DEF Inv, WorkersInv, WorkerOK
<1>3. Stable
  BY <1>1 DEF Stable, CallsKept
<1>4. WorkersInv' /\ SendRightInv'
  BY <1>1, <1>3, GotoKeepsWorkers DEF Plain
<1>5. Scalars' /\ RunInv' /\ StopInv'
  BY <1>1, <1>2 DEF Inv, Scalars, RunInv, StopInv, Idle, Steps
<1> QED
  BY <1>1, <1>4, <1>5, TurnKept DEF Inv

LEMMA CrashKeepsInv ==
    ASSUME Inv, NEW w \in Workers, Crash(w)
    PROVE  Inv'
<1>1. /\ UNCHANGED <<turn, settled, head, run, lease, declared, invocation, now, stop, paid>>
      /\ faults < MaxFaults /\ faults' = faults + 1 /\ Goto(w, "start")
  BY DEF Crash, External
<1>2. Stable
  BY <1>1 DEF Stable, CallsKept
<1>3. WorkersInv' /\ SendRightInv'
  BY <1>1, <1>2, GotoKeepsWorkers DEF Plain
<1>4. Scalars' /\ RunInv' /\ StopInv'
  BY <1>1, WindowAssumption DEF Inv, Scalars, RunInv, StopInv, Idle, Steps
<1> QED
  BY <1>1, <1>3, <1>4, TurnKept DEF Inv

LEMMA HoldIs ==
    ASSUME NEW w, NEW pc, NEW h, Hold(w, pc, h)
    PROVE  worker' = [worker EXCEPT ![w] = [pc |-> pc, op |-> None, at |-> 0, held |-> h]]
<1>1. [At(pc) EXCEPT !.held = h] = [pc |-> pc, op |-> None, at |-> 0, held |-> h]
  BY DEF At
<1> QED
  BY <1>1 DEF Hold

(* The paid request: its right is used up, whatever comes of it.            *)
LEMMA SendKeepsInv ==
    ASSUME Inv, NEW w \in Workers, Send(w)
    PROVE  Inv'
<1> DEFINE o == Held(w).ordinal
           d == Held(w)
<1>1. /\ worker[w].pc = "send" /\ run # "accepted" /\ d \in DeliveryType
      /\ UNCHANGED <<turn, declared, settled, head, run, lease, invocation, now, stop, faults>>
  BY Admitted DEF Send, In, Held, External, Inv, WorkersInv, WorkerOK, HeldOK
<1>2. /\ Bears(worker[w]) /\ o = Steps /\ o \in Ordinals /\ Steps > 0 /\ paid[Steps] = 0
      /\ turn.state \in {"model_reserved", "response_unavailable", "cancelled"}
      /\ \A v \in Workers : Bears(worker[v]) => v = w
  BY <1>1 DEF Held, Bears, Sending, Inv, SendRightInv, DeliveryType
<1>3. CASE /\ paid' = [paid EXCEPT ![o] = @ + 1]
           /\ \/ Hold(w, "answer", d) \/ Hold(w, "declare", d) \/ Goto(w, "caught")
  <2>1. /\ paid' \in [Ordinals -> {0, 1}] /\ paid'[Steps] = 1
        /\ \A i \in Ordinals : i # Steps => paid'[i] = paid[i]
    BY <1>2, <1>3 DEF Inv, Scalars
  <2>2. Stable
    BY <1>1, <2>1, <1>2 DEF Stable, CallsKept
  <2>3. PICK x : /\ worker' = [worker EXCEPT ![w] = x]
                 /\ \/ x = [pc |-> "answer", op |-> None, at |-> 0, held |-> d]
                    \/ x = [pc |-> "declare", op |-> None, at |-> 0, held |-> d]
                    \/ x = At("caught")
    BY <1>3 DEF Hold, Goto, At
  <2>4. WorkerOK(x)' /\ ~Bears(x)'
    <3>1. CASE x = At("caught")
      BY <1>1, <3>1, AtOK DEF Plain
    <3>2. PICK h : h = d
      OBVIOUS
    <3>3. CASE \E pc \in {"answer", "declare"} :
                  x = [pc |-> pc, op |-> None, at |-> 0, held |-> h]
      <4>1. h \in DeliveryType /\ h.ordinal = Steps
        BY <1>1, <1>2, <3>2
      <4>2. Paid(h)'
        BY <2>1, <4>1 DEF Paid
      <4> QED
        BY <1>1, <3>3, <4>1, <4>2 DEF WorkerOK, HeldOK, Pcs, Bears, Sending
    <3> QED
      BY <2>3, <3>1, <3>2, <3>3
  <2>5. /\ worker'[w] = x
        /\ \A v \in Workers : v # w => worker'[v] = worker[v]
        /\ worker' = [v \in Workers |-> worker'[v]]
    BY <2>3, Moved DEF Inv
  <2>6. WorkersInv'
    BY <2>2, <2>4, <2>5, StillOK DEF Inv, WorkersInv
  <2>7. SendRightInv'
    <3>1. \A y : Bears(y)' <=> Bears(y)
      BY <1>1 DEF Bears
    <3>2. \A v \in Workers : ~Bears(worker[v])'
      BY <1>2, <2>4, <2>5, <3>1
    <3> QED
      BY <3>2 DEF SendRightInv
  <2>8. PaidInv'
    <3>1. Steps' = Steps
      BY <1>1 DEF Steps
    <3>2. \A i \in 1..Steps : i \in Ordinals
      BY TurnTyped
    <3>3. turn.state # "model_retry_waiting"
      BY <1>2
    <3>4. \A i \in Ordinals : paid'[i] = 1 => i <= Steps
      BY <1>2, <2>1, TurnTyped DEF Inv, PaidInv
    <3>5. \A i \in 1..Steps : turn.steps[i].proposal # None => paid'[i] = 1
      BY <2>1, <3>2 DEF Inv, PaidInv
    <3>6. \A i \in declared : i \in 1..Steps /\ paid'[i] = 1
      BY <2>1, <3>2 DEF Inv, PaidInv
    <3> QED
      BY <1>1, <2>1, <3>1, <3>3, <3>4, <3>5, <3>6 DEF PaidInv
  <2>9. Scalars' /\ RunInv' /\ StopInv'
    BY <1>1, <2>1 DEF Inv, Scalars, RunInv, StopInv, Idle, Steps
  <2> QED
    BY <1>1, <2>6, <2>7, <2>8, <2>9, TurnKept DEF Inv
<1>4. ASSUME NEW retryAt \in {now, now + 1}, Hold(w, "reject", Rejection(d, retryAt)),
             UNCHANGED paid
      PROVE  Inv'
  <2>1. Rejection(d, retryAt) \in RejectionType
    <3>1. retryAt \in Instants /\ 0 \in Instants /\ WallClockDeadline \in Instants
      BY BudgetAssumption DEF Inv, Scalars, Instants
    <3> QED
      BY <1>1, <3>1 DEF Rejection, RejectionType, DeliveryType
  <2>2. HeldOK("reject", Rejection(d, retryAt))
    BY <2>1 DEF HeldOK, Holds
  <2>3. UNCHANGED stores
    BY <1>1, <1>4 DEF stores
  <2> QED
    BY <1>1, <1>2, <1>4, <2>2, <2>3, HoldMoves, QuietKeepsInv DEF Sending
<1>5. CASE Goto(w, "caught") /\ UNCHANGED paid
  <2>1. UNCHANGED stores
    BY <1>1, <1>5 DEF stores
  <2> QED
    BY <1>1, <1>5, <2>1, GotoMoves, QuietKeepsInv DEF Plain
<1> QED
  BY <1>3, <1>4, <1>5 DEF Send

LEMMA DeclarationKeepsInv ==
    ASSUME Inv, NEW w \in Workers, StoreDeclaration(w)
    PROVE  Inv'
<1> DEFINE d == Held(w)
<1>1. /\ worker[w].pc = "declare" /\ run # "accepted" /\ d \in DeliveryType /\ Paid(d)
      /\ UNCHANGED <<turn, settled, head, run, lease, invocation, now, stop, faults, paid>>
  BY Admitted DEF StoreDeclaration, In, Held, External, Inv, WorkersInv, WorkerOK, HeldOK
<1>2. CASE UNCHANGED declared /\ \E pc \in {"caught", "ended"} : Goto(w, pc)
  <2>1. UNCHANGED stores
    BY <1>1, <1>2 DEF stores
  <2> QED
    BY <1>1, <1>2, <2>1, GotoMoves, QuietKeepsInv DEF Plain
<1>3. CASE /\ declared' = declared \union {d.ordinal}
           /\ Hold(w, "select", [ordinal |-> d.ordinal, fence |-> d.fence,
                                 proposal |-> Proposal(d.ordinal)])
  <2>1. PICK h : h = [ordinal |-> d.ordinal, fence |-> d.fence, proposal |-> Proposal(d.ordinal)]
    OBVIOUS
  <2>2. h \in SelectionType /\ h.proposal = Proposal(h.ordinal) /\ Paid(h)
    BY <1>1, <2>1 DEF SelectionType, DeliveryType, Proposals, Paid
  <2>3. PICK x : x = [pc |-> "select", op |-> None, at |-> 0, held |-> h]
    OBVIOUS
  <2>4. worker' = [worker EXCEPT ![w] = x]
    <3>1. Hold(w, "select", h)
      BY <1>3, <2>1
    <3> QED
      BY <2>3, <3>1, HoldIs
  <2>5. Stable
    BY <1>1 DEF Stable, CallsKept
  <2>6. WorkerOK(x)' /\ ~Bears(x)
    <3>1. Holds("select", h)'
      BY <1>1, <2>2 DEF Holds, Paid
    <3> QED
      BY <1>1, <2>3, <3>1 DEF WorkerOK, HeldOK, Pcs, Bears, Sending
  <2>7. WorkersInv' /\ SendRightInv'
    BY <1>1, <2>4, <2>5, <2>6, WorkersKept
  <2>8. PaidInv'
    <3>1. d.ordinal \in 1..Steps /\ paid[d.ordinal] = 1
      BY <1>1, TurnTyped DEF Inv, PaidInv, Paid, DeliveryType, Ordinals
    <3>2. Steps' = Steps
      BY <1>1 DEF Steps
    <3> QED
      BY <1>1, <1>3, <3>1, <3>2 DEF Inv, PaidInv
  <2>9. Scalars' /\ RunInv' /\ StopInv'
    BY <1>1 DEF Inv, Scalars, RunInv, StopInv, Idle, Steps
  <2> QED
    BY <1>1, <2>7, <2>8, <2>9, TurnKept DEF Inv
<1> QED
  BY <1>2, <1>3 DEF StoreDeclaration

(* A call without a result is that of the newest step, and the turn waits   *)
(* for it or has given its answer up.                                       *)
LEMMA OpenIsNewest ==
    ASSUME Inv, run \in {"running", "waiting_for_input"}, NEW p \in Ordinals, Selected(p),
           invocation[p].state # "settled"
    PROVE  p = Steps /\ Steps > 0 /\ turn.state \in {"tool_pending", "response_unavailable"}
<1>1. p \in 1..Steps /\ StepFilled(p) /\ turn.steps[p].proposal # None
  BY TurnTyped, NullAssumption DEF Selected
<1>2. turn.steps[p].result = None
  BY <1>1 DEF Inv, ResultInv
<1>3. turn.steps[p].phase = "tool_pending"
  BY <1>1, <1>2, TurnTyped, NullAssumption DEF StepFilled, StepType
<1>4. p = Steps /\ Steps > 0
  BY <1>1, <1>3, TurnTyped DEF Inv, TurnInv
<1>5. turn.state # "cancelled"
  BY DEF Inv, TurnInv, RunInv
<1> QED
  BY <1>3, <1>4, <1>5, TurnTyped, StatesAre DEF Inv, TurnInv, PhaseOf

(* A call is opened, answered by the owner, claimed or settled.             *)
LEMMA CallMoves ==
    ASSUME Inv, run \in {"running", "waiting_for_input"},
           UNCHANGED <<turn, settled, head, lease, declared, now, stop, faults, paid>>,
           invocation' \in [Ordinals -> InvocationType], CallsKept,
           \/ run' = "running"
           \/ /\ \/ run' = "waiting_for_input" /\ invocation'[Steps].state = "awaiting"
                 \/ run' = "recovery_required" /\ invocation'[Steps].state = "recovery_required"
              /\ Steps > 0 /\ turn.state \in {"tool_pending", "response_unavailable"}
    PROVE  /\ Stable /\ TurnInv' /\ PaidInv' /\ ResultInv'
           /\ Scalars' /\ RunInv' /\ StopInv'
<1>1. Stable
  BY DEF Stable
<1>2. stop.pc \in {"idle", "admit", "done"}
  BY DEF Inv, StopInv, Scalars
<1>3. turn.cancellation = None /\ Steps' = Steps
  BY DEF Inv, RunInv, Steps
<1>4. RunInv'
  <2>1. turn.state \in {"tool_pending", "response_unavailable"} => turn.output = None
    BY DEF Inv, TurnInv
  <2> QED
    BY <1>3, <2>1 DEF Inv, RunInv
<1>5. Scalars'
  BY DEF Inv, Scalars, Runs
<1>6. StopInv'
  BY <1>2 DEF StopInv
<1> QED
  BY <1>1, <1>4, <1>5, <1>6, TurnKept

(* The owner's refusal settles what it was asked for.                       *)
LEMMA RejectionKept ==
    ASSUME Inv, NEW notAfter \in 0..WallClockDeadline, Rejects(notAfter)
    PROVE  invocation' \in [Ordinals -> InvocationType] /\ CallsKept /\ run' = "running"
<1>1. invocation \in [Ordinals -> InvocationType]
  BY DEF Inv, Scalars
<1>2. Result(notAfter) \in InvocationType
  BY DEF Result, InvocationType, CallStates
<1> QED
  BY <1>1, <1>2 DEF Rejects, CallsKept

LEMMA EntryKept ==
    ASSUME Inv, NEW n \in Ordinals, Selected(n), Enters(n)
    PROVE  invocation' \in [Ordinals -> InvocationType] /\ CallsKept
<1>1. invocation \in [Ordinals -> InvocationType]
  BY DEF Inv, Scalars
<1>2. PICK state \in CallStates :
         /\ invocation' = [invocation EXCEPT ![n].state = state]
         /\ invocation[n].state = "settled" => state = "settled"
  BY <1>1 DEF Enters, InvocationType, CallStates
<1>3. invocation'[n] = [invocation[n] EXCEPT !.state = state]
      /\ \A o \in Ordinals : o # n => invocation'[o] = invocation[o]
  BY <1>1, <1>2
<1>4. [invocation[n] EXCEPT !.state = state] \in InvocationType
      /\ (invocation[n].state = state => [invocation[n] EXCEPT !.state = state] = invocation[n])
  BY <1>1 DEF InvocationType
<1> QED
  BY <1>1, <1>2, <1>3, <1>4 DEF CallsKept

LEMMA AdmissionKeepsInv ==
    ASSUME Inv, NEW w \in Workers, AdmitTool(w)
    PROVE  Inv'
<1> DEFINE d == Held(w)
           n == d.ordinal
<1>1. /\ worker[w].pc = "admit" /\ run # "accepted" /\ d \in SelectionType /\ n \in Ordinals
      /\ d.proposal = Proposal(n) /\ Selected(n)
      /\ UNCHANGED <<turn, settled, head, lease, declared, now, stop, faults, paid>>
  BY Admitted DEF AdmitTool, In, Held, Inv, WorkersInv, WorkerOK, HeldOK, SelectionType
<1>2. CASE UNCHANGED <<invocation, run>> /\ Goto(w, "unavailable")
  <2>1. UNCHANGED stores
    BY <1>1, <1>2 DEF stores
  <2> QED
    BY <1>1, <1>2, <2>1, GotoMoves, QuietKeepsInv DEF Plain
<1>3. CASE /\ Hold(w, "result", d)
           /\ (Overdue(n) /\ Rejects(0)) \/ (Admits(n) /\ Enters(n))
  <2>1. /\ Stable /\ TurnInv' /\ PaidInv' /\ ResultInv' /\ Scalars' /\ RunInv' /\ StopInv'
        /\ run' # "accepted"
    <3>1. CASE Overdue(n) /\ Rejects(0)
      <4>1. run = "waiting_for_input" /\ 0 \in 0..WallClockDeadline
        BY <3>1, BudgetAssumption DEF Overdue
      <4> QED
        BY <1>1, <3>1, <4>1, RejectionKept, CallMoves
    <3>2. CASE Admits(n) /\ Enters(n)
      <4>1. run = "running" /\ invocation' \in [Ordinals -> InvocationType] /\ CallsKept
        BY <1>1, <3>2, EntryKept DEF Admits, Admissible
      <4>2. CASE run' = "running"
        BY <1>1, <4>1, <4>2, CallMoves
      <4>3. CASE run' # "running"
        <5>1. invocation[n].state = "none" /\ run' = "waiting_for_input"
          BY <3>2, <4>1, <4>3 DEF Enters
        <5>2. invocation'[n].state = "awaiting"
          <6>1. invocation \in [Ordinals -> InvocationType] /\ n \in Gated
            BY <3>2, <4>1, <4>3 DEF Inv, Scalars, Enters
          <6> QED
            BY <1>1, <3>2, <5>1, <6>1 DEF Enters, InvocationType
        <5>3. n = Steps /\ Steps > 0 /\ turn.state \in {"tool_pending", "response_unavailable"}
          BY <1>1, <4>1, <5>1, OpenIsNewest
        <5> QED
          BY <1>1, <4>1, <5>1, <5>2, <5>3, CallMoves
      <4> QED
        BY <4>2, <4>3
    <3> QED
      BY <1>3, <3>1, <3>2
  <2>2. PICK h : h = d
    OBVIOUS
  <2>3. PICK x : x = [pc |-> "result", op |-> None, at |-> 0, held |-> h]
    OBVIOUS
  <2>4. worker' = [worker EXCEPT ![w] = x]
    <3>1. Hold(w, "result", h)
      BY <1>3, <2>2
    <3> QED
      BY <2>3, <3>1, HoldIs
  <2>5. WorkerOK(x)' /\ ~Bears(x)
    <3>1. h \in SelectionType /\ h.proposal = Proposal(h.ordinal) /\ Selected(h.ordinal)
      BY <1>1, <2>2
    <3>2. HeldOK("result", h)'
      <4>1. (turn.steps)' = turn.steps
        BY <1>1
      <4> QED
        BY <3>1, <4>1 DEF HeldOK, Selected, Steps
    <3> QED
      BY <2>1, <2>3, <3>2 DEF WorkerOK, Pcs, Bears, Sending
  <2>6. WorkersInv' /\ SendRightInv'
    BY <1>1, <2>1, <2>4, <2>5, WorkersKept
  <2> QED
    BY <2>1, <2>6 DEF Inv
<1> QED
  BY <1>2, <1>3 DEF AdmitTool

-----------------------------------------------------------------------------
(* Stop.                                                                   *)

(* Stop moves while the turn stays as it is.                                *)
LEMMA StopMovesKeepInv ==
    ASSUME Inv, StopSelect \/ StopAdmit \/ StopLoad \/ StopTarget \/ StopRecord \/ StopFinalize
    PROVE  Inv'
<1>1. UNCHANGED <<turn, settled, head, lease, declared, invocation, now, worker, faults, paid>>
  BY DEF StopSelect, StopAdmit, StopLoad, StopTarget, StopRecord, StopFinalize
<1>2. /\ stop \in [pc : StopPcs, at : Nat, head : Nat] /\ head \in Nat /\ turn.revision \in Nat
      /\ run \in Runs
  BY TurnTyped DEF Inv, Scalars
<1>3. /\ stop' \in [pc : StopPcs, at : Nat, head : Nat] /\ run' \in Runs
      /\ run' = "accepted" => run = "accepted"
      /\ RunInv' /\ StopInv'
  <2>1. CASE StopSelect
    BY <1>1, <1>2, <2>1 DEF StopSelect, StopMoves, StopAt, StopPcs, Inv, RunInv, StopInv, Idle, Steps
  <2>2. CASE StopAdmit
    BY <1>1, <1>2, <2>2 DEF StopAdmit, StopMoves, StopAt, StopPcs, Inv, RunInv, StopInv, Idle, Steps,
       Cancellable, Runs
  <2>3. CASE StopLoad
    BY <1>1, <1>2, <2>3 DEF StopLoad, StopAt, StopPcs, Inv, RunInv, StopInv, Idle, Steps
  <2>4. CASE StopTarget
    <3>1. /\ stop' \in [pc : StopPcs, at : Nat, head : Nat] /\ stop'.pc \in {"publish", "commit"}
          /\ stop'.pc = "commit" => stop'.at = stop.at
      <4>1. CASE settled
        BY <2>4, <4>1 DEF StopTarget, StopAt, StopPcs
      <4>2. CASE ~settled
        <5>1. stop' = [stop EXCEPT !.pc = "commit", !.head = head]
          BY <2>4, <4>2 DEF StopTarget
        <5> QED
          BY <1>2, <5>1 DEF StopPcs
      <4> QED
        BY <4>1, <4>2
    <3>2. UNCHANGED run /\ stop.pc = "target"
      BY <2>4 DEF StopTarget
    <3>3. RunInv'
      BY <1>1, <3>2 DEF Inv, RunInv, Idle, Steps
    <3>4. StopInv'
      BY <1>1, <3>1, <3>2 DEF Inv, StopInv
    <3> QED
      BY <1>2, <3>1, <3>2, <3>3, <3>4
  <2>5. CASE StopRecord
    <3>1. turn.output # None => turn.cancellation = None
      BY DEF Inv, TurnInv
    <3> QED
      BY <1>1, <1>2, <2>5, <3>1 DEF StopRecord, StopMoves, StopAt, StopPcs, Inv, RunInv, StopInv,
         Idle, Runs
  <2>6. CASE StopFinalize
    <3>1. turn.cancellation # None => turn.output = None
      BY DEF Inv, TurnInv
    <3> QED
      BY <1>1, <1>2, <2>6, <3>1 DEF StopFinalize, StopMoves, StopAt, StopPcs, Inv, RunInv, StopInv,
         Idle, Runs
  <2> QED
    BY <2>1, <2>2, <2>3, <2>4, <2>5, <2>6
<1>4. Stable
  BY <1>1, <1>3 DEF Stable, CallsKept
<1>5. WorkersInv' /\ SendRightInv'
  BY <1>1, <1>4, WorkersKept
<1>6. Scalars'
  BY <1>1, <1>3 DEF Inv, Scalars
<1> QED
  BY <1>1, <1>3, <1>5, <1>6, TurnKept DEF Inv

(* The cancellation is an event like any other for the executions.          *)
LEMMA CancelKeepsInv ==
    ASSUME Inv, stop.pc = "commit", StopCancels, faults' \in 0..MaxFaults,
           UNCHANGED <<run, lease, declared, invocation, now, worker, paid>>,
           NEW pc \in {"cancel_won", "publish"}, StopMoves(pc)
    PROVE  Inv'
<1>1. /\ turn.revision = stop.at /\ ~settled /\ settled' = TRUE /\ head' = head + 1
      /\ turn' = AfterCancel(turn, StopCommand)
      /\ turn.output = None /\ turn.cancellation = None /\ run = "cancelling"
  BY DEF StopCancels, Inv, StopInv
<1>2. /\ TurnInv' /\ PaidInv' /\ ResultInv' /\ Grows /\ turn'.state = "cancelled"
      /\ turn'.cancellation # None /\ turn'.output = None /\ Steps' = Steps
  BY <1>1, CancelWrites
<1>3. Scalars'
  <2>1. head' \in 0..MaxHead + 1
    BY <1>1, WindowAssumption DEF Inv, Scalars
  <2>2. stop' \in [pc : StopPcs, at : Nat, head : Nat]
    BY DEF StopMoves, StopAt, StopPcs
  <2> QED
    BY <1>1, <1>2, <2>1, <2>2 DEF Inv, Scalars
<1>4. RunInv' /\ StopInv'
  BY <1>1, <1>2 DEF RunInv, StopInv, StopMoves, StopAt
<1>5. Stable
  BY <1>1, <1>2 DEF Stable, CallsKept
<1>6. WorkersInv'
  BY <1>5, StillOK DEF Inv, WorkersInv
<1>7. \A v \in Workers : Bears(worker[v])' => Bears(worker[v])
  <2>1. \A y : WorkerOK(y) /\ Bears(y)' => Bears(y)
    BY <1>2, NoNewRight
  <2> QED
    BY <2>1 DEF Inv, WorkersInv
<1>8. SendRightInv'
  BY <1>2, <1>7 DEF Inv, SendRightInv
<1> QED
  BY <1>2, <1>3, <1>4, <1>6, <1>8 DEF Inv

LEMMA StopCommitKeepsInv ==
    ASSUME Inv, StopCommit \/ StopCommitFails
    PROVE  Inv'
<1>1. /\ stop.pc = "commit" /\ faults' \in 0..MaxFaults
      /\ UNCHANGED <<run, lease, declared, invocation, now, worker, paid>>
      /\ \E pc \in {"cancel_won", "publish"} : StopMoves(pc) /\ (pc = "cancel_won" => StopCancels)
      /\ StopCancels \/ UNCHANGED <<turn, settled, head>>
  BY WindowAssumption DEF StopCommit, StopCommitFails, Inv, Scalars
<1>2. CASE StopCancels
  BY <1>1, <1>2, CancelKeepsInv
<1>3. CASE ~StopCancels
  <2>1. UNCHANGED <<turn, settled, head>> /\ stop' = StopAt("publish")
    BY <1>1, <1>3 DEF StopMoves
  <2>2. Stable
    BY <1>1, <2>1 DEF Stable, CallsKept
  <2>3. WorkersInv' /\ SendRightInv'
    BY <1>1, <2>1, <2>2, WorkersKept
  <2>4. Scalars' /\ RunInv' /\ StopInv'
    BY <1>1, <2>1 DEF Inv, Scalars, RunInv, StopInv, Idle, Steps, StopAt, StopPcs
  <2> QED
    BY <1>1, <2>1, <2>3, <2>4, TurnKept DEF Inv
<1> QED
  BY <1>2, <1>3

LEMMA CleanupKeepsInv ==
    ASSUME Inv, StopCleanup
    PROVE  Inv'
<1>1. /\ stop.pc = "cleanup" /\ run = "cancelling"
      /\ UNCHANGED <<turn, settled, head, run, lease, declared, now, worker, faults, paid>>
      /\ invocation \in [Ordinals -> InvocationType]
      /\ invocation' = [o \in Ordinals |-> Closed(invocation[o])]
  BY DEF StopCleanup, Inv, StopInv, Scalars
<1>2. \A saved \in InvocationType :
         /\ Closed(saved) \in InvocationType
         /\ saved.state = "settled" => Closed(saved) = saved
         /\ Closed(saved).state # "none" => saved.state # "none"
         /\ Closed(saved).state \notin {"awaiting", "approved", "pending"}
  <2> TAKE saved \in InvocationType
  <2>1. Result(0) \in InvocationType /\ Result(0).state = "settled"
    BY BudgetAssumption DEF Result, InvocationType, CallStates
  <2>2. /\ [saved EXCEPT !.state = "recovery_required"] \in InvocationType
        /\ [saved EXCEPT !.state = "recovery_required"].state = "recovery_required"
    BY DEF InvocationType, CallStates
  <2> QED
    BY <2>1, <2>2 DEF Closed
<1>3. /\ invocation' \in [Ordinals -> InvocationType] /\ CallsKept
      /\ \A o \in Ordinals : invocation'[o].state \notin {"awaiting", "approved", "pending"}
  BY <1>1, <1>2 DEF CallsKept
<1>4. UNCHANGED stop \/ (stop' = StopAt("finalize") /\ Idle')
  BY <1>3 DEF StopCleanup, StopMoves, Claimed, Idle
<1>5. Stable
  BY <1>1, <1>3 DEF Stable
<1>6. WorkersInv' /\ SendRightInv'
  BY <1>1, <1>5, WorkersKept
<1>7. turn.cancellation # None
  BY <1>1 DEF Inv, StopInv
<1>8. Scalars'
  BY <1>1, <1>3, <1>4 DEF Inv, Scalars, StopAt, StopPcs
<1>9. RunInv'
  BY <1>1, <1>7 DEF Inv, RunInv
<1>10. StopInv'
  BY <1>1, <1>4, <1>7 DEF Inv, StopInv, StopAt
<1> QED
  BY <1>1, <1>3, <1>6, <1>8, <1>9, <1>10, TurnKept DEF Inv

-----------------------------------------------------------------------------
(* Everybody else.                                                         *)

(* The owner and the executors move a call, and no execution.               *)
LEMMA CallerKeepsInv ==
    ASSUME Inv, UNCHANGED worker, UNCHANGED <<turn, paid>>, Stable,
           TurnInv' /\ PaidInv' /\ ResultInv' /\ Scalars' /\ RunInv' /\ StopInv'
    PROVE  Inv'
BY WorkersKept DEF Inv

LEMMA OwnerKeepsInv ==
    ASSUME Inv, NEW p \in Ordinals, OwnerAnswers(p)
    PROVE  Inv'
<1>1. /\ run = "waiting_for_input" /\ invocation[p].state = "awaiting"
      /\ UNCHANGED <<turn, settled, head, lease, declared, now, worker, stop, faults, paid>>
      /\ invocation \in [Ordinals -> InvocationType]
  BY DEF OwnerAnswers, Inv, Scalars
<1>2. invocation' \in [Ordinals -> InvocationType] /\ CallsKept /\ run' = "running"
  <2>1. CASE run' = "running" /\ invocation' = [invocation EXCEPT ![p].state = "approved"]
    BY <1>1, <2>1 DEF InvocationType, CallStates, CallsKept
  <2>2. CASE \E notAfter \in 0..WallClockDeadline : Rejects(notAfter)
    BY <2>2, RejectionKept
  <2> QED
    BY <2>1, <2>2 DEF OwnerAnswers
<1> QED
  BY <1>1, <1>2, CallMoves, CallerKeepsInv

LEMMA ClaimedKeepsInv ==
    ASSUME Inv, NEW p \in Ordinals, ToolClaims(p)
    PROVE  Inv'
<1>1. /\ invocation[p].state = "pending" /\ run = "running"
      /\ UNCHANGED <<turn, settled, head, run, lease, declared, now, worker, stop, faults, paid>>
      /\ invocation \in [Ordinals -> InvocationType] /\ now \in Nat
  BY DEF ToolClaims, Admissible, Inv, Scalars
<1>2. PICK until \in now + 1..WallClockDeadline :
         invocation' = [invocation EXCEPT ![p] = [state |-> "claimed", notAfter |-> until]]
  BY DEF ToolClaims
<1>3. [state |-> "claimed", notAfter |-> until] \in InvocationType
  BY <1>1, <1>2, BudgetAssumption DEF InvocationType, CallStates
<1>4. invocation' \in [Ordinals -> InvocationType] /\ CallsKept
  BY <1>1, <1>2, <1>3 DEF CallsKept
<1> QED
  BY <1>1, <1>4, CallMoves, CallerKeepsInv

LEMMA SettledKeepsInv ==
    ASSUME Inv, NEW p \in Ordinals, ToolSettles(p)
    PROVE  Inv'
<1>1. /\ run = "running" /\ invocation[p].state \in {"pending", "claimed"}
      /\ UNCHANGED <<turn, settled, head, lease, declared, now, worker, stop, faults, paid>>
      /\ invocation \in [Ordinals -> InvocationType]
  BY DEF ToolSettles, Inv, Scalars
<1>2. CASE UNCHANGED run /\ \E notAfter \in 0..WallClockDeadline :
                invocation' = [invocation EXCEPT ![p] = Result(notAfter)]
  <2>1. \A notAfter \in 0..WallClockDeadline : Result(notAfter) \in InvocationType
    BY DEF Result, InvocationType, CallStates
  <2>2. invocation' \in [Ordinals -> InvocationType] /\ CallsKept
    BY <1>1, <1>2, <2>1 DEF CallsKept
  <2> QED
    BY <1>1, <1>2, <2>2, CallMoves, CallerKeepsInv
<1>3. CASE /\ run' = "recovery_required"
           /\ invocation' = [invocation EXCEPT ![p].state = "recovery_required"]
  <2>1. /\ invocation' \in [Ordinals -> InvocationType] /\ CallsKept
        /\ invocation'[p].state = "recovery_required"
    BY <1>1, <1>3 DEF CallsKept, InvocationType, CallStates
  <2>2. Selected(p)
    BY <1>1 DEF Inv, ResultInv
  <2>3. p = Steps /\ Steps > 0 /\ turn.state \in {"tool_pending", "response_unavailable"}
    BY <1>1, <2>2, OpenIsNewest
  <2> QED
    BY <1>1, <1>3, <2>1, <2>3, CallMoves, CallerKeepsInv
<1> QED
  BY <1>2, <1>3 DEF ToolSettles

LEMMA WorldKeepsInv ==
    ASSUME Inv, OtherEntry \/ Tick \/ LeaseEnds
    PROVE  Inv'
<1>1. UNCHANGED <<turn, settled, run, declared, invocation, worker, stop, paid>>
  BY DEF OtherEntry, Tick, LeaseEnds
<1>2. Stable
  BY <1>1 DEF Stable, CallsKept
<1>3. WorkersInv' /\ SendRightInv'
  BY <1>1, <1>2, WorkersKept
<1>4. Scalars'
  <2>1. CASE OtherEntry
    <3>1. head' = head + 1 /\ head < MaxHead /\ head \in Nat
          /\ UNCHANGED <<lease, now, faults, invocation>>
      BY <2>1 DEF OtherEntry, Inv, Scalars
    <3>2. head' \in 0..MaxHead + 1 /\ head' <= MaxHead
      BY <3>1, WindowAssumption
    <3> QED
      BY <1>1, <3>1, <3>2 DEF Inv, Scalars
  <2>2. CASE Tick
    <3>1. now' \in 0..WallClockDeadline /\ UNCHANGED <<head, lease, faults, invocation>>
      BY <2>2, BudgetAssumption DEF Tick, Inv, Scalars
    <3> QED
      BY <1>1, <3>1 DEF Inv, Scalars
  <2>3. CASE LeaseEnds
    <3>1. /\ faults < MaxFaults /\ faults' = faults + 1 /\ lease' = FALSE
          /\ UNCHANGED <<head, now, invocation>> /\ faults \in 0..MaxFaults
      BY <2>3 DEF LeaseEnds, Inv, Scalars
    <3>2. faults' \in 0..MaxFaults
      BY <3>1, WindowAssumption
    <3> QED
      BY <1>1, <3>1, <3>2 DEF Inv, Scalars
  <2> QED
    BY <2>1, <2>2, <2>3
<1>5. RunInv' /\ StopInv'
  BY <1>1 DEF Inv, RunInv, StopInv, Idle, Steps
<1> QED
  BY <1>1, <1>3, <1>4, <1>5, TurnKept DEF Inv

-----------------------------------------------------------------------------
(* The invariant.                                                          *)

LEMMA InitInv ==
    ASSUME Init
    PROVE  Inv
<1>1. TurnInv
  <2>1. turn \in TurnType
    <3>1. "open" \in States /\ <<>> \in Seq(StepType) /\ <<>> \in Seq(RejectionType)
      BY StatesAre
    <3> QED
      BY <3>1 DEF Init, InitialProtocol, TurnType
  <2> QED
    BY <2>1, BudgetAssumption DEF Init, InitialProtocol, TurnInv, Steps, PhaseOf
<1>2. Scalars
  <2>1. invocation \in [Ordinals -> InvocationType]
    BY BudgetAssumption DEF Init, InvocationType, NotAdmitted, CallStates
  <2>2. stop \in [pc : StopPcs, at : Nat, head : Nat] /\ paid \in [Ordinals -> {0, 1}]
    BY DEF Init, StopPcs
  <2>3. now \in 0..WallClockDeadline /\ faults \in 0..MaxFaults /\ head \in 0..MaxHead + 1
    BY WindowAssumption, BudgetAssumption DEF Init
  <2>4. head <= MaxHead
    BY WindowAssumption DEF Init
  <2> QED
    BY <2>1, <2>2, <2>3, <2>4 DEF Init, Scalars, Runs
<1>3. RunInv /\ StopInv
  BY DEF Init, RunInv, StopInv, InitialProtocol
<1>4. PaidInv /\ ResultInv
  BY DEF Init, PaidInv, ResultInv, InitialProtocol, Steps, NotAdmitted
<1>5. WorkersInv /\ SendRightInv
  BY DEF Init, WorkersInv, SendRightInv, WorkerOK, At, HeldOK, Pcs, Bears, Sending
<1> QED
  BY <1>1, <1>2, <1>3, <1>4, <1>5 DEF Inv

LEMMA StutterKeepsInv ==
    ASSUME Inv, UNCHANGED vars
    PROVE  Inv'
<1>1. UNCHANGED <<turn, settled, head, run, lease, declared, invocation, now, worker, stop,
                  faults, paid>>
  BY DEF vars
<1>2. Stable
  BY <1>1 DEF Stable, CallsKept
<1>3. WorkersInv' /\ SendRightInv'
  BY <1>1, <1>2, WorkersKept
<1>4. Scalars' /\ RunInv' /\ StopInv'
  BY <1>1 DEF Inv, Scalars, RunInv, StopInv, Idle, Steps
<1> QED
  BY <1>1, <1>3, <1>4, TurnKept DEF Inv

LEMMA NextKeepsInv ==
    ASSUME Inv, [Next]_vars
    PROVE  Inv'
<1>1. ASSUME NEW w \in Workers, WorkerStep(w) \/ AppendFails(w) \/ Crash(w)
      PROVE  Inv'
  <2>1. CASE Reading(w)
    BY <2>1, ReadingKeepsInv
  <2>2. CASE ~Reading(w)
    BY <1>1, <2>2, StartKeepsInv, AcknowledgedKeepsInv, FailureKeepsInv, CrashKeepsInv,
       SendKeepsInv, DeclarationKeepsInv, AdmissionKeepsInv, RecoverKeepsInv, FinishKeepsInv,
       SettleKeepsInv DEF WorkerStep, Reading
  <2> QED
    BY <2>1, <2>2
<1>2. CASE StopSelect \/ StopStep \/ StopCommitFails
  BY <1>2, StopMovesKeepInv, StopCommitKeepsInv, CleanupKeepsInv DEF StopStep
<1>3. ASSUME NEW p \in Ordinals, OwnerAnswers(p) \/ ToolClaims(p) \/ ToolSettles(p)
      PROVE  Inv'
  BY <1>3, OwnerKeepsInv, ClaimedKeepsInv, SettledKeepsInv
<1>4. CASE OtherEntry \/ Tick \/ LeaseEnds
  BY <1>4, WorldKeepsInv
<1>5. CASE UNCHANGED vars
  BY <1>5, StutterKeepsInv
<1> QED
  BY <1>1, <1>2, <1>3, <1>4, <1>5 DEF Next

(* The invariant that carries the rest, for any number of executions.       *)
THEOREM InvHolds == Spec => []Inv
<1>1. Init => Inv
  BY InitInv
<1>2. Inv /\ [Next]_vars => Inv'
  BY NextKeepsInv
<1> QED
  BY <1>1, <1>2, PTL DEF Spec

(* Every store holds a value its own readers accept, whatever the workers,  *)
(* Stop and the faults do to it.                                            *)
THEOREM TypeCorrect == Spec => []TypeOK
<1>1. Inv => TypeOK
  <2> SUFFICES ASSUME Inv PROVE TypeOK
    OBVIOUS
  <2>1. turn.state \in States /\ Len(turn.steps) <= MaxModelTurns
    BY TurnTyped DEF Steps
  <2>2. declared \subseteq DOMAIN turn.steps
    BY TurnTyped DEF Inv, PaidInv
  <2>3. \A w \in Workers : worker[w].pc \in Pcs
    BY DEF Inv, WorkersInv, WorkerOK
  <2>4. \A p \in Ordinals : invocation[p].state \in CallStates
    BY DEF Inv, Scalars, InvocationType
  <2> QED
    BY <2>1, <2>2, <2>3, <2>4 DEF TypeOK, Inv, Scalars, Runs, CallStates
<1> QED
  BY <1>1, InvHolds, PTL

(* A reserved request reaches the paid provider at most once, and whatever  *)
(* tool was selected or answer given was paid for: a fresh winner alone     *)
(* dispatches (conversation-computer-model-flow.ts).                        *)
THEOREM PaidOnce == Spec => []PaidExactlyOnce
<1>1. Inv => PaidExactlyOnce
  <2> SUFFICES ASSUME Inv PROVE PaidExactlyOnce
    OBVIOUS
  <2>1. \A o \in Ordinals : paid[o] \in {0, 1} /\ (paid[o] = 1 => o <= Steps)
    BY DEF Inv, Scalars, PaidInv
  <2>2. \A o \in Ordinals : o <= Steps => o \in DOMAIN turn.steps
    BY TurnTyped DEF Ordinals
  <2>3. \A i \in DOMAIN turn.steps : turn.steps[i].proposal # None => paid[i] = 1
    BY TurnTyped DEF Inv, PaidInv
  <2>4. turn.output # None => paid[Len(turn.steps)] = 1
    BY DEF Inv, PaidInv, Steps
  <2> QED
    BY <2>1, <2>2, <2>3, <2>4 DEF PaidExactlyOnce
<1> QED
  BY <1>1, InvHolds, PTL

(* PostgreSQL never contradicts the turn stream, through any crash between  *)
(* the two.                                                                 *)
THEOREM RunAgrees == Spec => []RunAgreesWithTurn
<1>1. Inv => RunAgreesWithTurn
  BY DEF Inv, RunInv, RunAgreesWithTurn, Steps
<1> QED
  BY <1>1, InvHolds, PTL

(* A run is Cancelled only when no tool of it waits or is held by an        *)
(* executor and its turn takes no further event.                            *)
THEOREM StoppedQuiet == Spec => []StoppedRunIsQuiet
<1>1. Inv => StoppedRunIsQuiet
  BY DEF Inv, RunInv, TurnInv, Idle, StoppedRunIsQuiet
<1> QED
  BY <1>1, InvHolds, PTL

(* A recorded result is the saved result of its own invocation, and carries *)
(* no more authority than its evidence and its request.                     *)
THEOREM ResultsGenuine == Spec => []ResultsAreGenuine
<1>1. Inv => ResultsAreGenuine
  <2> SUFFICES ASSUME Inv PROVE ResultsAreGenuine
    OBVIOUS
  <2>1. DOMAIN turn.steps = 1..Steps
    BY TurnTyped
  <2> QED
    BY <2>1 DEF Inv, ResultInv, ResultsAreGenuine
<1> QED
  BY <1>1, InvHolds, PTL

(* In a turn that has ended, the only selected tools an execution can still *)
(* hold have their result.                                                  *)
LEMMA LateSelection ==
    ASSUME Inv, turn.state \in {"output_recorded", "cancelled"}, run = "running",
           NEW o \in Ordinals, Selected(o)
    PROVE  invocation[o].state = "settled"
<1>1. turn.state = "output_recorded"
  BY DEF Inv, TurnInv, RunInv
<1>2. /\ Steps > 0 /\ turn.steps[Steps].phase = "model_reserved" /\ StepFilled(Steps)
  BY <1>1, PhaseKnown, LastTyped DEF PhaseOf
<1>3. turn.steps[Steps].proposal = None
  BY <1>2 DEF StepFilled
<1>4. o \in 1..Steps /\ o # Steps
  BY <1>3, NullAssumption DEF Selected
<1>5. turn.steps[o].phase = "result_ready" /\ StepFilled(o)
  BY <1>4, TurnTyped DEF Inv, TurnInv
<1>6. turn.steps[o].result # None
  BY <1>5, NullAssumption DEF StepFilled
<1> QED
  BY <1>4, <1>6 DEF Inv, ResultInv

(* A worker that read the turn before it ended cannot still open its tool:  *)
(* after the answer or Stop no new invocation is admitted.                  *)
THEOREM NoToolAfterEnd == Spec => EndedTurnAdmitsNoTool
<1>1. Inv /\ [Next]_vars =>
         [turn.state \in {"output_recorded", "cancelled"} =>
            \A p \in Ordinals : invocation[p].state = "none" => invocation'[p].state = "none"]_vars
  <2> SUFFICES ASSUME Inv, Next, turn.state \in {"output_recorded", "cancelled"},
                      NEW p \in Ordinals, invocation[p].state = "none"
               PROVE  invocation'[p].state = "none"
    OBVIOUS
  <2>0. invocation \in [Ordinals -> InvocationType]
    BY DEF Inv, Scalars
  <2>1. ASSUME NEW w \in Workers, WorkerStep(w) \/ AppendFails(w) \/ Crash(w)
        PROVE  invocation'[p].state = "none"
    <3>1. CASE Reading(w)
      BY <3>1, ReadingKeepsInv DEF stores
    <3>2. CASE AdmitTool(w)
      <4>1. Selected(Held(w).ordinal) /\ Held(w).ordinal \in Ordinals
        BY <3>2 DEF AdmitTool, In, Held, Inv, WorkersInv, WorkerOK, HeldOK, SelectionType
      <4>2. run \notin {"waiting_for_input", "recovery_required"}
        BY DEF Inv, RunInv
      <4>3. CASE UNCHANGED invocation
        BY <4>3
      <4>4. CASE Admits(Held(w).ordinal) /\ Enters(Held(w).ordinal)
        <5>1. run = "running"
          BY <4>4 DEF Admits, Admissible
        <5>2. invocation[Held(w).ordinal].state = "settled"
          BY <4>1, <5>1, LateSelection
        <5> QED
          BY <2>0, <4>1, <4>4, <5>2 DEF Enters
      <4> QED
        BY <3>2, <4>2, <4>3, <4>4 DEF AdmitTool, Overdue
    <3>3. CASE ~Reading(w) /\ ~AdmitTool(w)
      <4>1. UNCHANGED invocation
        BY <2>1, <3>3 DEF WorkerStep, Reading, Start, AppendAcknowledged, AppendFails, Crash, Send,
           StoreDeclaration, EnterRecoveryRequired, FinishOutput, Settle, External
      <4> QED
        BY <4>1
    <3> QED
      BY <3>1, <3>2, <3>3
  <2>2. CASE StopSelect \/ StopStep \/ StopCommitFails
    <3>1. CASE StopCleanup
      BY <2>0, <3>1 DEF StopCleanup, Closed
    <3>2. CASE ~StopCleanup
      <4>1. UNCHANGED invocation
        BY <2>2, <3>2 DEF StopStep, StopSelect, StopAdmit, StopLoad, StopTarget, StopCommit,
           StopRecord, StopFinalize, StopCommitFails
      <4> QED
        BY <4>1
    <3> QED
      BY <3>1, <3>2
  <2>3. ASSUME NEW q \in Ordinals, OwnerAnswers(q) \/ ToolClaims(q) \/ ToolSettles(q)
        PROVE  invocation'[p].state = "none"
    <3>1. p # q
      BY <2>3 DEF OwnerAnswers, ToolClaims, ToolSettles
    <3> QED
      BY <2>0, <2>3, <3>1 DEF OwnerAnswers, Rejects, ToolClaims, ToolSettles
  <2>4. CASE OtherEntry \/ Tick \/ LeaseEnds
    BY <2>4 DEF OtherEntry, Tick, LeaseEnds
  <2> QED
    BY <2>1, <2>2, <2>3, <2>4 DEF Next
<1> QED
  BY <1>1, InvHolds, PTL DEF Spec, EndedTurnAdmitsNoTool

-----------------------------------------------------------------------------
(* The turn stream implements TurnLog: each stored event is one of its      *)
(* steps, every other step leaves the stream alone.                        *)

LEMMA LogReserves ==
    ASSUME Inv, NEW h \in ReservationType, CanReserveModel(turn, h),
           turn' = AfterReserveModel(turn, h)
    PROVE  Log!ReserveModel
<1>1. /\ h.fence \in Fences /\ h.select \in BOOLEAN /\ h.tokens \in Log!Tokens
      /\ h.authority \in Log!Instants /\ h.deadline \in Log!Instants
  BY BudgetAssumption DEF ReservationType, Log!Tokens, Log!Instants
<1>2. h = [ordinal |-> Len(turn.steps) + 1, fence |-> h.fence, select |-> h.select,
           tokens |-> h.tokens, authority |-> h.authority, deadline |-> h.deadline,
           history |-> Log!HistoryDigest(turn.steps)]
  BY DEF ReservationType, CanReserveModel, HistoryDigest, Log!HistoryDigest
<1>3. Log!CanReserveModel(turn, h)
  BY DEF CanReserveModel, Log!CanReserveModel, Accepts, Log!Accepts, LatestAuthority,
     Log!LatestAuthority, HasStep, Log!HasStep, Last, Log!Last, Lesser, Log!Lesser,
     HistoryDigest, Log!HistoryDigest, FitsAllowance, Log!FitsAllowance, CyclesFed,
     Log!CyclesFed, KeepsFinalModelAllowance, Log!KeepsFinalModelAllowance
<1>4. Log!Accepted("reserve")
  BY DEF CanReserveModel, Accepts, Log!Accepts, Log!Accepted
<1>5. turn' = Log!AfterReserveModel(turn, h)
  BY DEF AfterReserveModel, Log!AfterReserveModel, ReservedStep, Log!ReservedStep, CyclesFed,
     Log!CyclesFed
<1> QED
  BY <1>1, <1>2, <1>3, <1>4, <1>5 DEF Log!ReserveModel, Fences

LEMMA LogRejects ==
    ASSUME Inv, NEW h \in RejectionType, CanRejectModel(turn, h),
           turn' = AfterRejectModel(turn, h)
    PROVE  Log!RejectModel
<1>1. /\ h.fence \in Fences /\ h.receivedAt \in Log!Instants /\ h.retryAt \in Log!Instants
      /\ h.credential \in Log!Instants
  BY DEF RejectionType, Log!Instants, Instants
<1>2. h = [fence |-> h.fence, nonce |-> h.nonce, receivedAt |-> h.receivedAt,
           retryAt |-> h.retryAt, credential |-> h.credential]
  BY DEF RejectionType
<1>3. h.nonce \in RetryNonces \union {Log!InitialNonce(h.fence)}
  <2>1. CASE turn.rejections = <<>>
    BY <2>1 DEF CanRejectModel, InitialNonce, Log!InitialNonce
  <2>2. CASE turn.rejections # <<>>
    BY <2>2, TurnTyped DEF CanRejectModel, ClaimType
  <2> QED
    BY <2>1, <2>2
<1>4. Log!CanRejectModel(turn, h) /\ Log!Accepted("reject")
  BY DEF CanRejectModel, Log!CanRejectModel, Accepts, Log!Accepts, InPhase, Log!InPhase,
     HasStep, Log!HasStep, Last, Log!Last, InitialNonce, Log!InitialNonce, Log!Accepted
<1>5. turn' = Log!AfterRejectModel(turn, h)
  BY DEF AfterRejectModel, Log!AfterRejectModel
<1> QED
  BY <1>1, <1>2, <1>3, <1>4, <1>5 DEF Log!RejectModel, Fences, RetryNonces

LEMMA LogClaims ==
    ASSUME Inv, NEW h \in ClaimType, CanClaimRetry(turn, h), turn' = AfterClaimRetry(turn, h)
    PROVE  Log!ClaimRetry
<1>1. /\ h.fence \in Fences /\ h.nonce \in RetryNonces /\ h.retryOrdinal \in 1..MaxRetries + 1
      /\ h.claimedAt \in Log!Instants
  BY DEF ClaimType, Log!Instants, Instants
<1>2. h = [fence |-> h.fence, retryOrdinal |-> h.retryOrdinal, nonce |-> h.nonce,
           claimedAt |-> h.claimedAt]
  BY DEF ClaimType
<1>3. Log!CanClaimRetry(turn, h) /\ Log!Accepted("claim")
  BY DEF CanClaimRetry, Log!CanClaimRetry, Accepts, Log!Accepts, InPhase, Log!InPhase,
     HasStep, Log!HasStep, Last, Log!Last, Log!Accepted, FreshNonce, Log!FreshNonce
<1>4. turn' = Log!AfterClaimRetry(turn, h)
  BY DEF AfterClaimRetry, Log!AfterClaimRetry
<1> QED
  BY <1>1, <1>2, <1>3, <1>4 DEF Log!ClaimRetry, Fences, RetryNonces

LEMMA LogSelects ==
    ASSUME Inv, NEW h \in SelectionType, CanSelectTool(turn, h), turn' = AfterSelectTool(turn, h)
    PROVE  Log!SelectTool
<1>1. h.ordinal \in Log!Ordinals /\ h.fence \in Fences /\ h.proposal \in Proposals
  BY BudgetAssumption DEF SelectionType, Ordinals, Log!Ordinals
<1>2. h = [ordinal |-> h.ordinal, fence |-> h.fence, proposal |-> h.proposal]
  BY DEF SelectionType
<1>3. Log!CanSelectTool(turn, h) /\ Log!Accepted("select")
  BY DEF CanSelectTool, Log!CanSelectTool, Accepts, Log!Accepts, InPhase, Log!InPhase,
     HasStep, Log!HasStep, Last, Log!Last, Log!Accepted
<1>4. turn' = Log!AfterSelectTool(turn, h)
  BY DEF AfterSelectTool, Log!AfterSelectTool
<1> QED
  BY <1>1, <1>2, <1>3, <1>4 DEF Log!SelectTool, Fences, Proposals

LEMMA LogRecordsResult ==
    ASSUME Inv, NEW h \in ResultType, CanRecordToolResult(turn, h),
           turn' = AfterRecordToolResult(turn, h)
    PROVE  Log!RecordToolResult
<1>1. /\ h.ordinal \in Log!Ordinals /\ h.proposal \in Proposals /\ h.authority \in Log!Instants
      /\ h.payload \in Ordinals
  BY BudgetAssumption DEF ResultType, Ordinals, Log!Ordinals, Log!Instants
<1>2. h = [ordinal |-> h.ordinal, proposal |-> h.proposal, authority |-> h.authority,
           payload |-> h.payload]
  BY DEF ResultType
<1>3. Log!CanRecordToolResult(turn, h) /\ Log!Accepted("result")
  BY DEF CanRecordToolResult, Log!CanRecordToolResult, Accepts, Log!Accepts, InPhase,
     Log!InPhase, HasStep, Log!HasStep, Last, Log!Last, Log!Accepted
<1>4. turn' = Log!AfterRecordToolResult(turn, h)
  BY DEF AfterRecordToolResult, Log!AfterRecordToolResult
<1> QED
  BY <1>1, <1>2, <1>3, <1>4 DEF Log!RecordToolResult, Proposals

LEMMA LogRecordsOutput ==
    ASSUME Inv, NEW h \in AnswerType, CanRecordOutput(turn, h), turn' = AfterRecordOutput(turn, h)
    PROVE  Log!RecordOutput
<1>1. h.ordinal \in Log!Ordinals /\ h.fence \in Fences
  BY BudgetAssumption DEF AnswerType, Ordinals, Log!Ordinals
<1> DEFINE o == [ordinal |-> h.ordinal, fence |-> h.fence]
<1>2. Log!CanRecordOutput(turn, o) /\ Log!Accepted("output")
  BY DEF CanRecordOutput, Log!CanRecordOutput, Accepts, Log!Accepts, InPhase, Log!InPhase,
     HasStep, Log!HasStep, Last, Log!Last, Log!Accepted
<1>3. turn' = Log!AfterRecordOutput(turn, o)
  BY DEF AfterRecordOutput, Log!AfterRecordOutput
<1> QED
  BY <1>1, <1>2, <1>3 DEF Log!RecordOutput, Fences

LEMMA LogMarksUnavailable ==
    ASSUME Inv, NEW h \in ReceiptType, CanMarkUnavailable(turn, h),
           turn' = AfterMarkUnavailable(turn, h)
    PROVE  Log!MarkUnavailable
<1>1. /\ h.ordinal \in Log!Ordinals /\ h.reason \in {"model", "tool", "allowance"}
      /\ h.source \in Fences \union Proposals \union {StopCommand, AllowanceSource}
  BY BudgetAssumption DEF ReceiptType, Log!Ordinals
<1>2. h = [ordinal |-> h.ordinal, source |-> h.source, reason |-> h.reason]
  BY DEF ReceiptType
<1>3. Log!CanMarkUnavailable(turn, h) /\ Log!Accepted("unavailable")
  BY DEF CanMarkUnavailable, Log!CanMarkUnavailable, Accepts, Log!Accepts, InPhase,
     Log!InPhase, HasStep, Log!HasStep, Last, Log!Last, Log!Accepted
<1>4. turn' = Log!AfterMarkUnavailable(turn, h)
  BY DEF AfterMarkUnavailable, Log!AfterMarkUnavailable
<1> QED
  BY <1>1, <1>2, <1>3, <1>4 DEF Log!MarkUnavailable, Fences, Proposals

LEMMA LogCancels ==
    ASSUME CanCancel(turn), turn' = AfterCancel(turn, StopCommand)
    PROVE  Log!Cancel
BY DEF CanCancel, Log!CanCancel, Accepts, Log!Accepts, AfterCancel, Log!AfterCancel, Log!Cancel

(* What an append writes, whether or not it is acknowledged.                *)
LEMMA CommitRefines ==
    ASSUME Inv, NEW w \in Workers, worker[w].pc = "append", Unchanged(w), Commit(w)
    PROVE  Log!Next
<1> DEFINE op == worker[w].op
           h == Held(w)
<1>1. op \in Ops /\ Holds(op, h) /\ CanApply(op, h) /\ turn' = Applied(op, h)
  BY DEF Inv, WorkersInv, WorkerOK, AppendOK, Unchanged, Commit, Held
<1> HIDE DEF op, h
<1>2. CASE op = "reserve"
  BY <1>1, <1>2, LogReserves DEF Holds, CanApply, Applied, Log!Next
<1>3. CASE op = "reject"
  BY <1>1, <1>3, LogRejects DEF Holds, CanApply, Applied, Log!Next
<1>4. CASE op = "claim"
  BY <1>1, <1>4, LogClaims DEF Holds, CanApply, Applied, Log!Next
<1>5. CASE op = "select"
  BY <1>1, <1>5, LogSelects DEF Holds, CanApply, Applied, Log!Next
<1>6. CASE op = "result"
  BY <1>1, <1>6, LogRecordsResult DEF Holds, CanApply, Applied, Log!Next
<1>7. CASE op = "output"
  BY <1>1, <1>7, LogRecordsOutput DEF Holds, CanApply, Applied, Log!Next
<1>8. CASE op = "unavailable"
  BY <1>1, <1>8, LogMarksUnavailable DEF Holds, CanApply, Applied, Log!Next
<1> QED
  BY <1>1, <1>2, <1>3, <1>4, <1>5, <1>6, <1>7, <1>8 DEF Ops

LEMMA StopRefines ==
    ASSUME Inv, stop.pc = "commit", StopCancels,
           UNCHANGED <<run, lease, declared, invocation, now, worker, paid>>
    PROVE  Log!Next
<1>1. turn' = AfterCancel(turn, StopCommand) /\ turn.output = None /\ turn.cancellation = None
  BY DEF StopCancels, Inv, StopInv
<1>2. CanCancel(turn)
  BY <1>1, CancelWrites
<1> QED
  BY <1>1, <1>2, LogCancels DEF Log!Next

LEMMA NextRefines ==
    ASSUME Inv, [Next]_vars
    PROVE  [Log!Next]_turn
<1>1. ASSUME NEW w \in Workers, WorkerStep(w) \/ AppendFails(w) \/ Crash(w)
      PROVE  [Log!Next]_turn
  <2>1. CASE Reading(w)
    BY <2>1, ReadingKeepsInv DEF stores
  <2>2. CASE AppendAcknowledged(w) \/ AppendFails(w)
    BY <2>2, CommitRefines DEF AppendAcknowledged, AppendFails, In
  <2>3. CASE ~Reading(w) /\ ~AppendAcknowledged(w) /\ ~AppendFails(w)
    <3>1. UNCHANGED turn
      BY <1>1, <2>3 DEF WorkerStep, Reading, Start, Crash, Send, StoreDeclaration, AdmitTool,
         EnterRecoveryRequired, FinishOutput, Settle, External
    <3> QED
      BY <3>1
  <2> QED
    BY <2>1, <2>2, <2>3
<1>2. CASE StopSelect \/ StopStep \/ StopCommitFails
  <2>1. CASE StopCommit \/ StopCommitFails
    BY <2>1, StopRefines DEF StopCommit, StopCommitFails
  <2>2. CASE ~StopCommit /\ ~StopCommitFails
    <3>1. UNCHANGED turn
      BY <1>2, <2>2 DEF StopStep, StopSelect, StopAdmit, StopLoad, StopTarget, StopRecord,
         StopCleanup, StopFinalize
    <3> QED
      BY <3>1
  <2> QED
    BY <2>1, <2>2
<1>3. ASSUME NEW p \in Ordinals, OwnerAnswers(p) \/ ToolClaims(p) \/ ToolSettles(p)
      PROVE  [Log!Next]_turn
  BY <1>3 DEF OwnerAnswers, ToolClaims, ToolSettles
<1>4. CASE OtherEntry \/ Tick \/ LeaseEnds
  BY <1>4 DEF OtherEntry, Tick, LeaseEnds
<1>5. CASE UNCHANGED vars
  BY <1>5 DEF vars
<1> QED
  BY <1>1, <1>2, <1>3, <1>4, <1>5 DEF Next

(* Whatever the executions, Stop and the faults do, the turn stream behaves *)
(* as TurnLog promises.                                                     *)
THEOREM TurnLogImplemented == Spec => ImplementsTurnLog
<1>1. Init => Log!Init
  BY DEF Init, Log!Init, InitialProtocol, Log!InitialProtocol
<1>2. Inv /\ [Next]_vars => [Log!Next]_turn
  BY NextRefines
<1> QED
  BY <1>1, <1>2, InvHolds, PTL DEF Spec, ImplementsTurnLog, Log!Spec
=============================================================================
