----------------------------- MODULE TurnLog_proofs -----------------------------
(***************************************************************************)
(* What holds of every turn stream, for every allowance and every set of   *)
(* identities.                                                             *)
(***************************************************************************)
EXTENDS TurnLog, FiniteSetTheorems, TLAPS

(* Replacing the last element keeps a sequence over its element set and     *)
(* changes nothing else.                                                    *)
LEMMA ReplaceLast ==
    ASSUME NEW S, NEW s \in Seq(S), s # <<>>, NEW e \in S
    PROVE  /\ [s EXCEPT ![Len(s)] = e] \in Seq(S)
           /\ Len([s EXCEPT ![Len(s)] = e]) = Len(s)
           /\ Len(s) \in DOMAIN s
           /\ [s EXCEPT ![Len(s)] = e][Len(s)] = e
           /\ \A i \in DOMAIN s \ {Len(s)} : [s EXCEPT ![Len(s)] = e][i] = s[i]
OBVIOUS

(* A step that has its selection or its result is still a step.            *)
LEMMA LastTyped ==
    ASSUME TypeOK, HasStep(turn)
    PROVE  /\ turn.steps \in Seq(StepType) /\ turn.steps # <<>>
           /\ Len(turn.steps) \in Nat \ {0} /\ Len(turn.steps) \in DOMAIN turn.steps
           /\ Last(turn) \in StepType
BY DEF TypeOK, HasStep, Last

(* The counters an event advances stay natural numbers.                    *)
LEMMA CountersTyped ==
    ASSUME TypeOK
    PROVE  /\ turn.revision + 1 \in Nat /\ turn.calls + 1 \in Nat /\ turn.tools + 1 \in Nat
           /\ CyclesFed(turn) \in Nat
           /\ \A n \in Nat : turn.tokens + n \in Nat
BY DEF TypeOK, CyclesFed

(* The projection keeps its type through every event.                      *)
THEOREM TypeCorrect == Spec => []TypeOK
<1>1. Init => TypeOK
  BY BudgetAssumption DEF Init, InitialProtocol, TypeOK, States, Accepts
<1>2. TypeOK /\ [Next]_turn => TypeOK'
  <2> SUFFICES ASSUME TypeOK, [Next]_turn PROVE TypeOK'
    OBVIOUS
  <2>1. CASE ReserveModel
    <3>1. PICK fence \in Fences, select \in BOOLEAN, tokens \in Tokens,
               authority \in Instants, deadline \in Instants :
            LET r == [ordinal |-> Len(turn.steps) + 1, fence |-> fence, select |-> select,
                      tokens |-> tokens, authority |-> authority, deadline |-> deadline,
                      history |-> HistoryDigest(turn.steps)]
            IN  CanReserveModel(turn, r) /\ turn' = AfterReserveModel(turn, r)
      BY <2>1 DEF ReserveModel, Accepted
    <3> DEFINE r == [ordinal |-> Len(turn.steps) + 1, fence |-> fence, select |-> select,
                     tokens |-> tokens, authority |-> authority, deadline |-> deadline,
                     history |-> HistoryDigest(turn.steps)]
    <3>2. ReservedStep(r) \in StepType
      BY <3>1, BudgetAssumption DEF ReservedStep, StepType, CanReserveModel, FitsAllowance, Tokens, Instants
    <3>4. turn' = AfterReserveModel(turn, r)
      BY <3>1
    <3>5. "model_reserved" \in States /\ tokens \in Nat
      BY BudgetAssumption DEF States, Accepts, Tokens
    <3> HIDE DEF r
    <3>6. r.tokens \in Nat
      BY <3>5 DEF r
    <3>7. Append(turn.steps, ReservedStep(r)) \in Seq(StepType) /\ <<>> \in Seq(RejectionType)
      BY <3>2 DEF TypeOK
    <3> QED
      BY <3>4, <3>5, <3>6, <3>7, CountersTyped DEF AfterReserveModel, TypeOK
  <2>2. CASE RejectModel
    <3>1. PICK fence \in Fences, receivedAt \in Instants, retryAt \in Instants,
               credential \in Instants, nonce \in Nonces \union {InitialNonce(f) : f \in Fences} :
            turn' = AfterRejectModel(turn, [fence |-> fence, nonce |-> nonce,
                receivedAt |-> receivedAt, retryAt |-> retryAt, credential |-> credential])
      BY <2>2 DEF RejectModel, Accepted
    <3> DEFINE x == [fence |-> fence, nonce |-> nonce, receivedAt |-> receivedAt,
                     retryAt |-> retryAt, credential |-> credential]
    <3>2. x \in RejectionType
      BY <3>1, BudgetAssumption DEF RejectionType, Instants
    <3>3. "model_retry_waiting" \in States
      BY DEF States, Accepts
    <3> HIDE DEF x
    <3>4. turn' = AfterRejectModel(turn, x)
      BY <3>1 DEF x
    <3>5. Append(turn.rejections, x) \in Seq(RejectionType)
      BY <3>2 DEF TypeOK
    <3> QED
      BY <3>3, <3>4, <3>5, CountersTyped DEF AfterRejectModel, TypeOK
  <2>3. CASE ClaimRetry
    <3>1. PICK fence \in Fences, nonce \in Nonces, retryOrdinal \in 1..MaxRetries + 1,
               claimedAt \in Instants :
            turn' = AfterClaimRetry(turn, [fence |-> fence, retryOrdinal |-> retryOrdinal,
                                           nonce |-> nonce, claimedAt |-> claimedAt])
      BY <2>3 DEF ClaimRetry, Accepted
    <3> DEFINE c == [fence |-> fence, retryOrdinal |-> retryOrdinal, nonce |-> nonce,
                     claimedAt |-> claimedAt]
    <3>2. c \in ClaimType
      BY <3>1, BudgetAssumption DEF ClaimType, Instants
    <3>3. "model_reserved" \in States
      BY DEF States, Accepts
    <3> HIDE DEF c
    <3>4. turn' = AfterClaimRetry(turn, c)
      BY <3>1 DEF c
    <3> QED
      BY <3>2, <3>3, <3>4, CountersTyped DEF AfterClaimRetry, TypeOK
  <2>4. CASE SelectTool
    <3>1. PICK ordinal \in Ordinals, fence \in Fences, proposal \in Proposals :
            LET s == [ordinal |-> ordinal, fence |-> fence, proposal |-> proposal]
            IN  CanSelectTool(turn, s) /\ turn' = AfterSelectTool(turn, s)
      BY <2>4 DEF SelectTool, Accepted
    <3> DEFINE step == [Last(turn) EXCEPT !.phase = "tool_pending", !.proposal = proposal]
    <3>2. HasStep(turn)
      BY <3>1 DEF CanSelectTool, InPhase
    <3>3. step \in StepType
      BY <3>2, LastTyped DEF StepType
    <3>4. turn' = [turn EXCEPT !.state = "tool_pending", !.revision = @ + 1, !.tools = @ + 1,
                               !.steps = [@ EXCEPT ![Len(turn.steps)] = step]]
      BY <3>1, <3>2, LastTyped DEF AfterSelectTool, Last, TypeOK, StepType
    <3>5. [turn.steps EXCEPT ![Len(turn.steps)] = step] \in Seq(StepType)
      BY <3>2, <3>3, LastTyped, ReplaceLast
    <3>6. "tool_pending" \in States
      BY DEF States, Accepts
    <3> HIDE DEF step
    <3> QED
      BY <3>4, <3>5, <3>6, CountersTyped DEF TypeOK
  <2>5. CASE RecordToolResult
    <3>1. PICK ordinal \in Ordinals, proposal \in Proposals, authority \in Instants,
               payload \in Payloads :
            LET t == [ordinal |-> ordinal, proposal |-> proposal, authority |-> authority,
                      payload |-> payload]
            IN  CanRecordToolResult(turn, t) /\ turn' = AfterRecordToolResult(turn, t)
      BY <2>5 DEF RecordToolResult, Accepted
    <3> DEFINE step == [Last(turn) EXCEPT !.phase = "result_ready", !.result = authority,
                                          !.payload = payload]
    <3>2. HasStep(turn) /\ authority \in Nat
      BY <3>1, BudgetAssumption DEF CanRecordToolResult, InPhase, Instants
    <3>3. step \in StepType
      BY <3>2, LastTyped DEF StepType
    <3>4. turn' = [turn EXCEPT !.state = "result_ready", !.revision = @ + 1,
                               !.steps = [@ EXCEPT ![Len(turn.steps)] = step]]
      BY <3>1, <3>2, LastTyped DEF AfterRecordToolResult, Last, TypeOK, StepType
    <3>5. [turn.steps EXCEPT ![Len(turn.steps)] = step] \in Seq(StepType)
      BY <3>2, <3>3, LastTyped, ReplaceLast
    <3>6. "result_ready" \in States
      BY DEF States, Accepts
    <3> HIDE DEF step
    <3> QED
      BY <3>4, <3>5, <3>6, CountersTyped DEF TypeOK
  <2>6. CASE RecordOutput
    <3>1. PICK fence \in Fences :
            turn' = [turn EXCEPT !.state = "output_recorded", !.revision = @ + 1, !.output = fence]
      BY <2>6 DEF RecordOutput, AfterRecordOutput
    <3>2. "output_recorded" \in States
      BY DEF States, Accepts
    <3> QED
      BY <3>1, <3>2, CountersTyped DEF TypeOK
  <2>7. CASE MarkUnavailable
    <3>1. PICK reason \in {"model", "tool", "allowance"} :
            turn' = [turn EXCEPT !.state = "response_unavailable", !.revision = @ + 1,
                                 !.unavailable = reason]
      BY <2>7 DEF MarkUnavailable, AfterMarkUnavailable
    <3>2. "response_unavailable" \in States
      BY DEF States, Accepts
    <3> QED
      BY <3>1, <3>2, CountersTyped DEF TypeOK
  <2>8. CASE Cancel
    <3>1. PICK command \in Commands :
            turn' = [turn EXCEPT !.state = "cancelled", !.revision = @ + 1, !.cancellation = command]
      BY <2>8 DEF Cancel, AfterCancel
    <3>2. "cancelled" \in States
      BY DEF States, Accepts
    <3> QED
      BY <3>1, <3>2, CountersTyped DEF TypeOK
  <2>9. CASE UNCHANGED turn
    BY <2>9 DEF TypeOK
  <2> QED
    BY <2>1, <2>2, <2>3, <2>4, <2>5, <2>6, <2>7, <2>8, <2>9 DEF Next
<1> QED
  BY <1>1, <1>2, PTL DEF Spec

-----------------------------------------------------------------------------
(* What each kind of event does to the fields the invariants read.         *)

LEMMA ReserveEffect ==
    ASSUME TypeOK, ReserveModel
    PROVE  \E r : /\ CanReserveModel(turn, r)
                  /\ r.tokens \in Nat /\ r.select \in BOOLEAN
                  /\ r.authority \in Nat /\ r.deadline \in Nat
                  /\ turn'.state = "model_reserved" /\ turn'.rejections = <<>>
                  /\ turn'.steps = Append(turn.steps, ReservedStep(r))
                  /\ turn'.calls = turn.calls + 1 /\ turn'.tokens = turn.tokens + r.tokens
                  /\ turn'.tools = turn.tools /\ turn'.cycles = CyclesFed(turn)
                  /\ turn'.revision = turn.revision + 1
                  /\ UNCHANGED <<turn.output, turn.unavailable, turn.cancellation>>
<1>1. PICK fence \in Fences, select \in BOOLEAN, tokens \in Tokens,
           authority \in Instants, deadline \in Instants :
        LET r == [ordinal |-> Len(turn.steps) + 1, fence |-> fence, select |-> select,
                  tokens |-> tokens, authority |-> authority, deadline |-> deadline,
                  history |-> HistoryDigest(turn.steps)]
        IN  CanReserveModel(turn, r) /\ turn' = AfterReserveModel(turn, r)
  BY DEF ReserveModel, Accepted
<1> DEFINE r == [ordinal |-> Len(turn.steps) + 1, fence |-> fence, select |-> select,
                 tokens |-> tokens, authority |-> authority, deadline |-> deadline,
                 history |-> HistoryDigest(turn.steps)]
<1>2. r.tokens \in Nat /\ r.select \in BOOLEAN /\ r.authority \in Nat /\ r.deadline \in Nat
  BY BudgetAssumption DEF Tokens, Instants
<1>3. CanReserveModel(turn, r) /\ turn' = AfterReserveModel(turn, r)
  BY <1>1
<1> HIDE DEF r
<1> WITNESS r
<1> QED
  BY <1>2, <1>3 DEF AfterReserveModel, TypeOK

LEMMA RejectEffect ==
    ASSUME TypeOK, RejectModel
    PROVE  /\ turn.state = "model_reserved" /\ turn'.state = "model_retry_waiting"
           /\ Len(turn'.rejections) = Len(turn.rejections) + 1
           /\ Len(turn.rejections) \in Nat
           /\ turn.rejections # <<>> => Len(turn.rejections) <= MaxRetries
           /\ turn'.revision = turn.revision + 1
           /\ UNCHANGED <<turn.steps, turn.calls, turn.tokens, turn.tools, turn.cycles,
                          turn.output, turn.unavailable, turn.cancellation>>
<1>1. PICK x : CanRejectModel(turn, x) /\ turn' = AfterRejectModel(turn, x)
  BY DEF RejectModel, Accepted
<1>2. turn.state = "model_reserved"
  BY <1>1 DEF CanRejectModel, Accepts, TypeOK, States
<1> QED
  BY <1>1, <1>2 DEF CanRejectModel, AfterRejectModel, TypeOK

LEMMA ClaimEffect ==
    ASSUME TypeOK, ClaimRetry
    PROVE  /\ turn.state = "model_retry_waiting" /\ turn'.state = "model_reserved"
           /\ turn'.revision = turn.revision + 1
           /\ UNCHANGED <<turn.rejections, turn.steps, turn.calls, turn.tokens, turn.tools,
                          turn.cycles, turn.output, turn.unavailable, turn.cancellation>>
<1>1. PICK c : CanClaimRetry(turn, c) /\ turn' = AfterClaimRetry(turn, c)
  BY DEF ClaimRetry, Accepted
<1>2. turn.state = "model_retry_waiting"
  BY <1>1 DEF CanClaimRetry, Accepts, TypeOK, States
<1> QED
  BY <1>1, <1>2 DEF AfterClaimRetry, TypeOK

LEMMA SelectEffect ==
    ASSUME TypeOK, SelectTool
    PROVE  \E s : /\ CanSelectTool(turn, s) /\ s.proposal \in Proposals
                  /\ HasStep(turn) /\ turn.state = "model_reserved"
                  /\ turn'.state = "tool_pending"
                  /\ turn'.steps = [turn.steps EXCEPT ![Len(turn.steps)] =
                        [@ EXCEPT !.phase = "tool_pending", !.proposal = s.proposal]]
                  /\ turn'.tools = turn.tools + 1
                  /\ turn'.revision = turn.revision + 1
                  /\ UNCHANGED <<turn.rejections, turn.calls, turn.tokens, turn.cycles,
                                 turn.output, turn.unavailable, turn.cancellation>>
<1>1. PICK ordinal \in Ordinals, fence \in Fences, proposal \in Proposals :
        LET s == [ordinal |-> ordinal, fence |-> fence, proposal |-> proposal]
        IN  CanSelectTool(turn, s) /\ turn' = AfterSelectTool(turn, s)
  BY DEF SelectTool, Accepted
<1> DEFINE s == [ordinal |-> ordinal, fence |-> fence, proposal |-> proposal]
<1>2. CanSelectTool(turn, s) /\ turn' = AfterSelectTool(turn, s) /\ s.proposal \in Proposals
  BY <1>1
<1> HIDE DEF s
<1>3. HasStep(turn) /\ turn.state = "model_reserved"
  <2>1. HasStep(turn) /\ "select" \in Accepts[turn.state]
    BY <1>2 DEF CanSelectTool, InPhase
  <2>2. turn.state \in States
    BY DEF TypeOK
  <2> QED
    BY <2>1, <2>2 DEF Accepts, States
<1> WITNESS s
<1> QED
  BY <1>2, <1>3 DEF AfterSelectTool, TypeOK

LEMMA ResultEffect ==
    ASSUME TypeOK, RecordToolResult
    PROVE  \E t : /\ CanRecordToolResult(turn, t) /\ t.authority \in Nat
                  /\ HasStep(turn) /\ turn.state = "tool_pending"
                  /\ turn'.state = "result_ready"
                  /\ turn'.steps = [turn.steps EXCEPT ![Len(turn.steps)] =
                        [@ EXCEPT !.phase = "result_ready", !.result = t.authority,
                                  !.payload = t.payload]]
                  /\ turn'.revision = turn.revision + 1
                  /\ UNCHANGED <<turn.rejections, turn.calls, turn.tokens, turn.tools,
                                 turn.cycles, turn.output, turn.unavailable, turn.cancellation>>
<1>1. PICK ordinal \in Ordinals, proposal \in Proposals, authority \in Instants,
           payload \in Payloads :
        LET t == [ordinal |-> ordinal, proposal |-> proposal, authority |-> authority,
                  payload |-> payload]
        IN  CanRecordToolResult(turn, t) /\ turn' = AfterRecordToolResult(turn, t)
  BY DEF RecordToolResult, Accepted
<1> DEFINE t == [ordinal |-> ordinal, proposal |-> proposal, authority |-> authority,
                 payload |-> payload]
<1>2. CanRecordToolResult(turn, t) /\ turn' = AfterRecordToolResult(turn, t) /\ t.authority \in Nat
  BY <1>1, BudgetAssumption DEF Instants
<1> HIDE DEF t
<1>3. HasStep(turn) /\ turn.state = "tool_pending"
  <2>1. HasStep(turn) /\ "result" \in Accepts[turn.state]
    BY <1>2 DEF CanRecordToolResult, InPhase
  <2>2. turn.state \in States
    BY DEF TypeOK
  <2> QED
    BY <2>1, <2>2 DEF Accepts, States
<1> WITNESS t
<1> QED
  BY <1>2, <1>3 DEF AfterRecordToolResult, TypeOK

LEMMA ExitEffect ==
    ASSUME TypeOK, RecordOutput \/ MarkUnavailable \/ Cancel
    PROVE  /\ turn.state \notin {"output_recorded", "cancelled"}
           /\ turn'.revision = turn.revision + 1
           /\ UNCHANGED <<turn.rejections, turn.steps, turn.calls, turn.tokens, turn.tools,
                          turn.cycles>>
           /\ \/ /\ turn.state = "model_reserved" /\ turn'.state = "output_recorded"
                 /\ HasStep(turn) /\ turn'.output = Last(turn).fence
                 /\ UNCHANGED <<turn.unavailable, turn.cancellation>>
              \/ /\ turn.state # "response_unavailable"
                 /\ turn'.state = "response_unavailable"
                 /\ turn'.unavailable \in {"model", "tool", "allowance"}
                 /\ UNCHANGED <<turn.output, turn.cancellation>>
              \/ /\ turn'.state = "cancelled" /\ turn'.cancellation \in Commands
                 /\ UNCHANGED <<turn.output, turn.unavailable>>
<1>1. CASE RecordOutput
  <2>1. PICK o : CanRecordOutput(turn, o) /\ turn' = AfterRecordOutput(turn, o)
    BY <1>1 DEF RecordOutput, Accepted
  <2>2. turn.state = "model_reserved" /\ HasStep(turn) /\ o.fence = Last(turn).fence
    BY <2>1 DEF CanRecordOutput, InPhase, Accepts, TypeOK, States
  <2> QED
    BY <2>1, <2>2 DEF AfterRecordOutput, TypeOK
<1>2. CASE MarkUnavailable
  <2>1. PICK u : /\ CanMarkUnavailable(turn, u) /\ turn' = AfterMarkUnavailable(turn, u)
                 /\ u.reason \in {"model", "tool", "allowance"}
    BY <1>2 DEF MarkUnavailable, Accepted
  <2>2. turn.state \notin {"output_recorded", "cancelled", "response_unavailable"}
    BY <2>1 DEF CanMarkUnavailable, Accepts, TypeOK, States
  <2> QED
    BY <2>1, <2>2 DEF AfterMarkUnavailable, TypeOK
<1>3. CASE Cancel
  <2>1. PICK command \in Commands : CanCancel(turn) /\ turn' = AfterCancel(turn, command)
    BY <1>3 DEF Cancel
  <2>2. turn.state \notin {"output_recorded", "cancelled"}
    BY <2>1 DEF CanCancel, Accepts, TypeOK, States
  <2> QED
    BY <2>1, <2>2 DEF AfterCancel, TypeOK
<1> QED
  BY <1>1, <1>2, <1>3

-----------------------------------------------------------------------------
(* No run of any length takes a turn over an allowance of its run, and no   *)
(* offer of tools costs the turn the request that answers with their result.*)
(* The two bounds are inductive together with the type.                     *)
AllowanceInv == TypeOK /\ AllowanceNeverExceeded /\ ToolOfferKeepsFinalAnswer

LEMMA AllowanceInductive == AllowanceInv /\ [Next]_turn => AllowanceNeverExceeded'
<1> SUFFICES ASSUME AllowanceInv, [Next]_turn PROVE AllowanceNeverExceeded'
  OBVIOUS
<1> USE DEF AllowanceInv
<1>1. CASE ReserveModel
  <2>1. PICK r : /\ CanReserveModel(turn, r)
                 /\ turn'.calls = turn.calls + 1 /\ turn'.tokens = turn.tokens + r.tokens
                 /\ turn'.tools = turn.tools /\ turn'.cycles = CyclesFed(turn)
                 /\ turn'.rejections = <<>>
    BY <1>1, ReserveEffect
  <2> QED
    BY <2>1, BudgetAssumption DEF AllowanceNeverExceeded, CanReserveModel, FitsAllowance
<1>2. CASE RejectModel
  <2>1. Len(turn'.rejections) <= MaxRetries + 1
    BY <1>2, RejectEffect, BudgetAssumption
  <2> QED
    BY <1>2, <2>1, RejectEffect DEF AllowanceNeverExceeded
<1>3. CASE ClaimRetry
  BY <1>3, ClaimEffect DEF AllowanceNeverExceeded
<1>4. CASE SelectTool
  <2>1. turn.tools < MaxToolInvocations /\ turn'.tools = turn.tools + 1
    BY <1>4, SelectEffect DEF CanSelectTool
  <2>2. turn'.tools <= MaxToolInvocations
    BY <2>1, BudgetAssumption DEF TypeOK
  <2> QED
    BY <1>4, <2>2, SelectEffect DEF AllowanceNeverExceeded
<1>5. CASE RecordToolResult
  BY <1>5, ResultEffect DEF AllowanceNeverExceeded
<1>6. CASE RecordOutput \/ MarkUnavailable \/ Cancel
  BY <1>6, ExitEffect DEF AllowanceNeverExceeded
<1>7. CASE UNCHANGED turn
  BY <1>7 DEF AllowanceNeverExceeded
<1> QED
  BY <1>1, <1>2, <1>3, <1>4, <1>5, <1>6, <1>7 DEF Next

LEMMA ToolOfferInductive == AllowanceInv /\ [Next]_turn => ToolOfferKeepsFinalAnswer'
<1> SUFFICES ASSUME AllowanceInv, [Next]_turn, HasStep(turn)', Last(turn)'.select
             PROVE  /\ turn'.calls < MaxModelTurns
                    /\ turn'.tokens < MaxCompletionTokens
                    /\ turn'.cycles < MaxLoopIterations
                    /\ Last(turn)'.phase = "model_reserved" => turn'.tools < MaxToolInvocations
  BY DEF ToolOfferKeepsFinalAnswer
<1> USE DEF AllowanceInv
<1>1. CASE ReserveModel
  <2>1. PICK r : /\ CanReserveModel(turn, r)
                 /\ turn'.steps = Append(turn.steps, ReservedStep(r))
                 /\ turn'.calls = turn.calls + 1 /\ turn'.tokens = turn.tokens + r.tokens
                 /\ turn'.tools = turn.tools /\ turn'.cycles = CyclesFed(turn)
    BY <1>1, ReserveEffect
  <2>2. Last(turn)' = ReservedStep(r)
    BY <2>1 DEF Last, TypeOK
  <2>3. KeepsFinalModelAllowance(turn, r)
    BY <2>1, <2>2 DEF CanReserveModel, FitsAllowance, ReservedStep
  <2> QED
    BY <2>1, <2>3 DEF KeepsFinalModelAllowance
<1>2. CASE SelectTool
  <2>1. PICK s : /\ CanSelectTool(turn, s) /\ HasStep(turn)
                 /\ turn'.steps = [turn.steps EXCEPT ![Len(turn.steps)] =
                      [@ EXCEPT !.phase = "tool_pending", !.proposal = s.proposal]]
                 /\ UNCHANGED <<turn.calls, turn.tokens, turn.cycles>>
    BY <1>2, SelectEffect
  <2> DEFINE step == [Last(turn) EXCEPT !.phase = "tool_pending", !.proposal = s.proposal]
  <2>2. Last(turn)' = step
    BY <2>1, LastTyped DEF Last
  <2>3. Last(turn) \in StepType
    BY <2>1, LastTyped
  <2>4. Last(turn)'.select = Last(turn).select /\ Last(turn)'.phase = "tool_pending"
    BY <2>2, <2>3 DEF StepType
  <2> QED
    BY <2>1, <2>4 DEF ToolOfferKeepsFinalAnswer
<1>3. CASE RecordToolResult
  <2>1. PICK t : /\ HasStep(turn)
                 /\ turn'.steps = [turn.steps EXCEPT ![Len(turn.steps)] =
                      [@ EXCEPT !.phase = "result_ready", !.result = t.authority,
                                !.payload = t.payload]]
                 /\ UNCHANGED <<turn.calls, turn.tokens, turn.cycles>>
    BY <1>3, ResultEffect
  <2> DEFINE step == [Last(turn) EXCEPT !.phase = "result_ready", !.result = t.authority,
                                        !.payload = t.payload]
  <2>2. Last(turn)' = step
    BY <2>1, LastTyped DEF Last
  <2>3. Last(turn) \in StepType
    BY <2>1, LastTyped
  <2>4. Last(turn)'.select = Last(turn).select /\ Last(turn)'.phase = "result_ready"
    BY <2>2, <2>3 DEF StepType
  <2> QED
    BY <2>1, <2>4 DEF ToolOfferKeepsFinalAnswer
<1>4. CASE RejectModel \/ ClaimRetry \/ RecordOutput \/ MarkUnavailable \/ Cancel
  <2>1. UNCHANGED <<turn.steps, turn.calls, turn.tokens, turn.tools, turn.cycles>>
    BY <1>4, RejectEffect, ClaimEffect, ExitEffect
  <2> QED
    BY <2>1 DEF ToolOfferKeepsFinalAnswer, HasStep, Last
<1>5. CASE UNCHANGED turn
  BY <1>5 DEF ToolOfferKeepsFinalAnswer, HasStep, Last
<1> QED
  BY <1>1, <1>2, <1>3, <1>4, <1>5 DEF Next

(* However often its events repeat and race, a turn stays in its run's      *)
(* allowance of requests, tokens, tools, cycles and physical sends.         *)
THEOREM AllowanceSafe == Spec => [](AllowanceNeverExceeded /\ ToolOfferKeepsFinalAnswer)
<1>1. Init => AllowanceInv
  <2> SUFFICES ASSUME Init PROVE AllowanceInv
    OBVIOUS
  <2>1. TypeOK
    BY BudgetAssumption DEF Init, InitialProtocol, TypeOK, States, Accepts
  <2> QED
    BY <2>1, BudgetAssumption DEF AllowanceInv, Init, InitialProtocol, AllowanceNeverExceeded,
       ToolOfferKeepsFinalAnswer, HasStep
<1>2. AllowanceInv /\ TypeOK' /\ [Next]_turn => AllowanceInv'
  BY AllowanceInductive, ToolOfferInductive DEF AllowanceInv
<1>3. AllowanceInv => AllowanceNeverExceeded /\ ToolOfferKeepsFinalAnswer
  BY DEF AllowanceInv
<1> QED
  BY <1>1, <1>2, <1>3, TypeCorrect, PTL DEF Spec

(* A turn that was offered tools can afford the tool and the request that   *)
(* answers with its result, for every allowance a run may be granted.       *)
THEOREM FinalAnswerAffordable == Spec => []ToolOfferKeepsFinalAnswer
<1> QED
  BY AllowanceSafe, PTL

-----------------------------------------------------------------------------
(* Authority narrows over every turn of any length.  A new request is bound *)
(* only by its predecessor's authority and result; that this bounds it by   *)
(* every earlier one is the induction.                                      *)
AuthorityInv == TypeOK /\ AuthorityNarrows

LEMMA AuthorityInductive == AuthorityInv /\ [Next]_turn => AuthorityNarrows'
<1> SUFFICES ASSUME AuthorityInv, [Next]_turn PROVE AuthorityNarrows'
  OBVIOUS
<1> USE DEF AuthorityInv
<1>1. CASE ReserveModel
  <2>1. PICK r : /\ CanReserveModel(turn, r) /\ r.authority \in Nat /\ r.deadline \in Nat
                 /\ turn'.steps = Append(turn.steps, ReservedStep(r))
    BY <1>1, ReserveEffect
  <2> DEFINE n == Len(turn.steps)
  <2>2. n \in Nat /\ DOMAIN turn'.steps = 1..n + 1 /\ Len(turn'.steps) = n + 1
        /\ DOMAIN turn.steps = 1..n /\ \A i \in 1..n : turn'.steps[i] = turn.steps[i]
        /\ turn'.steps[n + 1] = ReservedStep(r)
    BY <2>1 DEF TypeOK
  <2>3. /\ turn'.steps[n + 1].authority = r.authority /\ turn'.steps[n + 1].deadline = r.deadline
        /\ turn'.steps[n + 1].result = None
    <3>1. turn'.steps[n + 1] = ReservedStep(r)
      BY <2>1 DEF TypeOK
    <3>2. /\ ReservedStep(r).authority = r.authority /\ ReservedStep(r).deadline = r.deadline
          /\ ReservedStep(r).result = None
      BY DEF ReservedStep
    <3> QED
      BY <3>1, <3>2
  <2>4. \A i \in 1..n : turn.steps[i] \in StepType
    BY <2>2 DEF TypeOK
  <2>5. n # 0 => /\ r.authority <= turn.steps[n].authority
                 /\ turn.steps[n].result # None => r.authority <= turn.steps[n].result
    <3> SUFFICES ASSUME n # 0
                 PROVE  /\ r.authority <= turn.steps[n].authority
                        /\ turn.steps[n].result # None => r.authority <= turn.steps[n].result
      OBVIOUS
    <3>1. HasStep(turn) /\ Last(turn) = turn.steps[n] /\ turn.steps[n] \in StepType
      BY <2>2, <2>4 DEF HasStep, Last, TypeOK
    <3>2. turn.steps[n].authority \in Nat /\ turn.steps[n].result \in Nat \union {None}
      BY <3>1 DEF StepType
    <3>3. r.authority <= LatestAuthority(turn)
      BY <2>1 DEF CanReserveModel, FitsAllowance
    <3> QED
      BY <2>1, <3>1, <3>2, <3>3 DEF LatestAuthority, Lesser
  <2>6. \A i \in 1..n : /\ r.authority <= turn.steps[i].authority
                        /\ turn.steps[i].result # None => r.authority <= turn.steps[i].result
    <3> SUFFICES ASSUME NEW i \in 1..n
                 PROVE  /\ r.authority <= turn.steps[i].authority
                        /\ turn.steps[i].result # None => r.authority <= turn.steps[i].result
      OBVIOUS
    <3>1. CASE i = n
      BY <2>5, <3>1, <2>2
    <3>2. CASE i # n
      <4>1. n \in i + 1..n
        BY <2>2, <3>2
      <4>2. /\ turn.steps[n].authority <= turn.steps[i].authority
            /\ turn.steps[i].result # None => turn.steps[n].authority <= turn.steps[i].result
        BY <2>2, <4>1 DEF AuthorityNarrows
      <4>3. turn.steps[n].authority \in Nat /\ turn.steps[i].authority \in Nat
            /\ turn.steps[i].result \in Nat \union {None}
        BY <2>4, <2>2 DEF StepType
      <4> QED
        BY <2>1, <2>2, <2>5, <4>2, <4>3
    <3> QED
      BY <3>1, <3>2
  <2>7. r.deadline <= r.authority /\ r.authority <= WallClockDeadline
    BY <2>1 DEF CanReserveModel, FitsAllowance
  <2> SUFFICES ASSUME NEW i \in 1..n + 1
               PROVE  /\ turn'.steps[i].deadline <= turn'.steps[i].authority
                      /\ turn'.steps[i].authority <= WallClockDeadline
                      /\ turn'.steps[i].result # None => turn'.steps[i].result <= turn'.steps[i].authority
                      /\ \A j \in i + 1..n + 1 :
                          /\ turn'.steps[j].authority <= turn'.steps[i].authority
                          /\ turn'.steps[i].result # None => turn'.steps[j].authority <= turn'.steps[i].result
    BY <2>2 DEF AuthorityNarrows
  <2>8. CASE i = n + 1
    BY <2>2, <2>3, <2>7, <2>8
  <2>9. CASE i # n + 1
    <3>1. i \in 1..n /\ turn'.steps[i] = turn.steps[i]
      BY <2>2, <2>9
    <3>2. \A j \in i + 1..n :
            /\ turn.steps[j].authority <= turn.steps[i].authority
            /\ turn.steps[i].result # None => turn.steps[j].authority <= turn.steps[i].result
      BY <3>1, <2>2 DEF AuthorityNarrows
    <3>3. \A j \in i + 1..n + 1 :
            /\ turn'.steps[j].authority <= turn'.steps[i].authority
            /\ turn'.steps[i].result # None => turn'.steps[j].authority <= turn'.steps[i].result
      <4> SUFFICES ASSUME NEW j \in i + 1..n + 1
                   PROVE  /\ turn'.steps[j].authority <= turn'.steps[i].authority
                          /\ turn'.steps[i].result # None => turn'.steps[j].authority <= turn'.steps[i].result
        OBVIOUS
      <4>1. CASE j = n + 1
        BY <4>1, <3>1, <2>3, <2>6
      <4>2. CASE j # n + 1
        <5>1. j \in i + 1..n /\ j \in 1..n
          BY <4>2, <3>1, <2>2
        <5> QED
          BY <5>1, <3>1, <3>2, <2>2
      <4> QED
        BY <4>1, <4>2
    <3> QED
      BY <3>1, <3>3, <2>2 DEF AuthorityNarrows
  <2> QED
    BY <2>8, <2>9
<1>2. CASE SelectTool
  <2>1. PICK s : /\ HasStep(turn)
                 /\ turn'.steps = [turn.steps EXCEPT ![Len(turn.steps)] =
                      [@ EXCEPT !.phase = "tool_pending", !.proposal = s.proposal]]
    BY <1>2, SelectEffect
  <2>2. /\ DOMAIN turn'.steps = DOMAIN turn.steps /\ Len(turn'.steps) = Len(turn.steps)
        /\ \A i \in DOMAIN turn.steps : turn.steps[i] \in StepType
        /\ \A i \in DOMAIN turn.steps \ {Len(turn.steps)} : turn'.steps[i] = turn.steps[i]
        /\ turn'.steps[Len(turn.steps)] =
             [turn.steps[Len(turn.steps)] EXCEPT !.phase = "tool_pending", !.proposal = s.proposal]
    BY <2>1, LastTyped
  <2>3. \A i \in DOMAIN turn.steps : /\ turn'.steps[i].authority = turn.steps[i].authority
                                      /\ turn'.steps[i].deadline = turn.steps[i].deadline
                                      /\ turn'.steps[i].result = turn.steps[i].result
    <3> TAKE i \in DOMAIN turn.steps
    <3>1. CASE i # Len(turn.steps)
      BY <2>2, <3>1
    <3>2. CASE i = Len(turn.steps)
      BY <2>2, <3>2 DEF StepType
    <3> QED
      BY <3>1, <3>2
  <2>4. \A i \in DOMAIN turn.steps : i + 1..Len(turn.steps) \subseteq DOMAIN turn.steps
    BY <2>1, LastTyped
  <2> QED
    BY <2>2, <2>3, <2>4 DEF AuthorityNarrows
<1>3. CASE RecordToolResult
  <2>1. PICK t : /\ HasStep(turn) /\ CanRecordToolResult(turn, t) /\ t.authority \in Nat
                 /\ turn'.steps = [turn.steps EXCEPT ![Len(turn.steps)] =
                      [@ EXCEPT !.phase = "result_ready", !.result = t.authority,
                                !.payload = t.payload]]
    BY <1>3, ResultEffect
  <2>2. /\ DOMAIN turn'.steps = DOMAIN turn.steps /\ Len(turn'.steps) = Len(turn.steps)
        /\ \A i \in DOMAIN turn.steps : turn.steps[i] \in StepType
        /\ \A i \in DOMAIN turn.steps \ {Len(turn.steps)} : turn'.steps[i] = turn.steps[i]
        /\ turn'.steps[Len(turn.steps)] =
             [turn.steps[Len(turn.steps)] EXCEPT !.phase = "result_ready", !.result = t.authority,
                                                 !.payload = t.payload]
    BY <2>1, LastTyped
  <2>3. \A i \in DOMAIN turn.steps :
          /\ turn'.steps[i].authority = turn.steps[i].authority
          /\ turn'.steps[i].deadline = turn.steps[i].deadline
          /\ i # Len(turn.steps) => turn'.steps[i].result = turn.steps[i].result
    <3> TAKE i \in DOMAIN turn.steps
    <3>1. CASE i # Len(turn.steps)
      BY <2>2, <3>1
    <3>2. CASE i = Len(turn.steps)
      BY <2>2, <3>2 DEF StepType
    <3> QED
      BY <3>1, <3>2
  <2>4. /\ turn'.steps[Len(turn.steps)].result = t.authority
        /\ t.authority <= turn.steps[Len(turn.steps)].authority
    BY <2>1, <2>2, LastTyped DEF CanRecordToolResult, Last, StepType
  <2>5. \A i \in DOMAIN turn.steps :
          /\ i + 1..Len(turn.steps) \subseteq DOMAIN turn.steps
          /\ i = Len(turn.steps) => i + 1..Len(turn.steps) = {}
    BY <2>1, LastTyped
  <2>6. \A i \in DOMAIN turn.steps :
          /\ turn.steps[i].deadline <= turn.steps[i].authority
          /\ turn.steps[i].authority <= WallClockDeadline
          /\ turn.steps[i].result # None => turn.steps[i].result <= turn.steps[i].authority
    BY DEF AuthorityNarrows
  <2>7. \A i \in DOMAIN turn.steps : \A j \in i + 1..Len(turn.steps) :
          /\ turn.steps[j].authority <= turn.steps[i].authority
          /\ turn.steps[i].result # None => turn.steps[j].authority <= turn.steps[i].result
    BY DEF AuthorityNarrows
  <2>8. \A i \in DOMAIN turn.steps :
          turn'.steps[i].result # None => turn'.steps[i].result <= turn'.steps[i].authority
    BY <2>3, <2>4, <2>6, LastTyped, <2>1
  <2>9. \A i \in DOMAIN turn.steps : \A j \in i + 1..Len(turn.steps) :
          /\ turn'.steps[j].authority <= turn'.steps[i].authority
          /\ turn'.steps[i].result # None => turn'.steps[j].authority <= turn'.steps[i].result
    BY <2>3, <2>5, <2>7
  <2> QED
    BY <2>2, <2>3, <2>6, <2>8, <2>9 DEF AuthorityNarrows
<1>4. CASE RejectModel \/ ClaimRetry \/ RecordOutput \/ MarkUnavailable \/ Cancel
  <2>1. UNCHANGED turn.steps
    BY <1>4, RejectEffect, ClaimEffect, ExitEffect
  <2> QED
    BY <2>1 DEF AuthorityNarrows
<1>5. CASE UNCHANGED turn
  BY <1>5 DEF AuthorityNarrows
<1> QED
  BY <1>1, <1>2, <1>3, <1>4, <1>5 DEF Next

THEOREM AuthoritySafe == Spec => []AuthorityNarrows
<1>1. Init => AuthorityNarrows
  BY DEF Init, InitialProtocol, AuthorityNarrows
<1>2. TypeOK /\ AuthorityNarrows /\ [Next]_turn => AuthorityNarrows'
  BY AuthorityInductive DEF AuthorityInv
<1> QED
  BY <1>1, <1>2, TypeCorrect, PTL DEF Spec

-----------------------------------------------------------------------------
(* Which receipts a turn holds, and which fields of its steps are filled.   *)
(* Output is refused to a turn that has given up only because a turn that   *)
(* has given up is never reserved again; a step loses nothing only because  *)
(* its fields are filled in the order of its phases.                        *)
UnavailableIsLate ==
    turn.unavailable # None => turn.state \in {"response_unavailable", "cancelled"}

StepsFillInOrder ==
    \A i \in DOMAIN turn.steps :
        /\ turn.steps[i].phase = "model_reserved" => turn.steps[i].proposal = None
        /\ turn.steps[i].phase # "result_ready" => turn.steps[i].result = None

RecordInv == OneWinner /\ UnavailableIsLate /\ StepsFillInOrder

(* What a later projection shows of a step that an earlier one had.         *)
StepKept(old, new) ==
    /\ new.fence = old.fence /\ new.select = old.select
    /\ new.tokens = old.tokens /\ new.deadline = old.deadline
    /\ old.proposal # None => new.proposal = old.proposal
    /\ old.result # None => new.result = old.result /\ new.payload = old.payload

StepsKept ==
    /\ Len(turn'.steps) >= Len(turn.steps)
    /\ \A i \in DOMAIN turn.steps : StepKept(turn.steps[i], turn'.steps[i])

(* Work that ends in neither a receipt nor Stop leaves the receipts alone.  *)
LEMMA WorkKeepsReceipts ==
    ASSUME TypeOK, OneWinner, UnavailableIsLate,
           UNCHANGED <<turn.output, turn.unavailable, turn.cancellation>>,
           turn.state \notin {"output_recorded", "response_unavailable", "cancelled"},
           turn'.state \notin {"output_recorded", "response_unavailable", "cancelled"}
    PROVE  OneWinner' /\ UnavailableIsLate'
BY DEF OneWinner, UnavailableIsLate

LEMMA ReserveKeepsRecord ==
    ASSUME TypeOK, RecordInv, ReserveModel PROVE RecordInv' /\ StepsKept
<1>1. PICK r : /\ CanReserveModel(turn, r) /\ turn'.state = "model_reserved"
               /\ turn'.steps = Append(turn.steps, ReservedStep(r))
               /\ UNCHANGED <<turn.output, turn.unavailable, turn.cancellation>>
  BY ReserveEffect
<1>2. turn.state \notin {"output_recorded", "response_unavailable", "cancelled"}
  BY <1>1 DEF CanReserveModel, Accepts, TypeOK, States
<1>3. /\ Len(turn.steps) \in Nat /\ DOMAIN turn.steps = 1..Len(turn.steps)
      /\ Len(turn'.steps) = Len(turn.steps) + 1
      /\ DOMAIN turn'.steps = 1..Len(turn.steps) + 1
      /\ \A i \in DOMAIN turn.steps : turn'.steps[i] = turn.steps[i]
      /\ turn'.steps[Len(turn.steps) + 1] = ReservedStep(r)
  BY <1>1 DEF TypeOK
<1>4. ReservedStep(r).proposal = None /\ ReservedStep(r).result = None
  BY DEF ReservedStep
<1>5. StepsFillInOrder'
  BY <1>3, <1>4 DEF StepsFillInOrder, RecordInv
<1>6. StepsKept
  BY <1>3 DEF StepsKept, StepKept
<1> QED
  BY <1>1, <1>2, <1>5, <1>6, WorkKeepsReceipts DEF RecordInv

LEMMA SelectKeepsRecord ==
    ASSUME TypeOK, RecordInv, SelectTool PROVE RecordInv' /\ StepsKept
<1>1. PICK s : /\ CanSelectTool(turn, s) /\ HasStep(turn)
               /\ turn.state = "model_reserved" /\ turn'.state = "tool_pending"
               /\ turn'.steps = [turn.steps EXCEPT ![Len(turn.steps)] =
                    [@ EXCEPT !.phase = "tool_pending", !.proposal = s.proposal]]
               /\ UNCHANGED <<turn.output, turn.unavailable, turn.cancellation>>
  BY SelectEffect
<1>2. /\ DOMAIN turn'.steps = DOMAIN turn.steps /\ Len(turn'.steps) = Len(turn.steps)
      /\ Len(turn.steps) \in DOMAIN turn.steps /\ Len(turn.steps) \in Nat
      /\ \A i \in DOMAIN turn.steps : turn.steps[i] \in StepType
      /\ \A i \in DOMAIN turn.steps \ {Len(turn.steps)} : turn'.steps[i] = turn.steps[i]
      /\ turn'.steps[Len(turn.steps)] =
           [turn.steps[Len(turn.steps)] EXCEPT !.phase = "tool_pending", !.proposal = s.proposal]
  BY <1>1, LastTyped
<1> DEFINE was == turn.steps[Len(turn.steps)]
           is == turn'.steps[Len(turn.steps)]
<1>3. was.phase = "model_reserved"
  BY <1>1 DEF CanSelectTool, InPhase, Last
<1>4. was.proposal = None /\ was.result = None
  BY <1>2, <1>3 DEF RecordInv, StepsFillInOrder
<1>5. /\ is.phase = "tool_pending" /\ is.result = was.result
      /\ is.fence = was.fence /\ is.select = was.select
      /\ is.tokens = was.tokens /\ is.deadline = was.deadline
  BY <1>2 DEF StepType
<1> HIDE DEF was, is
<1>6. StepsFillInOrder'
  BY <1>2, <1>4, <1>5 DEF RecordInv, StepsFillInOrder, was, is
<1>7. \A i \in DOMAIN turn.steps : StepKept(turn.steps[i], turn'.steps[i])
  <2> TAKE i \in DOMAIN turn.steps
  <2>1. CASE i = Len(turn.steps)
    BY <2>1, <1>4, <1>5 DEF StepKept, was, is
  <2>2. CASE i # Len(turn.steps)
    <3>1. turn'.steps[i] = turn.steps[i]
      BY <1>2, <2>2
    <3> QED
      BY <3>1 DEF StepKept
  <2> QED
    BY <2>1, <2>2
<1>8. StepsKept
  BY <1>2, <1>7 DEF StepsKept
<1> QED
  BY <1>1, <1>6, <1>8, WorkKeepsReceipts DEF RecordInv

LEMMA ResultKeepsRecord ==
    ASSUME TypeOK, RecordInv, RecordToolResult PROVE RecordInv' /\ StepsKept
<1>1. PICK t : /\ CanRecordToolResult(turn, t) /\ HasStep(turn)
               /\ turn.state = "tool_pending" /\ turn'.state = "result_ready"
               /\ turn'.steps = [turn.steps EXCEPT ![Len(turn.steps)] =
                    [@ EXCEPT !.phase = "result_ready", !.result = t.authority,
                              !.payload = t.payload]]
               /\ UNCHANGED <<turn.output, turn.unavailable, turn.cancellation>>
  BY ResultEffect
<1>2. /\ DOMAIN turn'.steps = DOMAIN turn.steps /\ Len(turn'.steps) = Len(turn.steps)
      /\ Len(turn.steps) \in DOMAIN turn.steps /\ Len(turn.steps) \in Nat
      /\ \A i \in DOMAIN turn.steps : turn.steps[i] \in StepType
      /\ \A i \in DOMAIN turn.steps \ {Len(turn.steps)} : turn'.steps[i] = turn.steps[i]
      /\ turn'.steps[Len(turn.steps)] =
           [turn.steps[Len(turn.steps)] EXCEPT !.phase = "result_ready", !.result = t.authority,
                                               !.payload = t.payload]
  BY <1>1, LastTyped
<1> DEFINE was == turn.steps[Len(turn.steps)]
           is == turn'.steps[Len(turn.steps)]
<1>3. was.phase = "tool_pending"
  BY <1>1 DEF CanRecordToolResult, InPhase, Last
<1>4. was.result = None
  BY <1>2, <1>3 DEF RecordInv, StepsFillInOrder
<1>5. /\ is.phase = "result_ready" /\ is.proposal = was.proposal
      /\ is.fence = was.fence /\ is.select = was.select
      /\ is.tokens = was.tokens /\ is.deadline = was.deadline
  BY <1>2 DEF StepType
<1> HIDE DEF was, is
<1>6. StepsFillInOrder'
  BY <1>2, <1>5 DEF RecordInv, StepsFillInOrder, was, is
<1>7. \A i \in DOMAIN turn.steps : StepKept(turn.steps[i], turn'.steps[i])
  <2> TAKE i \in DOMAIN turn.steps
  <2>1. CASE i = Len(turn.steps)
    BY <2>1, <1>4, <1>5 DEF StepKept, was, is
  <2>2. CASE i # Len(turn.steps)
    <3>1. turn'.steps[i] = turn.steps[i]
      BY <1>2, <2>2
    <3> QED
      BY <3>1 DEF StepKept
  <2> QED
    BY <2>1, <2>2
<1>8. StepsKept
  BY <1>2, <1>7 DEF StepsKept
<1> QED
  BY <1>1, <1>6, <1>8, WorkKeepsReceipts DEF RecordInv

(* An event that leaves the steps alone leaves them all as they were.       *)
LEMMA SameStepsKept ==
    ASSUME TypeOK, RecordInv, UNCHANGED turn.steps PROVE StepsFillInOrder' /\ StepsKept
BY DEF TypeOK, RecordInv, StepsFillInOrder, StepsKept, StepKept

LEMMA RetryKeepsRecord ==
    ASSUME TypeOK, RecordInv, RejectModel \/ ClaimRetry PROVE RecordInv' /\ StepsKept
BY RejectEffect, ClaimEffect, SameStepsKept, WorkKeepsReceipts DEF RecordInv

LEMMA ExitKeepsRecord ==
    ASSUME TypeOK, RecordInv, RecordOutput \/ MarkUnavailable \/ Cancel
    PROVE  /\ RecordInv' /\ StepsKept
           /\ turn.output = None /\ turn.cancellation = None
           /\ turn.unavailable # None => turn'.unavailable = turn.unavailable
<1>1. turn.output = None /\ turn.cancellation = None /\ UNCHANGED turn.steps
  BY ExitEffect DEF RecordInv, OneWinner
<1>2. turn.unavailable # None => turn.state = "response_unavailable"
  BY ExitEffect DEF RecordInv, UnavailableIsLate
<1>3. CASE /\ turn.state = "model_reserved" /\ turn'.state = "output_recorded"
           /\ HasStep(turn) /\ turn'.output = Last(turn).fence
           /\ UNCHANGED <<turn.unavailable, turn.cancellation>>
  <2>1. turn'.output # None
    BY <1>3, LastTyped, IdentityAssumption DEF StepType
  <2>2. turn'.output = Last(turn)'.fence
    BY <1>1, <1>3 DEF Last
  <2> QED
    BY <1>1, <1>2, <1>3, <2>1, <2>2, SameStepsKept DEF RecordInv, OneWinner, UnavailableIsLate
<1>4. CASE /\ turn.state # "response_unavailable"
           /\ turn'.state = "response_unavailable"
           /\ turn'.unavailable \in {"model", "tool", "allowance"}
           /\ UNCHANGED <<turn.output, turn.cancellation>>
  <2>1. turn'.unavailable # None
    BY <1>4, IdentityAssumption
  <2> QED
    BY <1>1, <1>2, <1>4, <2>1, SameStepsKept DEF RecordInv, OneWinner, UnavailableIsLate
<1>5. CASE /\ turn'.state = "cancelled" /\ turn'.cancellation \in Commands
           /\ UNCHANGED <<turn.output, turn.unavailable>>
  <2>1. turn'.cancellation # None
    BY <1>5, IdentityAssumption
  <2> QED
    BY <1>1, <1>2, <1>5, <2>1, SameStepsKept DEF RecordInv, OneWinner, UnavailableIsLate
<1> QED
  BY <1>3, <1>4, <1>5, ExitEffect

LEMMA RecordInductive == TypeOK /\ RecordInv /\ [Next]_turn => RecordInv'
<1> SUFFICES ASSUME TypeOK, RecordInv, [Next]_turn PROVE RecordInv'
  OBVIOUS
<1>1. CASE UNCHANGED turn
  BY <1>1 DEF RecordInv, OneWinner, UnavailableIsLate, StepsFillInOrder, Last
<1> QED
  BY <1>1, ReserveKeepsRecord, RetryKeepsRecord, SelectKeepsRecord, ResultKeepsRecord,
     ExitKeepsRecord DEF Next

LEMMA AlwaysRecordInv == Spec => []RecordInv
<1>1. Init => RecordInv
  BY DEF Init, InitialProtocol, RecordInv, OneWinner, UnavailableIsLate, StepsFillInOrder
<1> QED
  BY <1>1, RecordInductive, TypeCorrect, PTL DEF Spec

(* However many events race to end a turn, it has one winner.               *)
THEOREM WinnerSafe == Spec => []OneWinner
<1>1. RecordInv => OneWinner
  BY DEF RecordInv
<1> QED
  BY <1>1, AlwaysRecordInv, PTL

(* Allowance is never refunded.                                             *)
LEMMA CountersGrow ==
    ASSUME TypeOK, Next
    PROVE  /\ turn'.revision = turn.revision + 1
           /\ turn'.calls >= turn.calls /\ turn'.tokens >= turn.tokens
           /\ turn'.tools >= turn.tools /\ turn'.cycles >= turn.cycles
<1>1. turn.calls \in Nat /\ turn.tokens \in Nat /\ turn.tools \in Nat /\ turn.cycles \in Nat
  BY DEF TypeOK
<1>2. CASE ReserveModel
  <2>1. PICK r : /\ r.tokens \in Nat /\ turn'.revision = turn.revision + 1
                 /\ turn'.calls = turn.calls + 1 /\ turn'.tokens = turn.tokens + r.tokens
                 /\ turn'.tools = turn.tools /\ turn'.cycles = CyclesFed(turn)
    BY <1>2, ReserveEffect
  <2>2. CyclesFed(turn) >= turn.cycles
    BY <1>1 DEF CyclesFed
  <2> QED
    BY <1>1, <2>1, <2>2
<1>3. CASE SelectTool
  <2>1. /\ turn'.revision = turn.revision + 1 /\ turn'.tools = turn.tools + 1
        /\ UNCHANGED <<turn.calls, turn.tokens, turn.cycles>>
    BY <1>3, SelectEffect
  <2> QED
    BY <1>1, <2>1
<1>4. CASE RejectModel \/ ClaimRetry \/ RecordToolResult \/ RecordOutput \/ MarkUnavailable \/ Cancel
  <2>1. /\ turn'.revision = turn.revision + 1
        /\ UNCHANGED <<turn.calls, turn.tokens, turn.tools, turn.cycles>>
    BY <1>4, RejectEffect, ClaimEffect, ResultEffect, ExitEffect
  <2> QED
    BY <1>1, <2>1
<1> QED
  BY <1>2, <1>3, <1>4 DEF Next

LEMMA ReceiptsStay ==
    ASSUME TypeOK, RecordInv, Next
    PROVE  /\ turn.output # None => turn'.output = turn.output
           /\ turn.unavailable # None => turn'.unavailable = turn.unavailable
           /\ turn.cancellation # None => turn'.cancellation = turn.cancellation
<1>1. CASE RecordOutput \/ MarkUnavailable \/ Cancel
  BY <1>1, ExitKeepsRecord
<1>2. CASE ReserveModel \/ RejectModel \/ ClaimRetry \/ SelectTool \/ RecordToolResult
  BY <1>2, ReserveEffect, RejectEffect, ClaimEffect, SelectEffect, ResultEffect
<1> QED
  BY <1>1, <1>2 DEF Next

(* In a turn of any length no event rewrites what an earlier one recorded.  *)
THEOREM HistoryIsKept == Spec => HistoryOnlyGrows
<1>1. TypeOK /\ RecordInv /\ [Next]_turn =>
        [ /\ turn'.revision = turn.revision + 1
          /\ Len(turn'.steps) >= Len(turn.steps)
          /\ \A i \in DOMAIN turn.steps :
               LET old == turn.steps[i]  new == turn'.steps[i] IN
               /\ new.fence = old.fence /\ new.select = old.select
               /\ new.tokens = old.tokens /\ new.deadline = old.deadline
               /\ old.proposal # None => new.proposal = old.proposal
               /\ old.result # None => new.result = old.result /\ new.payload = old.payload
          /\ turn'.calls >= turn.calls /\ turn'.tokens >= turn.tokens
          /\ turn'.tools >= turn.tools /\ turn'.cycles >= turn.cycles
          /\ turn.output # None => turn'.output = turn.output
          /\ turn.unavailable # None => turn'.unavailable = turn.unavailable
          /\ turn.cancellation # None => turn'.cancellation = turn.cancellation ]_turn
  <2> SUFFICES ASSUME TypeOK, RecordInv, Next
               PROVE  /\ turn'.revision = turn.revision + 1
                      /\ Len(turn'.steps) >= Len(turn.steps)
                      /\ \A i \in DOMAIN turn.steps :
                           LET old == turn.steps[i]  new == turn'.steps[i] IN
                           /\ new.fence = old.fence /\ new.select = old.select
                           /\ new.tokens = old.tokens /\ new.deadline = old.deadline
                           /\ old.proposal # None => new.proposal = old.proposal
                           /\ old.result # None =>
                                 new.result = old.result /\ new.payload = old.payload
                      /\ turn'.calls >= turn.calls /\ turn'.tokens >= turn.tokens
                      /\ turn'.tools >= turn.tools /\ turn'.cycles >= turn.cycles
                      /\ turn.output # None => turn'.output = turn.output
                      /\ turn.unavailable # None => turn'.unavailable = turn.unavailable
                      /\ turn.cancellation # None => turn'.cancellation = turn.cancellation
    OBVIOUS
  <2>1. StepsKept
    BY ReserveKeepsRecord, RetryKeepsRecord, SelectKeepsRecord, ResultKeepsRecord,
       ExitKeepsRecord DEF Next
  <2> QED
    BY <2>1, CountersGrow, ReceiptsStay DEF StepsKept, StepKept
<1> QED
  BY <1>1, TypeCorrect, AlwaysRecordInv, PTL DEF Spec, HistoryOnlyGrows

-----------------------------------------------------------------------------
(* A send is claimed only under a nonce no rejection has, and rejected only *)
(* under the nonce of its claim: so each rejection adds one to the set of   *)
(* rejected nonces.                                                         *)
RejectedNonces == {turn.rejections[i].nonce : i \in DOMAIN turn.rejections}

SendsInv == IsFiniteSet(RejectedNonces) /\ SendsAreDistinct

LEMMA RejectKeepsSends ==
    ASSUME TypeOK, SendsInv, RejectModel PROVE SendsInv'
<1>1. PICK x : CanRejectModel(turn, x) /\ turn' = AfterRejectModel(turn, x)
  BY DEF RejectModel, Accepted
<1>2. turn.state = "model_reserved" /\ turn'.state = "model_retry_waiting"
  BY RejectEffect
<1>3. /\ Len(turn.rejections) \in Nat /\ DOMAIN turn.rejections = 1..Len(turn.rejections)
      /\ Len(turn'.rejections) = Len(turn.rejections) + 1
      /\ DOMAIN turn'.rejections = 1..Len(turn.rejections) + 1
      /\ \A i \in DOMAIN turn.rejections : turn'.rejections[i] = turn.rejections[i]
      /\ turn'.rejections[Len(turn.rejections) + 1] = x
  BY <1>1 DEF AfterRejectModel, TypeOK
<1>4. RejectedNonces' = RejectedNonces \union {x.nonce}
  BY <1>3 DEF RejectedNonces
<1>5. x.nonce \notin RejectedNonces
  <2>1. CASE turn.rejections = <<>>
    BY <2>1 DEF RejectedNonces
  <2>2. CASE turn.rejections # <<>>
    <3>1. turn.claim # None /\ x.nonce = turn.claim.nonce
      BY <1>1, <2>2 DEF CanRejectModel
    <3> QED
      BY <1>2, <2>2, <3>1 DEF SendsInv, SendsAreDistinct, RejectedNonces, CurrentNonce
  <2> QED
    BY <2>1, <2>2
<1>6. /\ IsFiniteSet(RejectedNonces')
      /\ Cardinality(RejectedNonces') = Cardinality(RejectedNonces) + 1
  BY <1>4, <1>5, FS_AddElement DEF SendsInv
<1>7. Cardinality(RejectedNonces) = Len(turn.rejections)
  BY DEF SendsInv, SendsAreDistinct, RejectedNonces
<1> QED
  BY <1>2, <1>3, <1>6, <1>7 DEF SendsInv, SendsAreDistinct, RejectedNonces

LEMMA ClaimKeepsSends ==
    ASSUME TypeOK, SendsInv, ClaimRetry PROVE SendsInv'
<1>1. PICK fence \in Fences, nonce \in Nonces, retryOrdinal \in 1..MaxRetries + 1,
           claimedAt \in Instants :
        LET c == [fence |-> fence, retryOrdinal |-> retryOrdinal, nonce |-> nonce,
                  claimedAt |-> claimedAt]
        IN  CanClaimRetry(turn, c) /\ turn' = AfterClaimRetry(turn, c)
  BY DEF ClaimRetry, Accepted
<1> DEFINE c == [fence |-> fence, retryOrdinal |-> retryOrdinal, nonce |-> nonce,
                 claimedAt |-> claimedAt]
<1>2. c # None
  BY BudgetAssumption, IdentityAssumption DEF ClaimType, Instants
<1>3. CanClaimRetry(turn, c) /\ turn' = AfterClaimRetry(turn, c)
  BY <1>1
<1> HIDE DEF c
<1>4. turn'.claim = c /\ UNCHANGED <<turn.rejections, turn.steps>>
  BY <1>3 DEF AfterClaimRetry, TypeOK
<1>5. c.nonce \notin RejectedNonces /\ c.claimedAt < Last(turn).deadline
  BY <1>3 DEF CanClaimRetry, FreshNonce, RejectedNonces
<1>6. RejectedNonces' = RejectedNonces
  BY <1>4 DEF RejectedNonces
<1>7. CurrentNonce(turn)' = c.nonce /\ Last(turn)' = Last(turn)
  BY <1>2, <1>4 DEF CurrentNonce, Last
<1> QED
  BY <1>4, <1>5, <1>6, <1>7 DEF SendsInv, SendsAreDistinct, RejectedNonces

LEMMA SendsInductive == TypeOK /\ SendsInv /\ [Next]_turn => SendsInv'
<1> SUFFICES ASSUME TypeOK, SendsInv, [Next]_turn PROVE SendsInv'
  OBVIOUS
<1>1. CASE ReserveModel
  <2>1. turn'.rejections = <<>> /\ RejectedNonces' = {}
    BY <1>1, ReserveEffect DEF RejectedNonces
  <2> QED
    BY <2>1, FS_EmptySet DEF SendsInv, SendsAreDistinct, RejectedNonces
<1>2. CASE SelectTool \/ RecordToolResult \/ RecordOutput \/ MarkUnavailable \/ Cancel
  <2>1. UNCHANGED turn.rejections /\ turn'.state # "model_reserved"
    BY <1>2, SelectEffect, ResultEffect, ExitEffect
  <2> QED
    BY <2>1 DEF SendsInv, SendsAreDistinct, RejectedNonces
<1>3. CASE UNCHANGED turn
  BY <1>3 DEF SendsInv, SendsAreDistinct, RejectedNonces, CurrentNonce, Last
<1> QED
  BY <1>1, <1>2, <1>3, RejectKeepsSends, ClaimKeepsSends DEF Next

(* However often a request is rejected, no nonce is sent twice and no send  *)
(* is claimed after its deadline.                                           *)
THEOREM RetriesSafe == Spec => []SendsAreDistinct
<1>1. Init => SendsInv
  <2> SUFFICES ASSUME Init PROVE SendsInv
    OBVIOUS
  <2>1. turn.rejections = <<>> /\ RejectedNonces = {} /\ turn.state = "open"
    BY DEF Init, InitialProtocol, RejectedNonces
  <2> QED
    BY <2>1, FS_EmptySet DEF SendsInv, SendsAreDistinct, RejectedNonces
<1>2. SendsInv => SendsAreDistinct
  BY DEF SendsInv
<1> QED
  BY <1>1, <1>2, SendsInductive, TypeCorrect, PTL DEF Spec

-----------------------------------------------------------------------------
(* The counters are only ever compared with the allowance; that they count  *)
(* the steps needs what the state says of the newest one: a turn reserves   *)
(* from its beginning or after a result, and nothing else adds a cycle.     *)
ReservesAfterResult ==
    /\ turn.state = "open" => turn.steps = <<>>
    /\ turn.state = "result_ready" => HasStep(turn) /\ Last(turn).result # None

AccountingInv == AccountingMatchesSteps /\ ReservesAfterResult

LEMMA StepSetsFinite ==
    ASSUME TypeOK
    PROVE  /\ Len(turn.steps) \in Nat /\ DOMAIN turn.steps = 1..Len(turn.steps)
           /\ SelectedSteps \subseteq DOMAIN turn.steps /\ IsFiniteSet(SelectedSteps)
           /\ AnsweredSteps \subseteq DOMAIN turn.steps /\ IsFiniteSet(AnsweredSteps)
<1>1. Len(turn.steps) \in Nat /\ DOMAIN turn.steps = 1..Len(turn.steps)
  BY DEF TypeOK
<1>2. IsFiniteSet(DOMAIN turn.steps)
  <2>1. 1 \in Int /\ Len(turn.steps) \in Int
    BY <1>1
  <2> QED
    BY <1>1, <2>1, FS_Interval
<1>3. SelectedSteps \subseteq DOMAIN turn.steps /\ AnsweredSteps \subseteq DOMAIN turn.steps
  BY DEF SelectedSteps, AnsweredSteps
<1> QED
  BY <1>1, <1>2, <1>3, FS_Subset

(* A set of counted steps grows by one.                                     *)
LEMMA CountsOneMore ==
    ASSUME NEW S, IsFiniteSet(S), NEW x, x \notin S
    PROVE  /\ IsFiniteSet(S \union {x})
           /\ Cardinality(S \union {x}) = Cardinality(S) + 1
BY FS_AddElement

LEMMA ReserveKeepsAccount ==
    ASSUME TypeOK, RecordInv, AccountingInv, ReserveModel PROVE AccountingInv'
<1> DEFINE n == Len(turn.steps)
<1>1. PICK r : /\ CanReserveModel(turn, r) /\ r.tokens \in Nat
               /\ turn'.state = "model_reserved"
               /\ turn'.steps = Append(turn.steps, ReservedStep(r))
               /\ turn'.calls = turn.calls + 1 /\ turn'.tokens = turn.tokens + r.tokens
               /\ turn'.tools = turn.tools /\ turn'.cycles = CyclesFed(turn)
  BY ReserveEffect
<1>2. /\ n \in Nat /\ DOMAIN turn.steps = 1..n
      /\ Len(turn'.steps) = n + 1 /\ DOMAIN turn'.steps = 1..n + 1
      /\ \A i \in DOMAIN turn.steps : turn'.steps[i] = turn.steps[i]
      /\ turn'.steps[n + 1] = ReservedStep(r)
      /\ turn.tokens \in Nat /\ turn.cycles \in Nat
  BY <1>1 DEF TypeOK
<1>3. /\ ReservedStep(r).proposal = None /\ ReservedStep(r).result = None
      /\ ReservedStep(r).tokens = r.tokens
  BY DEF ReservedStep
<1>4. SelectedSteps' = SelectedSteps /\ AnsweredSteps' = AnsweredSteps
  BY <1>2, <1>3 DEF SelectedSteps, AnsweredSteps
<1>5. /\ IsFiniteSet(AnsweredSteps) /\ n + 1 \notin AnsweredSteps
      /\ AnsweredSteps \subseteq 1..n
  BY <1>2, StepSetsFinite
<1>6. AnsweredSteps' \ {n + 1} = AnsweredSteps
  BY <1>4, <1>5
<1>7. turn.state \in {"open", "result_ready"}
  <2>1. "reserve" \in Accepts[turn.state] /\ turn.state \in States
    BY <1>1 DEF CanReserveModel, TypeOK
  <2> QED
    BY <2>1 DEF Accepts, States
<1>8. turn'.cycles = Cardinality(AnsweredSteps)
  <2>1. CASE turn.state = "open"
    <3>1. n = 0 /\ AnsweredSteps \ {n} = AnsweredSteps
      BY <1>2, <1>5, <2>1 DEF AccountingInv, ReservesAfterResult
    <3>2. turn'.cycles = turn.cycles
      BY <1>1, <1>2, <2>1 DEF CyclesFed
    <3> QED
      BY <3>1, <3>2 DEF AccountingInv, AccountingMatchesSteps
  <2>2. CASE turn.state = "result_ready"
    <3>1. n \in AnsweredSteps
      BY <1>2, <2>2 DEF AccountingInv, ReservesAfterResult, HasStep, Last, AnsweredSteps
    <3>2. turn'.cycles = turn.cycles + 1
      BY <1>1, <2>2 DEF CyclesFed
    <3>3. IsFiniteSet(AnsweredSteps \ {n})
      BY <1>5, FS_Subset
    <3>4. Cardinality((AnsweredSteps \ {n}) \union {n}) = Cardinality(AnsweredSteps \ {n}) + 1
      BY <3>3, CountsOneMore
    <3>5. (AnsweredSteps \ {n}) \union {n} = AnsweredSteps
      BY <3>1
    <3> QED
      BY <3>2, <3>4, <3>5 DEF AccountingInv, AccountingMatchesSteps
  <2> QED
    BY <1>7, <2>1, <2>2
<1>9. 1..(n + 1) - 1 \subseteq AnsweredSteps
  <2>1. n # 0 => n \in AnsweredSteps
    BY <1>2, <1>7 DEF AccountingInv, ReservesAfterResult, HasStep, Last, AnsweredSteps
  <2>2. 1..n - 1 \subseteq AnsweredSteps
    BY DEF AccountingInv, AccountingMatchesSteps
  <2>3. \A i \in 1..(n + 1) - 1 : i \in 1..n - 1 \/ (i = n /\ n # 0)
    BY <1>2
  <2> QED
    BY <2>1, <2>2, <2>3
<1>10. \E total \in [0..n + 1 -> 0..turn'.tokens] : RunningTotals(total)' /\ total[n + 1] = turn'.tokens
  <2>1. PICK total \in [0..n -> 0..turn.tokens] : RunningTotals(total) /\ total[n] = turn.tokens
    BY DEF AccountingInv, AccountingMatchesSteps
  <2>2. PICK new : new = [i \in 0..n + 1 |-> IF i = n + 1 THEN turn'.tokens ELSE total[i]]
    OBVIOUS
  <2>3. /\ new[n + 1] = turn'.tokens /\ \A i \in 0..n : new[i] = total[i]
        /\ DOMAIN new = 0..n + 1
    BY <1>2, <2>2
  <2>4. new \in [0..n + 1 -> 0..turn'.tokens]
    <3>1. turn'.tokens \in Nat /\ turn.tokens <= turn'.tokens
      BY <1>1, <1>2
    <3>2. ASSUME NEW i \in 0..n + 1 PROVE new[i] \in 0..turn'.tokens
      <4>1. CASE i = n + 1
        BY <2>3, <3>1, <4>1
      <4>2. CASE i \in 0..n
        <5>1. total[i] \in 0..turn.tokens
          BY <4>2
        <5> QED
          BY <2>3, <3>1, <4>2, <5>1, <1>2
      <4> QED
        BY <4>1, <4>2, <1>2
    <3> QED
      BY <2>2, <3>2
  <2>5. RunningTotals(new)'
    <3>1. new[0] = 0
      BY <1>2, <2>1, <2>3 DEF RunningTotals
    <3>2. ASSUME NEW i \in 1..n + 1 PROVE new[i] = new[i - 1] + turn'.steps[i].tokens
      <4>1. CASE i \in 1..n
        <5>1. total[i] = total[i - 1] + turn.steps[i].tokens
          BY <1>2, <2>1, <4>1 DEF RunningTotals
        <5>2. i \in 0..n /\ i - 1 \in 0..n /\ turn'.steps[i] = turn.steps[i]
          BY <1>2, <4>1
        <5> QED
          BY <2>3, <5>1, <5>2
      <4>2. CASE i = n + 1
        BY <1>1, <1>2, <1>3, <2>1, <2>3, <4>2
      <4> QED
        BY <4>1, <4>2, <1>2
    <3> QED
      BY <1>2, <3>1, <3>2 DEF RunningTotals
  <2> QED
    BY <2>3, <2>4, <2>5
<1>11. turn'.calls = n + 1 /\ turn'.tools = Cardinality(SelectedSteps)
  BY <1>1 DEF AccountingInv, AccountingMatchesSteps
<1>12. AccountingMatchesSteps'
  BY <1>2, <1>4, <1>6, <1>8, <1>9, <1>10, <1>11 DEF AccountingMatchesSteps
<1>13. ReservesAfterResult'
  BY <1>1 DEF ReservesAfterResult
<1> QED
  BY <1>12, <1>13 DEF AccountingInv

(* An event that changes no reservation leaves the totals.                  *)
LEMMA SameReservations ==
    ASSUME TypeOK, AccountingMatchesSteps, UNCHANGED turn.tokens,
           DOMAIN turn'.steps = DOMAIN turn.steps, Len(turn'.steps) = Len(turn.steps),
           \A i \in DOMAIN turn.steps : turn'.steps[i].tokens = turn.steps[i].tokens
    PROVE  \E total \in [0..Len(turn'.steps) -> 0..turn'.tokens] :
              RunningTotals(total)' /\ total[Len(turn'.steps)] = turn'.tokens
<1>1. PICK total \in [0..Len(turn.steps) -> 0..turn.tokens] :
         RunningTotals(total) /\ total[Len(turn.steps)] = turn.tokens
  BY DEF AccountingMatchesSteps
<1>2. RunningTotals(total)'
  BY <1>1 DEF RunningTotals
<1> QED
  BY <1>1, <1>2

LEMMA SelectKeepsAccount ==
    ASSUME TypeOK, RecordInv, AccountingInv, SelectTool PROVE AccountingInv'
<1> DEFINE n == Len(turn.steps)
<1>1. PICK s : /\ CanSelectTool(turn, s) /\ HasStep(turn)
               /\ turn.state = "model_reserved" /\ turn'.state = "tool_pending"
               /\ turn'.steps = [turn.steps EXCEPT ![n] =
                    [@ EXCEPT !.phase = "tool_pending", !.proposal = s.proposal]]
               /\ turn'.tools = turn.tools + 1
               /\ UNCHANGED <<turn.calls, turn.tokens, turn.cycles>>
  BY SelectEffect
<1>2. /\ DOMAIN turn'.steps = DOMAIN turn.steps /\ Len(turn'.steps) = n
      /\ n \in DOMAIN turn.steps /\ n \in Nat
      /\ \A i \in DOMAIN turn.steps : turn.steps[i] \in StepType
      /\ \A i \in DOMAIN turn.steps \ {n} : turn'.steps[i] = turn.steps[i]
      /\ turn'.steps[n] =
           [turn.steps[n] EXCEPT !.phase = "tool_pending", !.proposal = s.proposal]
  BY <1>1, LastTyped
<1>3. turn.steps[n].proposal = None /\ s.proposal # None
  BY <1>1, <1>2 DEF CanSelectTool, InPhase, Last, RecordInv, StepsFillInOrder
<1>4. /\ turn'.steps[n].proposal = s.proposal /\ turn'.steps[n].result = turn.steps[n].result
      /\ turn'.steps[n].tokens = turn.steps[n].tokens
  BY <1>2 DEF StepType
<1>5. AnsweredSteps' = AnsweredSteps
  BY <1>2, <1>4 DEF AnsweredSteps
<1>6. n \notin SelectedSteps /\ SelectedSteps' = SelectedSteps \union {n}
  <2>1. n \notin SelectedSteps
    BY <1>3 DEF SelectedSteps
  <2>2. \A i \in DOMAIN turn.steps :
            turn'.steps[i].proposal # None <=> (turn.steps[i].proposal # None \/ i = n)
    BY <1>2, <1>3, <1>4
  <2>3. SelectedSteps' = {i \in DOMAIN turn.steps : turn'.steps[i].proposal # None}
    BY <1>2 DEF SelectedSteps
  <2>4. SelectedSteps' = {i \in DOMAIN turn.steps : turn.steps[i].proposal # None} \union {n}
    <3>1. n \in DOMAIN turn.steps
      BY <1>2
    <3> QED
      BY ONLY <2>2, <2>3, <3>1
  <2> QED
    BY <2>1, <2>4 DEF SelectedSteps
<1>7. turn'.tools = Cardinality(SelectedSteps')
  BY <1>1, <1>6, StepSetsFinite, CountsOneMore DEF AccountingInv, AccountingMatchesSteps
<1>8. \A i \in DOMAIN turn.steps : turn'.steps[i].tokens = turn.steps[i].tokens
  BY <1>2, <1>4
<1>9. AccountingMatchesSteps'
  BY <1>1, <1>2, <1>5, <1>7, <1>8, SameReservations DEF AccountingInv, AccountingMatchesSteps
<1> QED
  BY <1>1, <1>9 DEF AccountingInv, ReservesAfterResult

LEMMA ResultKeepsAccount ==
    ASSUME TypeOK, RecordInv, AccountingInv, RecordToolResult PROVE AccountingInv'
<1> DEFINE n == Len(turn.steps)
<1>1. PICK t : /\ CanRecordToolResult(turn, t) /\ t.authority \in Nat /\ HasStep(turn)
               /\ turn'.state = "result_ready"
               /\ turn'.steps = [turn.steps EXCEPT ![n] =
                    [@ EXCEPT !.phase = "result_ready", !.result = t.authority,
                              !.payload = t.payload]]
               /\ UNCHANGED <<turn.calls, turn.tokens, turn.tools, turn.cycles>>
  BY ResultEffect
<1>2. /\ DOMAIN turn'.steps = DOMAIN turn.steps /\ Len(turn'.steps) = n
      /\ n \in DOMAIN turn.steps /\ n \in Nat /\ DOMAIN turn.steps = 1..n
      /\ \A i \in DOMAIN turn.steps : turn.steps[i] \in StepType
      /\ \A i \in DOMAIN turn.steps \ {n} : turn'.steps[i] = turn.steps[i]
      /\ turn'.steps[n] =
           [turn.steps[n] EXCEPT !.phase = "result_ready", !.result = t.authority,
                                 !.payload = t.payload]
  BY <1>1, LastTyped, StepSetsFinite
<1>3. /\ turn'.steps[n].proposal = turn.steps[n].proposal
      /\ turn'.steps[n].result = t.authority /\ t.authority # None
      /\ turn'.steps[n].tokens = turn.steps[n].tokens
  BY <1>1, <1>2, IdentityAssumption DEF StepType
<1>4. SelectedSteps' = SelectedSteps
  BY <1>2, <1>3 DEF SelectedSteps
<1>5. AnsweredSteps' = AnsweredSteps \union {n}
  BY <1>2, <1>3 DEF AnsweredSteps
<1>6. AnsweredSteps' \ {n} = AnsweredSteps \ {n}
  BY <1>5
<1>7. \A i \in DOMAIN turn.steps : turn'.steps[i].tokens = turn.steps[i].tokens
  BY <1>2, <1>3
<1>8. AccountingMatchesSteps'
  BY <1>1, <1>2, <1>4, <1>5, <1>6, <1>7, SameReservations DEF AccountingInv, AccountingMatchesSteps
<1>9. ReservesAfterResult'
  <2>1. HasStep(turn)' /\ Last(turn)'.result # None
    BY <1>2, <1>3 DEF HasStep, Last
  <2> QED
    BY <1>1, <2>1 DEF ReservesAfterResult
<1> QED
  BY <1>8, <1>9 DEF AccountingInv

LEMMA AccountingInductive == TypeOK /\ RecordInv /\ AccountingInv /\ [Next]_turn => AccountingInv'
<1> SUFFICES ASSUME TypeOK, RecordInv, AccountingInv, [Next]_turn PROVE AccountingInv'
  OBVIOUS
<1>1. CASE RejectModel \/ ClaimRetry \/ RecordOutput \/ MarkUnavailable \/ Cancel
  <2>1. /\ UNCHANGED <<turn.steps, turn.calls, turn.tokens, turn.tools, turn.cycles>>
        /\ turn'.state \notin {"open", "result_ready"}
    BY <1>1, RejectEffect, ClaimEffect, ExitEffect
  <2>2. SelectedSteps' = SelectedSteps /\ AnsweredSteps' = AnsweredSteps
    BY <2>1 DEF SelectedSteps, AnsweredSteps
  <2>3. AccountingMatchesSteps'
    BY <2>1, <2>2, SameReservations DEF AccountingInv, AccountingMatchesSteps
  <2> QED
    BY <2>1, <2>3 DEF AccountingInv, ReservesAfterResult
<1>2. CASE UNCHANGED turn
  BY <1>2 DEF AccountingInv, AccountingMatchesSteps, ReservesAfterResult, RunningTotals,
     SelectedSteps, AnsweredSteps, HasStep, Last
<1> QED
  BY <1>1, <1>2, ReserveKeepsAccount, SelectKeepsAccount, ResultKeepsAccount DEF Next

(* In a turn of any length the four counters are those of its steps: the    *)
(* allowance that FitsAllowance compares is what the requests reserved, the *)
(* tools they selected and the results that were fed back, each once.       *)
THEOREM AccountingExact == Spec => []AccountingMatchesSteps
<1>1. Init => AccountingInv
  <2> SUFFICES ASSUME Init PROVE AccountingInv
    OBVIOUS
  <2>1. /\ turn.steps = <<>> /\ turn.calls = 0 /\ turn.tokens = 0 /\ turn.tools = 0
        /\ turn.cycles = 0 /\ turn.state = "open"
    BY DEF Init, InitialProtocol
  <2>2. SelectedSteps = {} /\ AnsweredSteps \ {0} = {} /\ Cardinality({}) = 0
    BY <2>1, FS_EmptySet DEF SelectedSteps, AnsweredSteps
  <2>3. \E total \in [0..0 -> 0..0] : RunningTotals(total) /\ total[0] = 0
    <3>1. PICK total : total = [i \in 0..0 |-> 0]
      OBVIOUS
    <3>2. total \in [0..0 -> 0..0] /\ total[0] = 0
      BY <3>1
    <3>3. RunningTotals(total)
      BY <2>1, <3>2 DEF RunningTotals
    <3> QED
      BY <3>2, <3>3
  <2>4. AccountingMatchesSteps
    <3>1. Len(turn.steps) = 0 /\ 1..0 - 1 = {}
      BY <2>1
    <3> QED
      BY <2>1, <2>2, <2>3, <3>1 DEF AccountingMatchesSteps
  <2> QED
    BY <2>1, <2>4 DEF AccountingInv, ReservesAfterResult
<1>2. AccountingInv => AccountingMatchesSteps
  BY DEF AccountingInv
<1> QED
  BY <1>1, <1>2, AccountingInductive, TypeCorrect, AlwaysRecordInv, PTL DEF Spec
=============================================================================
