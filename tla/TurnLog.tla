-------------------------------- MODULE TurnLog --------------------------------
(***************************************************************************)
(* What the stream of one turn promises: its projection starts empty and   *)
(* changes only by an event the reducer accepts, whoever appends it and    *)
(* whatever it carries.  This is the abstract specification of a turn; the *)
(* workers, crashes and races of ConversationTurn implement it.            *)
(***************************************************************************)
EXTENDS TurnProtocol, FiniteSets

CONSTANTS
    Fences,      \* identities a reservation may be given
    Nonces,      \* identities a retry claim may be given
    Proposals,   \* tool proposals a request may declare
    Payloads,    \* references a tool result's payload may be kept under
    Commands     \* Stop commands and worker inputs

VARIABLE turn    \* the projection folded from the stream

Instants == 0..WallClockDeadline + 1
Tokens == 0..MaxCompletionTokens + 1
Ordinals == 0..MaxModelTurns + 1

Init == turn = InitialProtocol

Accepted(event) == event \in Accepts[turn.state]

ReserveModel ==
    Accepted("reserve") /\ \E fence \in Fences, select \in BOOLEAN, tokens \in Tokens,
       authority, deadline \in Instants :
        LET r == [ordinal |-> Len(turn.steps) + 1, fence |-> fence, select |-> select,
                  tokens |-> tokens, authority |-> authority, deadline |-> deadline,
                  history |-> HistoryDigest(turn.steps)]
        IN  CanReserveModel(turn, r) /\ turn' = AfterReserveModel(turn, r)

RejectModel ==
    Accepted("reject") /\ \E fence \in Fences, receivedAt, retryAt, credential \in Instants :
        \E nonce \in Nonces \union {InitialNonce(fence)} :
            LET x == [fence |-> fence, nonce |-> nonce, receivedAt |-> receivedAt,
                      retryAt |-> retryAt, credential |-> credential]
            IN  CanRejectModel(turn, x) /\ turn' = AfterRejectModel(turn, x)

ClaimRetry ==
    Accepted("claim") /\ \E fence \in Fences, nonce \in Nonces, retryOrdinal \in 1..MaxRetries + 1,
       claimedAt \in Instants :
        LET c == [fence |-> fence, retryOrdinal |-> retryOrdinal, nonce |-> nonce,
                  claimedAt |-> claimedAt]
        IN  CanClaimRetry(turn, c) /\ turn' = AfterClaimRetry(turn, c)

SelectTool ==
    Accepted("select") /\ \E ordinal \in Ordinals, fence \in Fences, proposal \in Proposals :
        LET s == [ordinal |-> ordinal, fence |-> fence, proposal |-> proposal]
        IN  CanSelectTool(turn, s) /\ turn' = AfterSelectTool(turn, s)

RecordToolResult ==
    Accepted("result") /\ \E ordinal \in Ordinals, proposal \in Proposals, authority \in Instants,
       payload \in Payloads :
        LET t == [ordinal |-> ordinal, proposal |-> proposal, authority |-> authority,
                  payload |-> payload]
        IN  CanRecordToolResult(turn, t) /\ turn' = AfterRecordToolResult(turn, t)

RecordOutput ==
    Accepted("output") /\ \E ordinal \in Ordinals, fence \in Fences :
        LET o == [ordinal |-> ordinal, fence |-> fence]
        IN  CanRecordOutput(turn, o) /\ turn' = AfterRecordOutput(turn, o)

MarkUnavailable ==
    Accepted("unavailable") /\ \E ordinal \in Ordinals, source \in Fences \union Proposals \union Commands,
       reason \in {"model", "tool", "allowance"} :
        LET u == [ordinal |-> ordinal, source |-> source, reason |-> reason]
        IN  CanMarkUnavailable(turn, u) /\ turn' = AfterMarkUnavailable(turn, u)

Cancel ==
    \E command \in Commands : CanCancel(turn) /\ turn' = AfterCancel(turn, command)

Next ==
    \/ ReserveModel \/ RejectModel \/ ClaimRetry
    \/ SelectTool \/ RecordToolResult
    \/ RecordOutput \/ MarkUnavailable \/ Cancel

Spec == Init /\ [][Next]_turn

-----------------------------------------------------------------------------
StepType == [
    fence : Fences, select : BOOLEAN, tokens : Nat \ {0}, authority : Nat, deadline : Nat,
    phase : {"model_reserved", "tool_pending", "result_ready"},
    proposal : Proposals \union {None}, result : Nat \union {None},
    payload : Payloads \union {None} ]

RejectionType == [
    fence : Fences, nonce : Nonces \union {InitialNonce(f) : f \in Fences},
    receivedAt : Nat, retryAt : Nat, credential : Nat ]

ClaimType == [fence : Fences, retryOrdinal : Nat, nonce : Nonces, claimedAt : Nat]

(* No identity, instant, reason or claim is mistaken for null. *)
ASSUME IdentityAssumption ==
    /\ None \notin Nat /\ None \notin Fences \union Payloads \union Commands \union {"model", "tool", "allowance"}
    /\ None \notin ClaimType

(* The projection has the shape the store decodes and every consumer reads. *)
TypeOK == turn \in [
    state : States, revision : Nat, steps : Seq(StepType),
    calls : Nat, tokens : Nat, tools : Nat, cycles : Nat,
    rejections : Seq(RejectionType), claim : ClaimType \union {None},
    output : Fences \union {None},
    unavailable : {"model", "tool", "allowance", None},
    cancellation : Commands \union {None} ]

(* No sequence of accepted events takes a turn over an allowance of its run:*)
(* model calls, completion tokens, selected tools, results fed back, and   *)
(* physical sends of one request (conversation-computer-turn-protocol.ts).  *)
AllowanceNeverExceeded ==
    /\ turn.calls <= MaxModelTurns
    /\ turn.tokens <= MaxCompletionTokens
    /\ turn.tools <= MaxToolInvocations
    /\ turn.cycles <= MaxLoopIterations
    /\ Len(turn.rejections) <= MaxRetries + 1

(* A request that was offered tools leaves room for the tool it may select *)
(* and, until the next request, for the text request that must follow it:  *)
(* a turn never pays for a tool whose result it cannot afford to use.       *)
ToolOfferKeepsFinalAnswer ==
    (HasStep(turn) /\ Last(turn).select) =>
        /\ turn.calls < MaxModelTurns
        /\ turn.tokens < MaxCompletionTokens
        /\ turn.cycles < MaxLoopIterations
        /\ Last(turn).phase = "model_reserved" => turn.tools < MaxToolInvocations

(* Model-visible authority only narrows over a turn: no later request may   *)
(* outlive an earlier request, an earlier tool result or the run itself.    *)
AuthorityNarrows ==
    \A i \in DOMAIN turn.steps :
        /\ turn.steps[i].deadline <= turn.steps[i].authority
        /\ turn.steps[i].authority <= WallClockDeadline
        /\ turn.steps[i].result # None => turn.steps[i].result <= turn.steps[i].authority
        /\ \A j \in i + 1..Len(turn.steps) :
            /\ turn.steps[j].authority <= turn.steps[i].authority
            /\ turn.steps[i].result # None => turn.steps[j].authority <= turn.steps[i].result

SelectedSteps == {i \in DOMAIN turn.steps : turn.steps[i].proposal # None}
AnsweredSteps == {i \in DOMAIN turn.steps : turn.steps[i].result # None}

(* total[i] is what the first i requests have reserved.                     *)
RunningTotals(total) ==
    total[0] = 0 /\ \A i \in DOMAIN turn.steps : total[i] = total[i - 1] + turn.steps[i].tokens

(* The counters are the steps': a request, its tokens, its tool and the     *)
(* result fed to its successor are counted once each, through retries,      *)
(* unavailability and Stop, and a request follows only a recorded result.   *)
AccountingMatchesSteps ==
    LET n == Len(turn.steps) IN
    /\ turn.calls = n
    /\ \E total \in [0..n -> 0..turn.tokens] : RunningTotals(total) /\ total[n] = turn.tokens
    /\ turn.tools = Cardinality(SelectedSteps)
    /\ turn.cycles = Cardinality(AnsweredSteps \ {n})
    /\ 1..n - 1 \subseteq AnsweredSteps

(* A request is rejected at most once per send, no send reuses the nonce of *)
(* a rejected one, and every send happens before its dispatch deadline.     *)
SendsAreDistinct ==
    LET Rejected == {turn.rejections[i].nonce : i \in DOMAIN turn.rejections}
    IN  /\ Cardinality(Rejected) = Len(turn.rejections)
        /\ (turn.state = "model_reserved" /\ turn.rejections # <<>>)
              => /\ CurrentNonce(turn) \notin Rejected
                 /\ turn.claim.claimedAt < Last(turn).deadline

(* A turn has one winner: participant output excludes unavailability and    *)
(* Stop, and the receipt that is present is the one the state names.        *)
OneWinner ==
    /\ (turn.output # None) <=> (turn.state = "output_recorded")
    /\ (turn.cancellation # None) <=> (turn.state = "cancelled")
    /\ turn.output # None => (turn.unavailable = None /\ turn.output = Last(turn).fence)
    /\ turn.state = "response_unavailable" => turn.unavailable # None

(* No event rewrites history: a step keeps its reservation and, once made,  *)
(* its selection and result; allowance is never refunded; no receipt is     *)
(* replaced or withdrawn.                                                   *)
HistoryOnlyGrows ==
    [][ /\ turn'.revision = turn.revision + 1
        /\ Len(turn'.steps) >= Len(turn.steps)
        /\ \A i \in DOMAIN turn.steps :
             LET old == turn.steps[i]  new == turn'.steps[i] IN
             /\ new.fence = old.fence /\ new.select = old.select
             /\ new.tokens = old.tokens /\ new.deadline = old.deadline
             /\ old.proposal # None => new.proposal = old.proposal
             /\ old.result # None => new.result = old.result /\ new.payload = old.payload
        /\ turn'.calls >= turn.calls /\ turn'.tokens >= turn.tokens
        /\ turn'.tools >= turn.tools /\ turn'.cycles >= turn.cycles
        /\ turn.output # None => turn'.output = turn.output
        /\ turn.unavailable # None => turn'.unavailable = turn.unavailable
        /\ turn.cancellation # None => turn'.cancellation = turn.cancellation ]_turn
=============================================================================
