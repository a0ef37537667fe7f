----------------------------- MODULE TurnProtocol -----------------------------
(***************************************************************************)
(* The pure reducer of one conversation-computer turn.  The KurrentDB turn *)
(* stream is a sequence of events; the state the server acts on is the     *)
(* fold of this reducer over it.  Each event has a guard, CanX(p, x), the  *)
(* condition under which the reducer does not throw in projection p, and a *)
(* result, AfterX(p, x), the projection it returns.                        *)
(*                                                                         *)
(* Abstracted: the syntax of identifiers, digests and references; the      *)
(* digest of a history is the set of exchanges it covers; a request body   *)
(* and the key it was sent with are one value, its credential.             *)
(***************************************************************************)
EXTENDS Integers, Sequences

CONSTANTS
    None,                 \* JavaScript null
    MaxModelTurns,        \* the run's frozen allowance: model requests,
    MaxCompletionTokens,  \*   completion tokens over all requests,
    MaxToolInvocations,   \*   tools the model may select,
    MaxLoopIterations,    \*   tool results fed back to the model,
    WallClockDeadline,    \*   and the instant at which the run ends
    MaxRetries            \* physical retries of one reserved request

(* What _AssertBudget requires of every allowance. *)
ASSUME BudgetAssumption ==
    /\ MaxModelTurns \in Nat \ {0}
    /\ MaxCompletionTokens \in Nat \ {0}
    /\ MaxToolInvocations \in Nat
    /\ MaxLoopIterations \in Nat \ {0}
    /\ WallClockDeadline \in Nat \ {0}
    /\ MaxRetries \in Nat

Lesser(a, b) == IF a < b THEN a ELSE b

(* The State x Event registry: what each state accepts. *)
Accepts == [
    open                 |-> {"reserve", "unavailable", "cancel"},
    model_reserved       |-> {"reject", "select", "output", "unavailable", "cancel"},
    model_retry_waiting  |-> {"claim", "unavailable", "cancel"},
    tool_pending         |-> {"result", "unavailable", "cancel"},
    result_ready         |-> {"reserve", "unavailable", "cancel"},
    response_unavailable |-> {"cancel"},
    output_recorded      |-> {},
    cancelled            |-> {} ]

States == DOMAIN Accepts

InitialProtocol == [
    state |-> "open", revision |-> 0, steps |-> <<>>,
    calls |-> 0, tokens |-> 0, tools |-> 0, cycles |-> 0,
    rejections |-> <<>>, claim |-> None,
    output |-> None, unavailable |-> None, cancellation |-> None ]

Last(p) == p.steps[Len(p.steps)]
HasStep(p) == p.steps # <<>>
InPhase(p, phase) == HasStep(p) /\ Last(p).phase = phase

(* Every private tool exchange that the saved results stand for. *)
HistoryDigest(steps) ==
    {<<i, steps[i].proposal>> : i \in {j \in DOMAIN steps : steps[j].result # None}}

(* Mutant: a tool result does not narrow the authority. *)
RequestAuthority(p) == IF ~HasStep(p) THEN WallClockDeadline ELSE Last(p).authority

(* The authority a further request may not outlive. *)
LatestAuthority(p) ==
    IF ~HasStep(p) THEN WallClockDeadline
    ELSE IF Last(p).result = None THEN Last(p).authority
    ELSE Lesser(Last(p).authority, Last(p).result)

-----------------------------------------------------------------------------
(* Reserving one paid model request. *)

CyclesFed(p) == p.cycles + (IF p.state = "result_ready" THEN 1 ELSE 0)

(* Mutant: a request that may select a tool may spend the last token. *)
KeepsNoFinalModelAllowance(p, r) ==
    /\ p.calls + 1 < MaxModelTurns
    /\ p.tokens + r.tokens <= MaxCompletionTokens
    /\ p.tools < MaxToolInvocations
    /\ CyclesFed(p) < MaxLoopIterations

(* A request that may select a tool leaves a text request affordable. *)
KeepsFinalModelAllowance(p, r) ==
    /\ p.calls + 1 < MaxModelTurns
    /\ p.tokens + r.tokens < MaxCompletionTokens
    /\ p.tools < MaxToolInvocations
    /\ CyclesFed(p) < MaxLoopIterations

(* Mutant: the tokens of the new request are not counted yet. *)
FitsSpentAllowance(p, r) ==
    /\ p.calls + 1 <= MaxModelTurns
    /\ p.tokens <= MaxCompletionTokens
    /\ CyclesFed(p) <= MaxLoopIterations

FitsAllowance(p, r) ==
    /\ p.calls + 1 <= MaxModelTurns
    /\ p.tokens + r.tokens <= MaxCompletionTokens
    /\ CyclesFed(p) <= MaxLoopIterations

CanReserveModel(p, r) ==
    /\ "reserve" \in Accepts[p.state]
    /\ r.ordinal = Len(p.steps) + 1
    /\ r.tokens > 0 /\ r.deadline > 0
    /\ r.deadline <= r.authority
    /\ r.authority <= WallClockDeadline /\ r.authority <= LatestAuthority(p)
    /\ \A i \in DOMAIN p.steps : p.steps[i].fence # r.fence
    /\ r.history = HistoryDigest(p.steps)
    /\ FitsAllowance(p, r)
    /\ r.select => KeepsFinalModelAllowance(p, r)

ReservedStep(r) == [
    fence |-> r.fence, select |-> r.select, tokens |-> r.tokens,
    authority |-> r.authority, deadline |-> r.deadline,
    phase |-> "model_reserved", proposal |-> None, result |-> None, payload |-> None ]

AfterReserveModel(p, r) == [p EXCEPT
    !.state = "model_reserved", !.revision = @ + 1,
    !.steps = Append(@, ReservedStep(r)),
    !.calls = @ + 1, !.tokens = @ + r.tokens, !.cycles = CyclesFed(p),
    !.rejections = <<>>, !.claim = None ]

-----------------------------------------------------------------------------
(* Physical rejections of the reserved request and claims to send it again. *)

(* The nonce of the first physical request is derived from the reservation. *)
InitialNonce(fence) == <<fence, 0>>

CanRejectModel(p, x) ==
    /\ "reject" \in Accepts[p.state]
    /\ InPhase(p, "model_reserved") /\ x.fence = Last(p).fence
    /\ x.receivedAt < Last(p).deadline /\ x.retryAt < Last(p).deadline
    /\ x.credential >= Last(p).deadline
    /\ IF p.rejections = <<>>
       THEN x.nonce = InitialNonce(x.fence)
       ELSE /\ Len(p.rejections) <= MaxRetries
            /\ p.claim # None
            /\ p.claim.retryOrdinal = Len(p.rejections)
            /\ x.nonce = p.claim.nonce
            /\ x.receivedAt >= p.claim.claimedAt /\ x.retryAt >= p.claim.claimedAt
            /\ x.credential = p.rejections[1].credential

AfterRejectModel(p, x) == [p EXCEPT
    !.state = "model_retry_waiting", !.revision = @ + 1,
    !.rejections = Append(@, x) ]

(* Mutant: only the nonce of the first physical request counts as used. *)
UnlikeFirst(p, nonce) == p.rejections[1].nonce # nonce

(* The nonce of a further physical request is new to this request. *)
FreshNonce(p, nonce) == \A i \in DOMAIN p.rejections : p.rejections[i].nonce # nonce

CanClaimRetry(p, c) ==
    /\ "claim" \in Accepts[p.state]
    /\ InPhase(p, "model_reserved") /\ c.fence = Last(p).fence
    /\ p.rejections # <<>>
    /\ c.retryOrdinal = Len(p.rejections) /\ c.retryOrdinal <= MaxRetries
    /\ c.retryOrdinal - 1 = (IF p.claim = None THEN 0 ELSE p.claim.retryOrdinal)
    /\ FreshNonce(p, c.nonce)
    /\ LET latest == p.rejections[Len(p.rejections)]
       IN  /\ c.claimedAt >= latest.receivedAt /\ c.claimedAt >= latest.retryAt
           /\ c.claimedAt < Last(p).deadline /\ c.claimedAt < latest.credential

AfterClaimRetry(p, c) == [p EXCEPT
    !.state = "model_reserved", !.revision = @ + 1, !.claim = c ]

(* The nonce of the physical request that is allowed to run now. *)
CurrentNonce(p) == IF p.claim = None THEN InitialNonce(Last(p).fence) ELSE p.claim.nonce

-----------------------------------------------------------------------------
(* One tool selected by the reserved request, and its result. *)

CanSelectTool(p, s) ==
    /\ "select" \in Accepts[p.state]
    /\ InPhase(p, "model_reserved") /\ Last(p).select
    /\ s.ordinal = Len(p.steps) /\ s.fence = Last(p).fence
    /\ \A i \in DOMAIN p.steps : p.steps[i].proposal # s.proposal
    /\ p.tools < MaxToolInvocations
    /\ p.calls < MaxModelTurns
    /\ p.tokens < MaxCompletionTokens
    /\ p.cycles < MaxLoopIterations

AfterSelectTool(p, s) == [p EXCEPT
    !.state = "tool_pending", !.revision = @ + 1, !.tools = @ + 1,
    !.steps[Len(p.steps)] = [@ EXCEPT !.phase = "tool_pending", !.proposal = s.proposal] ]

CanRecordToolResult(p, t) ==
    /\ "result" \in Accepts[p.state]
    /\ InPhase(p, "tool_pending")
    /\ t.ordinal = Len(p.steps) /\ t.proposal = Last(p).proposal
    /\ t.authority > 0 /\ t.authority <= Last(p).authority
    /\ \A i \in DOMAIN p.steps : p.steps[i].payload # t.payload

AfterRecordToolResult(p, t) == [p EXCEPT
    !.state = "result_ready", !.revision = @ + 1,
    !.steps[Len(p.steps)] = [@ EXCEPT !.phase = "result_ready", !.result = t.authority,
                                          !.payload = t.payload] ]

-----------------------------------------------------------------------------
(* The three ways a turn stops accepting work. *)

CanRecordOutput(p, o) ==
    /\ "output" \in Accepts[p.state]
    /\ InPhase(p, "model_reserved")
    /\ o.ordinal = Len(p.steps) /\ o.fence = Last(p).fence

(* Mutant: the output is filed under its ordinal. *)
AfterRecordOutputByOrdinal(p, o) == [p EXCEPT
    !.state = "output_recorded", !.revision = @ + 1, !.output = o.ordinal ]

AfterRecordOutput(p, o) == [p EXCEPT
    !.state = "output_recorded", !.revision = @ + 1, !.output = o.fence ]

(* The receipt is tied to the current step; ordinal 0 stands for null. *)
CanMarkUnavailable(p, u) ==
    /\ "unavailable" \in Accepts[p.state]
    /\ u.ordinal = Len(p.steps)
    /\ u.reason = "model" => InPhase(p, "model_reserved") /\ u.source = Last(p).fence
    /\ u.reason = "tool" => InPhase(p, "tool_pending") /\ u.source = Last(p).proposal
    /\ u.reason = "allowance" => p.state \in {"open", "result_ready"}

AfterMarkUnavailable(p, u) == [p EXCEPT
    !.state = "response_unavailable", !.revision = @ + 1, !.unavailable = u.reason ]

(* Mutants: Stop ignores a saved output, and withdraws unavailability. *)
CanAlwaysCancel(p) == p.cancellation = None

AfterCancelAll(p, command) == [p EXCEPT
    !.state = "cancelled", !.revision = @ + 1, !.cancellation = command, !.unavailable = None ]

CanCancel(p) == "cancel" \in Accepts[p.state]

AfterCancel(p, command) == [p EXCEPT
    !.state = "cancelled", !.revision = @ + 1, !.cancellation = command ]
=============================================================================
