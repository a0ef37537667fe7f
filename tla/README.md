# A verification development of OpenCrane

OpenCrane is a self-hosted platform for personal and team agents. Its server keeps conversations in
KurrentDB streams and everything else in PostgreSQL, runs durable workflow tasks on the Absurd engine
and calls paid models, tools and sandboxes outside. This directory holds TLA+ specifications of
the part where most of these meet, the *conversation computer*: a leased computer that reads a
conversation, calls a model, uses tools and answers, while people go on writing, press Stop, and
processes crash. Paths below are relative to `src/libs/backend/server/conversations/main/src/computers/`
unless they start with `src/`.

## Inventory

### The modelled part and its state

| Component | State it keeps | Operations | Hard because |
|---|---|---|---|
| Turn protocol (`turns/conversation-computer-turn-protocol.ts`, `…-model-retry.ts`) | the projection of one turn stream: state, revision, steps, accounting, retries, receipts | `_Reduce…` over reserved, rejected, retry claimed, selected, result recorded, output, unavailable, cancelled | long sequences of legal events must stay within four allowances and a shrinking authority |
| Turn store (`turns/conversation-computer-turn-store.ts`, `…-model-retry-store.ts`) | the turn streams; one *active-turn* pointer stream per lease | createOrRead, one operation per event, markOutput, settle, cancellation appends | every operation is load, conditional append, readback; acknowledgements get lost |
| Turn authority and model flow (`turns/conversation-computer-turn-authority.ts`, `…-model-flow.ts`) | none of its own | start, advance, appendOutput, `_FinishOutput` | dozens of awaits between what is read and what is done |
| Turn workflow (`turns/workflow/…-turn-workflow.ts`) | the task's checkpoints | run | a task whose claim expired runs twice at once |
| Candidate resolution (`turns/…-candidate-resolver.ts`, `turns/db/…-unit-of-work.ts`) | none | resolveForWorkflow, compile | the conversation and the clock move under it |
| Stop (`interruptions/`) | the Stop task, the run's cancellation row | select, admit, publish, record, clean up, finalize | must agree with the answer it races |
| Run lifecycle (`src/libs/backend/agents/execution/runs/main/src/`) | `AgentRun.state` | start, enterRecoveryRequired, complete, admit/record/finalize cancellation | lives in another store than the turn |
| Tool proposal, dispatch and results (`tools/`; invocations and approvals in `src/libs/backend/server/iam/authorization/main/src/`; elicitations in `src/libs/backend/agents/execution/elicitation/main/src/`; the remote executor in `src/libs/backend/server/gateways/mcp/main/src/runtime/`) | per selection one invocation, approval, executor command and result delivery, in one database | admit, open, answer or expire the approval, claim, call, complete, recover, exhaust, read, cancel | an effect outside the database between two transactions, repeated by an engine that cannot stop what it repeats |
| Model credentials (`turns/credentials/`) | one row per run attempt: state, fence, ciphertext | issueOnce, reuseExact, revoke | the key exists at the provider before it is saved, and a mint may land after its caller gave up |
| Computer leases (`activation/`, `lifecycle/`, `checkpoints/`; history in `src/libs/backend/server/conversations/computers/src/history/`; sandbox claims in `src/libs/backend/server/infra/agent-sandbox/src/`) | the computer's history stream, the active-lease row, the sandbox claim, the checkpoint | activate, renew, cool, checkpoint and release, record loss | three stores without a common transaction, workers in every replica |

They interact as follows. A human message starts a task. The task resolves a candidate, freezes a turn
(an append to a new stream), points the lease's pointer stream at it, and loops over `advance`. `advance`
loads the turn and does the next thing: reserve a paid request, send it, save its tool declaration, select
the tool, admit and await the invocation, record its result, reserve again, or append the answer. The answer
is one atomic append to the turn and to the participant conversation; afterwards the run is completed in
PostgreSQL and the pointer settled. Stop admits its cancellation against the run in PostgreSQL and then makes
one atomic append of its own to turn, pointer and conversation. Nothing but the expected revisions
of these appends and the fences of the SQL updates keeps the parties apart.

A tool call is admitted, approved and claimed in PostgreSQL, made outside of it and settled there again. A credential
is minted before a paid request and revoked by the answer and by Stop. Under all of this, a computer's lease is opened by
a message, renewed while turns use it, and released with a checkpoint or recorded as lost; turns and credentials exist only under the lease's row.

What makes each of these correct: the reducer keeps allowances and authority; a reserved request is paid
exactly once; a turn has one winner; the run never contradicts the turn; a stopped run is quiet; turns of a
lease are serial; a turn always ends and a saved answer is always finished; a call happens at most once and only as approved,
and its result is what happened; an attempt gets one key, which no end of the attempt forgets; leases follow one another, and none
should end under a turn that uses it (the code does not keep this: finding 4).

### The rest of the system

Every other component is listed in `PROJECT.json` with what speaks for or against modelling it. In short:

- *Protocols worth modelling, planned:* the workflow engine as a specification of its own and the guard; provider effect commands;
  personal memory operations; elicitations that are not approvals; skill validation and artifact preprocessing
  controllers and the governed Kubernetes jobs; run admission.
- *Mostly one transaction or pure I/O:* group children, sessions, groups and shares, personas,
  onboarding, knowledge sources, model routing, spend, login, memory gateway, observability.
- *Composition, views and generated code:* `src/apps`, the web interface, the contracts.

## Modules

```
TurnProtocol            the reducer: CanX(p, x), AfterX(p, x)
  ├─ TurnLog            any accepted event at any time: what a turn stream promises
  │    ├─ TurnLog_proofs
  │    └─ MCTurnLog
  └─ ConversationTurn   executions, Stop, tools, run, clock, faults; implements TurnLog
       ├─ ConversationTurn_proofs
       └─ MCConversationTurn
LeaseTurns              what a lease promises of its turns
ActiveTurn              which turn a lease works on: freeze, activate, settle; implements LeaseTurns
  ├─ ActiveTurn_proofs
  └─ MCActiveTurn
TurnCredential          the model key of one run attempt
  ├─ TurnCredential_proofs
  └─ MCTurnCredential
ToolCall                what the owner and the model are promised of one call
ToolDispatch            one remote tool call, from its proposal to its result or Stop; implements ToolCall
  ├─ ToolDispatch_proofs
  └─ MCToolDispatch
ComputerLease           the leases of one computer, over three stores
  ├─ ComputerLease_proofs
  └─ MCComputerLease
```

**TurnProtocol** translates the reducer. `Accepts` is the State × Event registry; `CanX` the condition
under which a handler does not throw, `AfterX` the projection it returns. Identifiers, digests and references
are opaque, and new where the handlers insist on it (fences, nonces, proposals, payload references); the digest of a history is the set of
exchanges it covers; a request body and the key it was sent
with are one value, its credential. The handlers' syntactic checks of digests and identifiers are left out.

**TurnLog** has one variable, the folded projection, and one action per event with arbitrary contents,
well-formed or not: only the reducer's guard decides. This is the abstract specification of a turn.

**ConversationTurn** has every await on shared state as a step. Its variables are the stores (`turn`, `settled`,
`head` of the conversation, `run`, `lease`, `declared` private tool declarations, `invocation`), the clock `now`,
what each execution holds between two awaits (`worker`), the Stop task (`stop`), and the number of physical
sends of each request, `paid`, which the code does not keep. A store operation is three steps: the operation's own load and guard
(`ReserveModel`, `SelectTool`, …), the conditional append (`AppendAcknowledged`, `AppendConflicts`,
`AppendFails`, where a failed append may have been stored), and `Readback`. The actions follow the
functions of the same name; `Caught`, `ResponseUnavailable`, `MarkResponseUnavailable`, `Winner` and `EnterRecoveryRequired` are the
tail of `advance`, and `AppendOutput`, `PrepareOutput`, `MarkOutput` the loop of `appendOutput`.
Executions that sleep or wait for an event return to `advance`, from where they wake at any time: the handlers
re-read the stream on waking, so the exact moment does not matter. Two `Workers` are two executions of the *same* task:
the engine claims a task again when its claim expires, and binding its receipt is idempotent. The engine's
cancellation of the original task has no effect the turn could observe after Stop's append, and is left out.
A new reservation carries a fresh UUID; here the pair of execution and ordinal, and for a retry's claim the retry as well.
A tool may need its owner's approval (`Gated`): its admission puts the run into `waiting_for_input`, `OwnerAnswers` approves, denies or comes too late,
and `AwaitAnswer` is the task's wait. A run that waits refuses every start, so an execution that starts over meanwhile (after a crash, an error
or the end of its wait) fails attempt after attempt; when none is left it is `spent` (`AttemptsSpent`). The rows behind an invocation, its claim and its
approval are ToolDispatch's subject; here an invocation is the row that the turn, the executor, the owner and Stop meet. `StopCleanup` closes what nobody holds, and
`StopFinalize` looks for claims once more.

**ActiveTurn** is the level above: one lease, its pointer stream, the conversation, and tasks of any
human entry. What happens inside a turn is reduced to `outcome`; the run is left out. A turn is named by the
position of its entry, for the bootstrap identifier is a digest of lease and entry. `frozen` keeps of a
frozen turn only what a clock or a writer can change: the head it was compiled at and its credential's life.
The history store may acknowledge a retried append by its event identifier without writing it (the adapter,
`src/libs/backend/server/infra/history-store/src/kurrent-history-store.ts:65`, passes identifier and expected revision and leaves the decision to KurrentDB);
both outcomes are allowed wherever the event is at the position the append expects.

**LeaseTurns** is its abstract specification: the turn being served, at most one, and what became of each. `Answer`, `GiveUp` and
`Stop` decide the turn being served; `Stop` lets go of it in the same step, `Release` only once it was answered. ActiveTurn implements it with
the last pointer event as the turn being served (`ServedTurns`). It does not promise that a turn is served once: the first finding is that the code does
not keep that.

**TurnCredential** is one row of `conversation_computer_attempt_credentials`, the keys the provider minted for its alias, and the
callers: executions in `issueOnce` or `reuseExact`, and the two revocations. `Prepare` claims the row; `Mint` is the provider call, `MintExpires` the
client giving up, `MintLate` the request that lands all the same; `StoreCustody`, `Finalize` and `Disclose` lead to the caller's key;
`MarkAliasCleanup` and `RevokeMinted` clean up after a custody that failed; `ClaimRevocation`, `RevokeCustody` and `FinishRevocation`
revoke by token or by alias. `Transact` lets every transaction commit, fail, or commit without telling. Two assumptions about the
world: the provider carries out a mint within the claim it was made under (`ProviderAssumption`: the delay of a mint, `ProviderDelay`, is at most
`ClaimWindow`; the client waits 10 of the claim's 30 seconds, and no code rules out a longer delay), and the
ciphertext decrypts to what was encrypted. A mint may be carried out at any time before that, whether its caller still waits or has crashed, given up or been overtaken.

**ToolDispatch** is what `AdmitTool`, `OwnerAnswers`, `ToolClaims` and `ToolSettles` of ConversationTurn leave open. `db` is the run, the invocation, its approval,
the executor's command and the deliveries, all in one PostgreSQL, so that a transaction is one step: `Admit`, `Respond`, `Claim`,
`Complete`, `Exhaust`, `Recover`, `StopCleanup`. `Call` is the provider call between `Claim` and `Complete`; `effects`
counts what the provider may have received and is kept by no code. `task` is the engine's row with its attempts: an
execution is stale once it has lost its claim, and goes on until its next checkpoint, where the heartbeat refuses it (`Owns`). After a
suspension the handler runs from its start in the same attempt (`Wake`, `Take`), after an error in the next (`NextAttempt`). A claim's expiry and the provider's
deadline inside it are `ClaimWindow` and `Allowance`; the executor's clock is the database's. The elicitation request is
written in every transaction with its approval and is not a variable. An owner's answer may be refused by the lease trigger on
`approval_requests`; nobody has to answer here, so a refusal is an answer not given. The turn itself is one word, `turn`.

**ToolCall** is its abstract specification: whether the call is allowed, whether it was made, what was told of it, and what the turn does with that. Permission
and result are final, the result is what happened, an unknown outcome is never told, and only a told result is used. ToolDispatch implements it with `Allowed`
(no approval needed, or approved), `effects > 0` and `Told` (the state of a settled invocation).

**ComputerLease** has one variable per store: `history` (the newest snapshot; older ones are never read), `fence` (the active-lease row),
`sandbox` (the claims). A worker's pass reads the history once and carries the snapshot, `view`, to its end; every other read or write is a step, except
that `Inspect` takes the claim and the turns' activity in one. `Append` has its three outcomes: at the revision that was
read, after the checks of `_ValidateSnapshotTransition` (`Follows`); taken for the replay of the same event; refused. Delivery of a request is
possible at any time, which covers redelivery and the queue's retries. A credential stands for everything `clearActiveLease` looks at. The sandbox
controller assigns a sandbox at some time and ends it at its shutdown time. The history's states `retired` and `recovery_required`, which
no code writes, are left out.

## Runs

| Run | Instance | Shows |
|---|---|---|
| `turn_log` | 3 requests, 3 tokens, 2 tools, 2 cycles, clock to 2, 2 retries, arbitrary event contents | the reducer's promises; every phase is reached with a step to spare and a value beyond each bound is tried |
| `turn_races` | 2 executions, 3 requests, 2 tokens, a tool that needs its owner, Stop, 1 retry, clock to 2, no faults | safety under every interleaving |
| `turn_faults` | 2 executions, 1 crash, failed or unacknowledged append, or lost lease, an open tool | safety and refinement of `TurnLog` under a fault beside a rival |
| `turn_recovery` | 1 execution, 2 faults (a crash, a lost lease, an append of its own or of Stop that fails or is not acknowledged), 1 retry, 1 other entry, a tool that needs its owner, fair | a fault during recovery from a fault: a saved answer is finished, an admitted Stop decided, and the turn ends |
| `active_turn` | 2 executions, 4 entries, 2 seconds of lease, 1 crash | turns of a lease are serial and correctly chosen; the lease implements LeaseTurns |
| `credential` | 2 executions, 1 revocation, 2 calls of issueOnce, 2 faults, 3 ticks of authority, fair | one key, always in custody while it lives, and a revocation that leaves none |
| `tool_dispatch` | 2 executions, 2 attempts, 1 fault, a claim of 2 ticks of which the last keeps the outcome, a turn of 4, fair | a call happens at most once and as approved, its result is true, and Stop finishes and ends it; the rows implement ToolCall |
| `computer_lease` | 1 consumer, 1 lifecycle worker, 2 generations, 3 ticks, 1 fault | leases are serial |
| `unavailable_reason`, `reactivation`, `refreeze`, `lost_in_use` | smallest that shows it | the findings below |

The ConversationTurn runs use two tokens and two or three model requests, one or two tools and cycles: two requests are the least with which a
turn selects a tool, feeds its result back and answers, and a third is one the tokens no longer pay for, so that either part of the allowance is exhausted on the way
(`ReservationIsAccepted` fails for a reservation that offers a tool for the last token). `turn_log` takes two retries, as the code
does: the claim of the second must be told from that of the first. Two
executions are the least that race, a third adds no new pair of steps. A dispatch window of one tick inside a deadline of
one or two lets each request expire before, at and after the run's deadline. `MaxHead` lets another writer
intervene once in an answer's or Stop's position. The liveness run has faults, another writer and Stop beside one execution, which starts over after a crash; a second execution beside
these exceeds a few minutes, so that progress between two executions that race is not checked. The features are spread over several runs because their product
is beyond a few minutes; each hazard is in a run together with the rival that makes it one. In `active_turn`
four entries are two messages, an answer and one more writer, enough for one task to
lag behind a whole served turn. In `credential` two calls are a mint and its retry, and three ticks of authority outlast two
claims. `tool_dispatch` has both kinds of tool, one attempt that may fail and one that is the last, and enough time for a claim to be
spent and over while the turn could still pay for another call, as well as on either side of the turn's deadline; the fault is a lost claim of the
engine or a lost acknowledgement, and an attempt that fails by itself needs none. `computer_lease`
has time for the first lease to cool, retire or be lost and for the next to open; the race is between one consumer and
one lifecycle worker, since two of a kind exceed a few minutes. The proofs hold for any number of both, and cover the replay of an append, which
takes two of a kind. Executions are interchangeable and so are opaque identities: the
safety runs use symmetry, the liveness runs do not.

Deadlock is not checked: a turn that is over, a lease that is over, a computer
waiting for a Stop nobody presses and a call waiting for an answer nobody gives are legitimate ends. That work does not stop early is what the liveness properties say.

**Fairness.** `WF` of each execution's steps, since the engine claims a task again until it ends; of the Stop task's
steps, for the same reason; of the tool executor's claim and settlement, since provider calls have deadlines; of the clock. None for crashes, failed
appends, other writers, the owner's answer or the press of Stop. The engine gives a task twelve attempts: `MaxFaults` stands
for the assumption that faults do not use them up; a run that waits for its owner does, and then the execution is spent. `TurnEnds` and `SavedAnswerIsFinished` except the loss of the lease, after
which the code deliberately does nothing, and `TurnEnds` a spent execution, after which nothing but a late answer and Stop can move the turn. In `credential` the revocations and the clock are fair, in `tool_dispatch` the Stop task and the clock: a
revocation and a Stop must finish whatever the executions do or fail to do.

## Findings

1. **`reactivation`** (`turns/conversation-computer-turn-store.ts:272`). `_Activate` looks at the last pointer event only. An
   execution that resolved its candidate before the turn was answered or stopped sees the settlement last and appends
   `Active` for the same turn behind it. `settle` then finds the first settlement and releases nothing, so the lease stays busy with a turn that
   is over; later tasks on this lease loop or end idle. The fix is to refuse activation when the pointer stream already
   settles this turn.
2. **`unavailable_reason`** (`turns/conversation-computer-turn-authority.ts:307`). The receipt of an
   unavailable response is derived from the turn re-read after the verdict. When a rival execution moved the turn on in between, the
   saved reason is not the one that was found, and a turn that could go on is given up.
3. **`refreeze`** (`turns/conversation-computer-turn-store.ts:46`). The frozen turn is documented as deterministic, yet it holds the history head and
   the remaining credential life. After a crash between freezing and activation a retry has other facts; it is either refused or goes
   on with a proposal that was never stored.
4. **`lost_in_use`** (`lifecycle/conversation-computer-lifecycle.ts:111`). A pass that records a loss clears the active-lease row, provided nobody uses the lease, and then deletes
   the claim and appends `lost` without looking again. A consumer that found the computer warm publishes the row in between
   (`activation/conversation-computer-activation-authority.ts:38`), a turn starts and gets its credential, and its lease ends under it. The documentation
   of that check says that it prevents cleanup while an attempt still uses the lease (`lifecycle/conversation-computer-lifecycle.types.ts:39`).

Two more observations need no run. A turn whose response is unavailable keeps the pointer until someone presses Stop, and
tasks of later entries wait. An execution that loses the acknowledgement of its reservation or claim loses the
right to send, so a request is abandoned rather than paid twice: `PaidExactlyOnce` holds at this price.

Reading the code for the later modules gave observations that the models contain but that no run refutes, because the properties
are stated as the code keeps them.

*Tool calls.*

- The expiry of an approval is not reached while its task waits. When the wait ends at the deadline, the engine runs the handler from its start, and
  `runLifecycle.start` throws for a run in `WaitingForInput` (`src/libs/backend/agents/execution/runs/main/src/prisma-conversation-run-lifecycle-authority.ts:8`) before
  `admit` could expire anything (`tools/proposal/prisma-conversation-tool-proposal.ts:33`). All attempts fail alike, and the run waits until a
  late answer or Stop (`AttemptsSpent` of ConversationTurn; the exception in `TurnEnds`). The elicitation mapping says "Past it, the request expires and the run resumes without an answer."
  (`src/libs/backend/agents/execution/elicitation/main/src/elicitation-persistence-mapping.types.ts:34`). Any retry during a pending approval spends
  its attempts the same way, and after the approval nobody is left to dispatch.
- A re-admission finds a call that was approved and is claimed or in recovery, and is denied (`…-tool-proposal.ts:68`): the turn is given up while the tool runs.
- `settleExhausted` closes a claim without asking whether it is over
  (`src/libs/backend/server/gateways/mcp/main/src/runtime/prisma-remote-mcp-dispatch-repository.ts:239`), so its executor may call the provider after Stop has
  finished. This is the exception in `NoCallAfterStop`.
- A denial (line 298 there) and the exhaustion of a pending command (line 228) call `completeUnusedBeforeDispatch`, which refuses the rows of runs
  (`…/persistence/prisma-mcp-unused-tool-invocation-repository.ts:38`): the denial throws in every attempt, the exhaustion settles nothing.
- The command's row stays pending or claimed when the invocation ends by another way (Stop, denial, an unused call).

*Credentials.* A revocation that finds no row returns (the `row # None` in `RevocationCompletes`); an execution that lags behind it may still have a key minted
afterwards, under the lease's row and for as long as the attempt's authority lasts.

The bound that separates a late mint from the cleanup of its row is not in the code: issuance compares the
clock with the authority only (`turns/credentials/conversation-computer-credential-issuance.ts:44`). A mint that the provider carries out after its claim (`ProviderDelay` beyond
`ClaimWindow`, which TLC can be given when the assumption is dropped) leaves a live key behind a closed row, until the key's own expiry; one key per attempt, custody of what is disclosed and
the finality of a cleanup hold even then. After its promotion a key is disclosed without another look at the lease or at the caller's authority; such a key can be revoked, which is all that `LiveKeyStaysInCustody` says.

*Leases.*

- Two passes that renew from the same revision share an event identifier. The second append is taken for a replay of the first, and
  `extendActiveLease` then gives the row a later expiry than the history has (`lifecycle/conversation-computer-lifecycle.ts:101`).
- A consumer that is late with `publishActiveLease` recreates the row of a generation that has ended. From then on the next generation's publication
  conflicts and its `clearActiveLease` returns false, until somebody deletes the row.
- A release clears the row of a computer that was warmed again after its snapshot was read; the append is refused, the row stays gone, and the
  warm computer cannot issue credentials until the next message publishes it.
- A generation publishes one checkpoint, for its upload lease is finalized
  (`src/libs/backend/server/agents/artifacts/main/src/prisma-artifact-authority.ts:70`). If the release after it is refused, later passes of this generation throw in the capture,
  before the renewal, until the lease expires and is recorded as lost; work done since is not in the checkpoint.
- A turn that runs between the capture and the clearing of the row is missing from the checkpoint.
- A request for an old generation, delivered late, claims the sandbox of the generation that was asked for with the lease of the current one; the claim is an orphan until its shutdown.

## Proofs

| Theorem | Says, for every value of the constants |
|---|---|
| `TypeCorrect` (in all six modules) | `TypeOK`: every projection, row, execution and snapshot is well typed |
| `AllowanceSafe`, `FinalAnswerAffordable` | `AllowanceNeverExceeded`, `ToolOfferKeepsFinalAnswer` |
| `AuthoritySafe`, `AccountingExact` | `AuthorityNarrows`, `AccountingMatchesSteps` (in no run) |
| `WinnerSafe`, `HistoryIsKept`, `RetriesSafe` | `OneWinner`, `HistoryOnlyGrows`, `SendsAreDistinct` |
| `PaidOnce`, `RunAgrees`, `StoppedQuiet` | `PaidExactlyOnce`, `RunAgreesWithTurn`, `StoppedRunIsQuiet` |
| `ResultsGenuine`, `NoToolAfterEnd` | `ResultsAreGenuine`, `EndedTurnAdmitsNoTool` |
| `TurnLogImplemented` | `ImplementsTurnLog` |
| `TurnsAreSerial`, `ReleaseFollowsDecision` | `SerialTurns`, `SettledTurnsAreDecided` |
| `FreezesTheNewest`, `LaggardsDecideNothing` | `FrozenForTheNewestEntry`, `OnlyTheActiveTurnIsDecided` |
| `LeaseTurnsImplemented` | `ImplementsLeaseTurns` |
| `KeyIsMintedOnce`, `ClosedRowsAreSafe`, `DisclosedKeysAreRevocable`, `CleanupStays` | `MintedOnce`, `ClosedRowHasNoLiveKey`, `LiveKeyStaysInCustody`, `CleanupIsFinal` |
| `OneEffect`, `Truth`, `Pause`, `Quiet` | `OneEffectPerApproval`, `TruthfulResults`, `PausedForAReason`, `NoCallAfterStop` |
| `ToolCallImplemented` | `ImplementsToolCall` |
| `LeasesFollow` | `LeasesAreSerial` |

Every safety property that a passing run checks is proved, except `ReservationIsAccepted`. The theorems assume only `BudgetAssumption`, which `_AssertBudget` enforces;
`IdentityAssumption` and `NullAssumption`, that no identity, reason, claim or number is null; and `WindowAssumption`,
`ActiveTurnAssumption`, `CredentialAssumption`, `ToolAssumption` and `LeaseAssumption`, that the bounds are naturals (positive where a duration or a number
of attempts is) and that the kinds of actors are distinct; and `ProviderAssumption`, the one that is about the world outside, which TurnCredential's proofs use for `ClosedRowsAreSafe`. `OnlyTheActiveTurnIsDecided` is in no run, because `ImplementsLeaseTurns` says more.

*TurnLog_proofs.* `TypeOK` is inductive. Neither of the two allowance properties is alone: what a selection may spend is
guaranteed only by the request that was offered tools, so `AllowanceInv` is both with `TypeOK`. `AuthorityNarrows` speaks of
every pair of steps and is inductive with `TypeOK`, because a result can only be recorded for the last step, behind which no later
request stands. `OneWinner` needs `UnavailableIsLate` (a turn that gave up is never reserved again, so output cannot follow), and
`HistoryOnlyGrows` needs `StepsFillInOrder` (a request still being sent has neither selection nor result, so recording one overwrites
nothing); both are `RecordInv`. `SendsAreDistinct` is inductive with the finiteness of the rejected nonces: each rejection adds one
nonce, because a claim is refused a rejected one. `AccountingMatchesSteps` compares the counters with the sets of selected and answered steps and with running
totals of the tokens, which need no recursion; it is inductive with `ReservesAfterResult` (what the state says of the newest step),
because the cycle is counted by the reservation *after* a result. One lemma per event says what it changes (`ReserveEffect`, `SelectEffect`, …),
so the inductive steps speak of effects and not of records.

*ConversationTurn_proofs.* One invariant, `Inv`, carries all six safety properties and the refinement. No part of it is inductive alone.

- `TurnInv` is the shape of the projection: which phase the newest step has in each state, and which receipt. `Scalars` types the other stores and bounds
  the conversation's head before the turn's receipt.
- `RunInv` relates the run in PostgreSQL to the turn in the stream, in both directions: an answer forbids `recovery_required`, a cancellation
  forbids `completed`, and a run waits for its owner only while the approval of the turn's last step is open. `StopInv` says what Stop's task may conclude at each step; its `target` and `commit` conclude something only
  *while the revision they read has not moved*, as the append of every execution does (`AppendOK`, whose `CanApply` is the reducer's
  guard at that revision). This is the argument that one conditional append suffices where the code makes no other check.
- `SendRightInv` is the heart of `PaidExactlyOnce`. The right to send the reserved request lies with whoever stands between its
  reservation (or retry claim) and the send, with a rejection still to be recorded, or with a readback that will find its own event *exactly one revision
  on*. `Bears` says who that is; the invariant, that at most one execution does, that nothing is paid for the request yet, and that
  no request has been reserved behind it. `PaidInv` relates what was paid to what the stream records: nothing beyond the last step, every selected or answered step.
- `ResultInv` and the parts of `WorkerOK` on selections and results (`Selected`, `Backed`) carry `ResultsAreGenuine` from the
  invocation's row through three awaits into the stream.

Each function of the code has a lemma that its step preserves `Inv`, most of them from three: a step that moves one execution (`MovesTo`), an
append that commits, and a step of another store. For `TurnLogImplemented` every committed append is the `TurnLog` action of its event, by
`CanApply`; all other steps leave the stream.

`TurnLogImplemented` and the theorems of TurnLog, which hold for any constants that satisfy its assumptions, give the
reducer's promises of ConversationTurn's stream. This last inference is made here and not by the prover: version 1.4.5 cannot cite a
theorem through `INSTANCE`.

*ActiveTurn_proofs.* An execution appends to the pointer at a head it read earlier, so `SerialTurns` alone says nothing of the append. `IInv` adds
`KnowsHead`, what that read still means *if the head has not moved* (nobody is active; this turn is active), and `KnowsTurn`, what an execution
may rely on although it lags: its turn is active or no longer open, and answered if it is finishing it. The steps that only move an
execution follow from one lemma, `Moves`; those that append from `StreamGrows` and `OthersStillKnow`.
`ActivatedIsServedOrDecided` covers an activation that the store recognises as a retry. `FInv` extends this to the freezing of a turn: the candidate an
execution carries was compiled from a prefix of the history (`Compiled`), and the history only grows at its end (`HistoryKept`), so what was the newest
unanswered entry of that prefix remains so. For `LeaseTurnsImplemented`, every step but five leaves both the last pointer event and the outcomes
as they are; that a `Settle` lets go of an answered turn is `KnowsTurn` together with `KnowsHead`.

*TurnCredential_proofs.* That one key is minted is inductive only with what a mint's timing means for the row: `MintsAreTimed` says that a request that can still produce a key was made
under the row's claim, and is over once the row has left `pending`. Hence a key deleted after that stays the last (`NoLiveKey` at
`clear`), which gives the closed row; `Holds` says what each caller may conclude at its step, and `InCustody` that a disclosed key is the saved one.

*ToolDispatch_proofs.* `OneHolder`: only a pending command is claimed and nothing leads back to pending, so one execution at most is between claim and completion, and its
step tells whether the call was made. `RowsAgree` relates the five rows in every committed state. `ClaimSaved` is what Stop relies on: the claim an executor
has not yet used is saved, was closed early, or is over; with `StopFences` it gives `NoCallAfterStop`. Lemmas on the transactions (`FailsFields`, `CancelledFields`, …)
and on the executions (`GoesUnheld`) leave each action two obligations, `QuietSafe` or `WriteSafe`. For `ToolCallImplemented` every transaction is shown to be
`Faithful`: it neither grants nor withdraws an approval, and gives a result only to a call that has none, the true one. Because a transaction may also fail, and then the rows are
as before, this is enough whatever happens to the acknowledgement. Only the owner's answer, the call and the turn's own steps are seen besides.

*ComputerLease_proofs.* A worker appends what it derived from a snapshot it read earlier. `Seen` says what that read still means: while the revision has not moved, the history is the worker's view. `Fitting` says
that the view allows the step the worker is at. Together they make an append a legal successor of the history itself, which is `LeasesAreSerial`. The replay of an append changes nothing.

Only model-checked: the five liveness properties (`TurnEnds`, `AdmittedStopEndsRun`, `SavedAnswerIsFinished`, `RevocationCompletes`,
`StopFinishes`), since the prover handles neither `ENABLED` nor fairness, and `ReservationIsAccepted`, whose `\div` the runs try at every
remainder of the allowance. The four refuted statements under *Findings* are false and have no proof.

## Not modelled

Within the modelled part: the compiled input and prompt history, private payload custody, generated files and the task's wait for them,
notifications, Stop's idempotent command store and a second Stop task. ToolDispatch has one call; several calls of one turn are serial by ConversationTurn's phases. Its rows
omit the reconciliation of providers that can be asked again, edited arguments, batches and grants. ComputerLease omits what a checkpoint contains and its restore. The three newer modules meet
ConversationTurn in what they assume of each other (a lease that may end, a call that settles once, a credential that expires); their
composition in one module is out of reach of the runs. Outside: see the inventory.

## Plan

1. *The engine.* `WorkflowTask`: claims, checkpoints, events, cancellation, attempts, as the abstract specification of what ToolDispatch and ConversationTurn
   assume of it. Stop with its command store and a second Stop.
2. *Leases and turns.* ActiveTurn over two generations, with ComputerLease as the source of the lease; the checkpoint's contents, so that work lost between capture and
   release can be stated; liveness of a release.
3. *Other protocols.* Provider effect commands, memory operations, other elicitations, validation controllers, run admission.
4. *Proofs.* Abstract specifications of TurnCredential (one key, in custody while it lives) and of ComputerLease (one lease after another) with their refinements;
   TurnLog's promises restated for ConversationTurn where a reader needs them; the safety of the modules of 1 and 2.

Planned bounds: two actors of each kind, one fault beside a rival and two without; symmetry in the safety runs.

## Running

`tlc -config TurnRaces.cfg MCConversationTurn.tla` checks a run; `tlapm ActiveTurn_proofs.tla` the proofs of a module. `PROJECT.json` lists
runs, the mutated definitions each property rejects, the source lines behind each definition, findings, hazards and theorems.
