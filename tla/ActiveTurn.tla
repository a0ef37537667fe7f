------------------------------ MODULE ActiveTurn ------------------------------
(***************************************************************************)
(* Which turn a computer lease works on.  Every human entry starts a       *)
(* workflow task; each execution of a task finds the active turn of the    *)
(* lease or freezes one for the newest unanswered entry, activates it in   *)
(* the pointer stream, and settles it when it is answered.                 *)
(*                                                                         *)
(* What happens inside a turn is ConversationTurn; here it is an outcome.  *)
(* A turn is named by the position of its entry: the bootstrap identifier  *)
(* is a digest of the lease and that entry.                                *)
(***************************************************************************)
EXTENDS Naturals, Sequences

CONSTANTS
    None,
    Workers,         \* executions of tasks
    MaxHistory,      \* bound on the conversation stream
    LeaseSeconds,    \* what the lease has left when the model begins
    MaxLifetime,     \* the 300 seconds a credential may live
    MaxFaults        \* bound on crashes

ASSUME ActiveTurnAssumption ==
    /\ MaxHistory \in Nat /\ LeaseSeconds \in Nat /\ MaxLifetime \in Nat /\ MaxFaults \in Nat

VARIABLES
    history,   \* the participant conversation: human entries, answers and others
    frozen,    \* each entry's frozen turn: the facts that a clock or a writer changes
    outcome,   \* what became of each turn
    pointer,   \* the lease's active-turn stream
    left,      \* seconds the lease has left
    worker,    \* each execution: where it is, its task's entry and what it holds
    faults

vars == <<history, frozen, outcome, pointer, left, worker, faults>>
Conversation == <<history, frozen, outcome, left, faults>>

Positions == 1..MaxHistory
Active(k) == [type |-> "active", turn |-> k]
Settled(k) == [type |-> "settled", turn |-> k]

Idle == [pc |-> "idle", cause |-> 0, turn |-> 0, held |-> None]

Init ==
    /\ history = <<>>
    /\ frozen = [k \in Positions |-> None]
    /\ outcome = [k \in Positions |-> "open"]
    /\ pointer = <<>> /\ left = LeaseSeconds
    /\ worker = [w \in Workers |-> Idle]
    /\ faults = 0

In(w, pc) == worker[w].pc = pc
Hold(w, pc, turn, held) == worker' = [worker EXCEPT ![w] =
    [pc |-> pc, cause |-> worker[w].cause, turn |-> turn, held |-> held]]
Goto(w, pc) == Hold(w, pc, worker[w].turn, None)
Fail(w) == Hold(w, "start", 0, None)

Newest == pointer[Len(pointer)]
IsActive(k) == pointer # <<>> /\ Newest = Active(k)

(* loadActive: the last event decides, for a settlement follows its turn.   *)
Busy == pointer # <<>> /\ Newest.type = "active"

HasSettlement(k) ==
    \E i \in 2..Len(pointer) : pointer[i] = Settled(k) /\ pointer[i - 1] = Active(k)

-----------------------------------------------------------------------------
(* A task for one human entry begins; the engine may run it twice.          *)
Deliver(w) ==
    /\ In(w, "idle")
    /\ \E k \in DOMAIN history :
          /\ history[k].kind = "human"
          /\ worker' = [worker EXCEPT ![w] = [pc |-> "start", cause |-> k, turn |-> 0, held |-> None]]
    /\ UNCHANGED <<Conversation, pointer>>

Start(w) ==
    /\ In(w, "start")
    /\ IF Busy THEN Hold(w, "found", Newest.turn, None) ELSE Goto(w, "resolve")
    /\ UNCHANGED <<Conversation, pointer>>

(* Mutant: a turn without an answer is finished as if it had one.           *)
FoundFinishesUnavailable(w) ==
    /\ In(w, "found")
    /\ LET k == worker[w].turn IN
       CASE outcome[k] \in {"answered", "unavailable"} -> Hold(w, "finish", k, [next |-> "start"])
         [] outcome[k] = "cancelled" -> Goto(w, "done")
         [] outcome[k] = "open"      -> IF left > 0 THEN Goto(w, "compare") ELSE Fail(w)
    /\ UNCHANGED <<Conversation, pointer>>

(* start() with an active turn.                                             *)
Found(w) ==
    /\ In(w, "found")
    /\ LET k == worker[w].turn IN
       CASE outcome[k] = "answered"    -> Hold(w, "finish", k, [next |-> "start"])
         [] outcome[k] = "cancelled"   -> Goto(w, "done")
         [] outcome[k] = "unavailable" -> Goto(w, "compare")
         [] outcome[k] = "open"        -> IF left > 0 THEN Goto(w, "compare") ELSE Fail(w)
    /\ UNCHANGED <<Conversation, pointer>>

Unanswered ==
    {k \in DOMAIN history : /\ history[k].kind = "human"
                            /\ \A a \in DOMAIN history : history[a] # [kind |-> "answer", to |-> k]}

(* Mutant: the oldest unanswered entry is served.                           *)
OldestPending(k) == k \in Unanswered /\ \A other \in Unanswered : k <= other

NewestPending(k) == k \in Unanswered /\ \A other \in Unanswered : other <= k

(* Mutant: the head is taken for the next position.                         *)
NextRevision == Len(history) + 1

HeadRevision == Len(history)

(* resolveForWorkflow: compile the newest unanswered entry at the head, for *)
(* as long as the credential and the lease still live.                      *)
Resolve(w) ==
    /\ In(w, "resolve")
    /\ IF left = 0 THEN Fail(w)
       ELSE \/ Unanswered = {} /\ Goto(w, "done")
            \/ \E k \in Positions : NewestPending(k) /\
                  Hold(w, "create", k, [revision |-> HeadRevision,
                                        lifetime |-> IF left < MaxLifetime THEN left ELSE MaxLifetime])
    /\ UNCHANGED <<Conversation, pointer>>

(* The history store recognises a retried append by its event identifier    *)
(* and may acknowledge it without writing: the event is at the position the *)
(* append expects to write.                                                 *)
AlreadyAppended(at, e) == at < Len(pointer) /\ pointer[at + 1] = e

(* createOrRead: freeze the turn, or recover one with exactly these facts,  *)
(* as it is at this moment.  The event is identified by the turn alone, so  *)
(* the store may take other facts for the same append; then the proposal is *)
(* returned, with its initial protocol.                                     *)
CreateOrRead(w) ==
    /\ In(w, "create")
    /\ LET k == worker[w].turn IN
       IF frozen[k] = None
       THEN frozen' = [frozen EXCEPT ![k] = worker[w].held] /\ Hold(w, "activate", k, [seen |-> "open"])
       ELSE /\ UNCHANGED frozen
            /\ \/ Hold(w, "activate", k, [seen |-> "open"])
               \/ IF frozen[k] = worker[w].held THEN Hold(w, "activate", k, [seen |-> outcome[k]]) ELSE Fail(w)
    /\ UNCHANGED <<history, outcome, pointer, left, faults>>

(* Mutant: another turn that is still active is not in the way.             *)
ActivateBesideAnother(w) ==
    /\ In(w, "activate")
    /\ LET k == worker[w].turn  seen == worker[w].held.seen IN
       IF IsActive(k) THEN Hold(w, "activated", k, worker[w].held)
       ELSE Hold(w, "append", k, [seen |-> seen, at |-> Len(pointer)])
    /\ UNCHANGED <<Conversation, pointer>>

(* _Activate reads the pointer stream and looks at its last event.          *)
Activate(w) ==
    /\ In(w, "activate")
    /\ LET k == worker[w].turn  seen == worker[w].held.seen IN
       IF IsActive(k) THEN Hold(w, "activated", k, worker[w].held)
       ELSE IF Busy THEN Fail(w)
       ELSE Hold(w, "append", k, [seen |-> seen, at |-> Len(pointer)])
    /\ UNCHANGED <<Conversation, pointer>>

(* Mutant: the append does not insist on the head that was read.            *)
AppendActiveAnywhere(w) ==
    /\ In(w, "append")
    /\ pointer' = Append(pointer, Active(worker[w].turn))
    /\ Hold(w, "activated", worker[w].turn, [seen |-> worker[w].held.seen])
    /\ UNCHANGED Conversation

AppendActive(w) ==
    /\ In(w, "append")
    /\ LET k == worker[w].turn IN
       IF Len(pointer) = worker[w].held.at
       THEN pointer' = Append(pointer, Active(k)) /\ Hold(w, "activated", k, [seen |-> worker[w].held.seen])
       ELSE /\ UNCHANGED pointer
            /\ \/ /\ AlreadyAppended(worker[w].held.at, Active(k))
                  /\ Hold(w, "activated", k, [seen |-> worker[w].held.seen])
               \/ IF IsActive(k) THEN Hold(w, "activated", k, [seen |-> worker[w].held.seen]) ELSE Fail(w)
    /\ UNCHANGED Conversation

(* The rest of start(), on the turn that createOrRead returned.             *)
Activated(w) ==
    /\ In(w, "activated")
    /\ LET k == worker[w].turn  seen == worker[w].held.seen IN
       IF left = 0 THEN Fail(w)
       ELSE CASE seen = "answered"  -> Hold(w, "finish", k, [next |-> "done"])
              [] seen = "cancelled" -> Goto(w, "done")
              [] OTHER              -> Goto(w, "compare")
    /\ UNCHANGED <<Conversation, pointer>>

(* The task serves its own entry's turn, waits for an earlier one and leaves*)
(* a later one to its own task.                                             *)
Compare(w) ==
    /\ In(w, "compare")
    /\ LET k == worker[w].turn  cause == worker[w].cause IN
       Goto(w, IF k < cause THEN "start" ELSE IF k > cause THEN "done" ELSE "advance")
    /\ UNCHANGED <<Conversation, pointer>>

-----------------------------------------------------------------------------
(* The turn, seen from outside: it is answered, given up or left alone.     *)
Advance(w) ==
    /\ In(w, "advance")
    /\ LET k == worker[w].turn IN
       CASE outcome[k] = "answered" -> Hold(w, "finish", k, [next |-> "done"])
         [] outcome[k] \in {"cancelled", "unavailable"} -> Goto(w, "done")
         [] outcome[k] = "open" -> left = 0 /\ Goto(w, "done")
    /\ UNCHANGED <<Conversation, pointer>>

Answer(w) ==
    LET k == worker[w].turn IN
    /\ In(w, "advance") /\ outcome[k] = "open" /\ left > 0 /\ Len(history) < MaxHistory
    /\ outcome' = [outcome EXCEPT ![k] = "answered"]
    /\ history' = Append(history, [kind |-> "answer", to |-> k])
    /\ Hold(w, "finish", k, [next |-> "done"])
    /\ UNCHANGED <<frozen, pointer, left, faults>>

GiveUp(w) ==
    LET k == worker[w].turn IN
    /\ In(w, "advance") /\ outcome[k] = "open" /\ left > 0
    /\ outcome' = [outcome EXCEPT ![k] = "unavailable"]
    /\ Goto(w, "done")
    /\ UNCHANGED <<history, frozen, pointer, left, faults>>

(* _FinishOutput up to settle's read of the pointer stream.                 *)
FinishOutput(w) ==
    /\ In(w, "finish")
    /\ LET k == worker[w].turn IN
       IF left = 0 THEN Fail(w)
       ELSE IF HasSettlement(k) THEN Goto(w, worker[w].held.next)
       ELSE IF IsActive(k) THEN Hold(w, "settle", k, [next |-> worker[w].held.next, at |-> Len(pointer)])
       ELSE Fail(w)
    /\ UNCHANGED <<Conversation, pointer>>

Settle(w) ==
    /\ In(w, "settle")
    /\ LET k == worker[w].turn IN
       IF Len(pointer) = worker[w].held.at
       THEN pointer' = Append(pointer, Settled(k)) /\ Goto(w, worker[w].held.next)
       ELSE /\ UNCHANGED pointer
            /\ \/ AlreadyAppended(worker[w].held.at, Settled(k)) /\ Goto(w, worker[w].held.next)
               \/ IF HasSettlement(k) THEN Goto(w, worker[w].held.next) ELSE Fail(w)
    /\ UNCHANGED Conversation

-----------------------------------------------------------------------------
(* Stop's one atomic append cancels the active turn and settles it.         *)
Stop ==
    /\ Busy /\ Len(history) < MaxHistory
    /\ outcome[Newest.turn] \in {"open", "unavailable"}
    /\ outcome' = [outcome EXCEPT ![Newest.turn] = "cancelled"]
    /\ pointer' = Append(pointer, Settled(Newest.turn))
    /\ history' = Append(history, [kind |-> "stopped"])
    /\ UNCHANGED <<frozen, left, worker, faults>>

(* A person writes, or some other entry is recorded.                        *)
Post ==
    /\ Len(history) < MaxHistory
    /\ \E kind \in {"human", "other"} : history' = Append(history, [kind |-> kind])
    /\ UNCHANGED <<frozen, outcome, pointer, left, worker, faults>>

Tick ==
    /\ left > 0
    /\ left' = left - 1
    /\ UNCHANGED <<history, frozen, outcome, pointer, worker, faults>>

Crash(w) ==
    /\ worker[w].pc \notin {"idle", "start", "done"} /\ faults < MaxFaults
    /\ faults' = faults + 1
    /\ Fail(w)
    /\ UNCHANGED <<history, frozen, outcome, pointer, left>>

WorkerStep(w) ==
    \/ Start(w) \/ Found(w) \/ Resolve(w) \/ CreateOrRead(w)
    \/ Activate(w) \/ AppendActive(w) \/ Activated(w) \/ Compare(w)
    \/ Advance(w) \/ Answer(w) \/ GiveUp(w) \/ FinishOutput(w) \/ Settle(w)

Next ==
    \/ \E w \in Workers : Deliver(w) \/ WorkerStep(w) \/ Crash(w)
    \/ Stop \/ Post \/ Tick

Spec == Init /\ [][Next]_vars

-----------------------------------------------------------------------------
TypeOK ==
    /\ Len(history) <= MaxHistory /\ left \in 0..LeaseSeconds /\ faults \in 0..MaxFaults
    /\ \A k \in Positions : frozen[k] = None \/ frozen[k].revision \in k..Len(history)
    /\ outcome \in [Positions -> {"open", "answered", "unavailable", "cancelled"}]
    /\ pointer \in Seq([type : {"active", "settled"}, turn : Positions])

(* Turns of a lease are serial: no turn becomes active before the one before*)
(* it is settled, and a settlement follows the very turn it settles, so the *)
(* stream is always one that loadActive accepts.                            *)
SerialTurns ==
    \A i \in DOMAIN pointer :
        LET before == IF i = 1 THEN Settled(0) ELSE pointer[i - 1] IN
        IF pointer[i].type = "active" THEN before.type = "settled"
                                      ELSE before = Active(pointer[i].turn)

(* Whatever decides a turn finds it active: an execution that lags behind   *)
(* never answers, gives up or stops a turn beside the one being served.     *)
OnlyTheActiveTurnIsDecided ==
    [][ \A k \in Positions : outcome[k] = "open" /\ outcome'[k] # "open" => IsActive(k) ]_vars

(* The computer is released for its next entry only by an answer or a Stop. *)
SettledTurnsAreDecided ==
    \A i \in DOMAIN pointer :
        pointer[i].type = "settled" => outcome[pointer[i].turn] \in {"answered", "cancelled"}

(* Executions, crashes and lost acknowledgements are invisible from outside:*)
(* the lease serves one turn at a time and lets go of it as LeaseTurns says.*)
ServedTurns == IF Busy THEN {Newest.turn} ELSE {}

Lease == INSTANCE LeaseTurns WITH Turns <- Positions, serving <- ServedTurns

ImplementsLeaseTurns == Lease!Spec

(* A turn is frozen for the newest entry that nobody had answered in the    *)
(* history it was compiled from, although both moved on in between.         *)
FrozenForTheNewestEntry ==
    \A k \in Positions : frozen[k] # None =>
        /\ history[k].kind = "human"
        /\ \A other \in k + 1..frozen[k].revision : history[other].kind = "human" =>
              \E a \in other..frozen[k].revision : history[a] = [kind |-> "answer", to |-> other]

(* "Resolve the unsettled turn named by this exact computer lease"          *)
(* (conversation-computer-turn-store.ts:165).  An execution that resolved   *)
(* its candidate before the turn was answered or stopped reads the pointer  *)
(* after it was settled, appends the activation again at that head, and     *)
(* nothing settles the turn a second time.                                  *)
ActiveTurnIsUnsettled == Busy => ~HasSettlement(Newest.turn)

(* "Create the deterministic frozen turn or recover its byte-equivalent     *)
(* winner" (conversation-computer-turn-store.ts:46).  An execution that     *)
(* crashed before activation compiles at another head or with less time     *)
(* left, and is refused its own turn or goes on with facts never stored.    *)
FreezeIsDeterministic ==
    \A w \in Workers : LET k == worker[w].turn IN
        In(w, "create") /\ frozen[k] # None => worker[w].held = frozen[k]
=============================================================================
