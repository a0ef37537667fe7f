-------------------------- MODULE ActiveTurn_proofs --------------------------
(***************************************************************************)
(* Theorems about the active turn of a lease, for any number of executions *)
(* and entries: turns are serial, only the active turn is decided, only a  *)
(* decided turn is settled, and a turn is frozen for the newest unanswered *)
(* entry of the history it was compiled from.                              *)
(*                                                                         *)
(* None of them is inductive.  An execution appends to the pointer stream  *)
(* at a head it read earlier, so IInv says what that read still means if   *)
(* the head has not moved, and which executions may hold a turn that is no *)
(* longer active.  It freezes a candidate it resolved earlier, so FInv says*)
(* what the candidate was when it was resolved.                            *)
(***************************************************************************)
EXTENDS ActiveTurn, TLAPS

Outcomes == {"open", "answered", "unavailable", "cancelled"}
Events == [type : {"active", "settled"}, turn : Positions]
Entries == [kind : {"human", "other", "stopped"}] \union [kind : {"answer"}, to : Positions]

Serving == {"found", "create", "activate", "append", "activated", "compare", "advance",
            "finish", "settle"}

(* An execution that may still move the pointer knows what its head meant.  *)
KnowsHead(w) ==
    /\ worker[w].pc \in {"append", "settle"} =>
          (worker[w].held.at \in Nat /\ worker[w].held.at <= Len(pointer))
    /\ (worker[w].pc = "append" /\ worker[w].held.at = Len(pointer)) => ~Busy
    /\ (worker[w].pc = "settle" /\ worker[w].held.at = Len(pointer)) => IsActive(worker[w].turn)

(* What an execution concluded about its turn stays true of the turn.       *)
KnowsTurn(w) ==
    /\ worker[w].pc \in Serving => worker[w].turn \in Positions
    /\ (worker[w].pc \in {"activate", "append", "activated"} /\ worker[w].held.seen = "answered") =>
          outcome[worker[w].turn] = "answered"
    /\ worker[w].pc \in {"finish", "settle"} =>
          (outcome[worker[w].turn] = "answered" /\ worker[w].held.next \in {"start", "done"})
    /\ worker[w].pc \in {"found", "activated", "compare", "advance"} =>
          (outcome[worker[w].turn] = "open" => IsActive(worker[w].turn))

Stores ==
    /\ history \in Seq(Entries) /\ Len(history) <= MaxHistory
    /\ outcome \in [Positions -> Outcomes]
    /\ pointer \in Seq(Events)
    /\ DOMAIN worker = Workers

IInv ==
    /\ Stores /\ SerialTurns /\ SettledTurnsAreDecided
    /\ \A w \in Workers : KnowsHead(w) /\ KnowsTurn(w)

-----------------------------------------------------------------------------
(* Appending an event leaves the earlier ones and puts it last.             *)
LEMMA Appended ==
    ASSUME pointer \in Seq(Events), NEW e \in Events, pointer' = Append(pointer, e)
    PROVE  /\ pointer' \in Seq(Events) /\ pointer' # <<>>
           /\ Len(pointer') = Len(pointer) + 1 /\ Len(pointer) \in Nat
           /\ \A i \in 1..Len(pointer) : pointer'[i] = pointer[i]
           /\ pointer'[Len(pointer')] = e
    OBVIOUS

(* A busy lease's newest event activates a turn.                            *)
LEMMA NewestActive ==
    ASSUME pointer \in Seq(Events), Busy
    PROVE  Newest.turn \in Positions /\ IsActive(Newest.turn)
<1>1. Newest \in Events
  BY DEF Newest, Busy
<1> QED BY <1>1 DEF Busy, IsActive, Active, Events

(* Moving one execution leaves what the others know.                        *)
LEMMA OnlyOneMoves ==
    ASSUME Stores, NEW w \in Workers, NEW pc, NEW turn, NEW held, Hold(w, pc, turn, held)
    PROVE  /\ DOMAIN worker' = Workers
           /\ worker'[w].pc = pc /\ worker'[w].turn = turn /\ worker'[w].held = held
           /\ \A v \in Workers : v # w => worker'[v] = worker[v]
  BY DEF Stores, Hold

(* What a step that moves one execution alone has to establish.             *)
Warranted(pc, turn, held) ==
    /\ pc \in {"append", "settle"} => (held.at \in Nat /\ held.at <= Len(pointer))
    /\ pc = "append" => (held.at = Len(pointer) => ~Busy)
    /\ pc = "settle" => (held.at = Len(pointer) => IsActive(turn))
    /\ pc \in Serving => turn \in Positions
    /\ pc \in {"activate", "append", "activated"} => (held.seen = "answered" => outcome[turn] = "answered")
    /\ pc \in {"finish", "settle"} => (outcome[turn] = "answered" /\ held.next \in {"start", "done"})
    /\ pc \in {"found", "activated", "compare", "advance"} => (outcome[turn] = "open" => IsActive(turn))

LEMMA Moves ==
    ASSUME IInv, NEW w \in Workers, NEW pc, NEW turn, NEW held,
           Hold(w, pc, turn, held), Warranted(pc, turn, held),
           UNCHANGED <<history, outcome, pointer>>
    PROVE  IInv'
<1>1. Stores' /\ SerialTurns' /\ SettledTurnsAreDecided'
  BY OnlyOneMoves DEF IInv, Stores, SerialTurns, SettledTurnsAreDecided
<1>2. ASSUME NEW v \in Workers PROVE KnowsHead(v)' /\ KnowsTurn(v)'
  <2>1. CASE v = w
    BY <2>1, OnlyOneMoves DEF IInv, Warranted, KnowsHead, KnowsTurn, Busy, IsActive, Newest
  <2>2. CASE v # w
    BY <2>2, OnlyOneMoves DEF IInv, KnowsHead, KnowsTurn, Busy, IsActive, Newest
  <2> QED BY <2>1, <2>2
<1> QED BY <1>1, <1>2 DEF IInv

-----------------------------------------------------------------------------
LEMMA Initially == Init => IInv
<1> SUFFICES ASSUME Init PROVE IInv OBVIOUS
<1>1. Stores
  BY ActiveTurnAssumption DEF Init, Stores, Outcomes
<1>2. SerialTurns /\ SettledTurnsAreDecided
  BY DEF Init, SerialTurns, SettledTurnsAreDecided
<1>3. ASSUME NEW w \in Workers PROVE KnowsHead(w) /\ KnowsTurn(w)
  BY DEF Init, Idle, KnowsHead, KnowsTurn, Serving
<1> QED BY <1>1, <1>2, <1>3 DEF IInv

(* The steps that only move an execution.                                   *)
LEMMA LookingSteps ==
    ASSUME IInv, NEW w \in Workers,
           \/ Start(w) \/ Found(w) \/ Resolve(w) \/ CreateOrRead(w)
           \/ Activate(w) \/ Activated(w) \/ Compare(w) \/ Advance(w) \/ FinishOutput(w)
           \/ Crash(w)
    PROVE  IInv'
<1> USE DEF Goto, Fail, Conversation
<1>0. KnowsHead(w) /\ KnowsTurn(w) /\ Stores /\ Len(pointer) \in Nat
  BY DEF IInv, Stores
<1>1. CASE Start(w)
  <2>1. CASE Busy
    <3>1. Warranted("found", Newest.turn, None)
      BY <2>1, <1>0, NewestActive DEF Warranted, Stores, Serving
    <3> QED BY <3>1, <2>1, <1>1, Moves DEF Start
  <2>2. CASE ~Busy
    BY <2>2, <1>1, Moves DEF Start, Warranted, Serving
  <2> QED BY <2>1, <2>2
<1>2. CASE Found(w)
  <2> DEFINE k == worker[w].turn
  <2>1. k \in Positions /\ (outcome[k] = "open" => IsActive(k))
    BY <1>0, <1>2 DEF Found, In, KnowsTurn, Serving
  <2>2. CASE outcome[k] = "answered"
    <3>1. Warranted("finish", k, [next |-> "start"])
      BY <2>1, <2>2 DEF Warranted, Serving
    <3> QED BY <3>1, <2>2, <1>2, Moves DEF Found
  <2>3. Warranted("compare", k, None) /\ Warranted("done", k, None) /\ Warranted("start", 0, None)
    BY <2>1 DEF Warranted, Serving
  <2>4. outcome[k] \in Outcomes
    BY <2>1, <1>0 DEF Stores
  <2>5. CASE outcome[k] # "answered"
    BY <2>3, <2>4, <2>5, <1>2, Moves DEF Found, Outcomes
  <2> QED BY <2>2, <2>5
<1>3. CASE Resolve(w)
  <2>1. Warranted("start", 0, None) /\ Warranted("done", worker[w].turn, None)
    BY DEF Warranted, Serving
  <2>2. ASSUME NEW k \in Positions, NEW held PROVE Warranted("create", k, held)
    BY <2>2 DEF Warranted, Serving
  <2> QED BY <2>1, <2>2, <1>3, Moves DEF Resolve
<1>4. CASE CreateOrRead(w)
  <2> DEFINE k == worker[w].turn
  <2>1. k \in Positions
    BY <1>0, <1>4 DEF CreateOrRead, In, KnowsTurn, Serving
  <2>2. /\ Warranted("start", 0, None) /\ Warranted("activate", k, [seen |-> "open"])
        /\ Warranted("activate", k, [seen |-> outcome[k]])
    BY <2>1 DEF Warranted, Serving
  <2> QED BY <2>2, <1>4, Moves DEF CreateOrRead
<1>5. CASE Activate(w)
  <2> DEFINE k == worker[w].turn
  <2>1. k \in Positions /\ (worker[w].held.seen = "answered" => outcome[k] = "answered")
    BY <1>0, <1>5 DEF Activate, In, KnowsTurn, Serving
  <2>2. Warranted("start", 0, None)
    BY DEF Warranted, Serving
  <2>3. CASE IsActive(k)
    <3>1. Warranted("activated", k, worker[w].held)
      BY <2>1, <2>3 DEF Warranted, Serving
    <3> QED BY <3>1, <2>3, <1>5, Moves DEF Activate
  <2>4. CASE ~IsActive(k) /\ ~Busy
    <3>1. Warranted("append", k, [seen |-> worker[w].held.seen, at |-> Len(pointer)])
      BY <2>1, <2>4, <1>0 DEF Warranted, Serving
    <3> QED BY <3>1, <2>4, <1>5, Moves DEF Activate
  <2>5. CASE ~IsActive(k) /\ Busy
    BY <2>2, <2>5, <1>5, Moves DEF Activate
  <2> QED BY <2>3, <2>4, <2>5
<1>6. CASE Activated(w)
  <2> DEFINE k == worker[w].turn
  <2>1. /\ k \in Positions /\ (outcome[k] = "open" => IsActive(k))
        /\ worker[w].held.seen = "answered" => outcome[k] = "answered"
    BY <1>0, <1>6 DEF Activated, In, KnowsTurn, Serving
  <2>2. Warranted("start", 0, None) /\ Warranted("compare", k, None) /\ Warranted("done", k, None)
    BY <2>1 DEF Warranted, Serving
  <2>3. worker[w].held.seen = "answered" => Warranted("finish", k, [next |-> "done"])
    BY <2>1 DEF Warranted, Serving
  <2> QED BY <2>2, <2>3, <1>6, Moves DEF Activated
<1>7. CASE Compare(w)
  <2> DEFINE k == worker[w].turn
  <2>1. k \in Positions /\ (outcome[k] = "open" => IsActive(k))
    BY <1>0, <1>7 DEF Compare, In, KnowsTurn, Serving
  <2>2. Warranted("start", k, None) /\ Warranted("done", k, None) /\ Warranted("advance", k, None)
    BY <2>1 DEF Warranted, Serving
  <2> QED BY <2>2, <1>7, Moves DEF Compare
<1>8. CASE Advance(w)
  <2> DEFINE k == worker[w].turn
  <2>1. k \in Positions
    BY <1>0, <1>8 DEF Advance, In, KnowsTurn, Serving
  <2>2. Warranted("done", k, None)
    BY DEF Warranted, Serving
  <2>3. outcome[k] = "answered" => Warranted("finish", k, [next |-> "done"])
    BY <2>1 DEF Warranted, Serving
  <2>4. outcome[k] \in Outcomes
    BY <2>1, <1>0 DEF Stores
  <2> QED BY <2>2, <2>3, <2>4, <1>8, Moves DEF Advance, Outcomes
<1>9. CASE FinishOutput(w)
  <2> DEFINE k == worker[w].turn
  <2>1. k \in Positions /\ outcome[k] = "answered" /\ worker[w].held.next \in {"start", "done"}
    BY <1>0, <1>9 DEF FinishOutput, In, KnowsTurn, Serving
  <2>2. Warranted("start", 0, None) /\ Warranted(worker[w].held.next, k, None)
    BY <2>1 DEF Warranted, Serving
  <2>3. IsActive(k) => Warranted("settle", k, [next |-> worker[w].held.next, at |-> Len(pointer)])
    BY <2>1, <1>0 DEF Warranted, Serving
  <2> QED BY <2>2, <2>3, <1>9, Moves DEF FinishOutput
<1>10. CASE Crash(w)
  <2>1. Warranted("start", 0, None)
    BY DEF Warranted, Serving
  <2> QED BY <2>1, <1>10, Moves DEF Crash
<1> QED BY <1>1, <1>2, <1>3, <1>4, <1>5, <1>6, <1>7, <1>8, <1>9, <1>10

(* A task begins.                                                           *)
LEMMA Delivers ==
    ASSUME IInv, NEW w \in Workers, Deliver(w) PROVE IInv'
<1>1. PICK k : worker' = [worker EXCEPT ![w] = [pc |-> "start", cause |-> k, turn |-> 0, held |-> None]]
  BY DEF Deliver, Idle
<1>2. Stores' /\ SerialTurns' /\ SettledTurnsAreDecided'
  BY <1>1 DEF IInv, Stores, SerialTurns, SettledTurnsAreDecided, Deliver, Conversation
<1>3. ASSUME NEW v \in Workers PROVE KnowsHead(v)' /\ KnowsTurn(v)'
  <2>1. worker'[v] = IF v = w THEN [pc |-> "start", cause |-> k, turn |-> 0, held |-> None] ELSE worker[v]
    BY <1>1 DEF IInv, Stores
  <2> QED BY <2>1 DEF IInv, Deliver, Conversation, KnowsHead, KnowsTurn, Serving, Busy, IsActive, Newest
<1> QED BY <1>2, <1>3 DEF IInv

(* Other writers, time.                                                     *)
LEMMA Surroundings ==
    ASSUME IInv, Post \/ Tick PROVE IInv'
<1>1. UNCHANGED <<outcome, pointer, worker>>
  BY DEF Post, Tick
<1>2. history' \in Seq(Entries) /\ Len(history') <= MaxHistory
  <2>1. CASE Post
    <3>1. PICK kind \in {"human", "other"} : history' = Append(history, [kind |-> kind])
      BY <2>1 DEF Post
    <3>2. [kind |-> kind] \in Entries
      BY DEF Entries
    <3> QED BY <3>1, <3>2, <2>1, ActiveTurnAssumption DEF IInv, Stores, Post
  <2>2. CASE Tick
    BY <2>2 DEF IInv, Stores, Tick
  <2> QED BY <2>1, <2>2
<1>3. Stores' /\ SerialTurns' /\ SettledTurnsAreDecided'
  BY <1>1, <1>2 DEF IInv, Stores, SerialTurns, SettledTurnsAreDecided
<1>4. \A w \in Workers : KnowsHead(w)' /\ KnowsTurn(w)'
  BY <1>1 DEF IInv, KnowsHead, KnowsTurn, Busy, IsActive, Newest
<1> QED BY <1>3, <1>4 DEF IInv

(* A turn is decided from within: it was open, so it was and stays active.  *)
LEMMA Decisions ==
    ASSUME IInv, NEW w \in Workers, Answer(w) \/ GiveUp(w) PROVE IInv'
<1> DEFINE k == worker[w].turn
<1>1. /\ k \in Positions /\ outcome[k] = "open" /\ IsActive(k)
      /\ Stores /\ UNCHANGED pointer
  BY DEF IInv, Answer, GiveUp, In, KnowsTurn, Serving
<1>2. PICK fate \in {"answered", "unavailable"} :
         /\ outcome' = [outcome EXCEPT ![k] = fate]
         /\ \/ fate = "answered" /\ Hold(w, "finish", k, [next |-> "done"])
            \/ Hold(w, "done", k, None)
  BY DEF Answer, GiveUp, Goto
<1>3. history' \in Seq(Entries) /\ Len(history') <= MaxHistory
  <2>1. CASE Answer(w)
    <3>1. [kind |-> "answer", to |-> k] \in Entries
      BY <1>1 DEF Entries
    <3> QED BY <3>1, <2>1, <1>1, ActiveTurnAssumption DEF Stores, Answer
  <2>2. CASE GiveUp(w)
    BY <2>2, <1>1 DEF Stores, GiveUp
  <2> QED BY <2>1, <2>2
<1>4. /\ outcome' \in [Positions -> Outcomes] /\ outcome'[k] = fate
      /\ \A other \in Positions : other # k => outcome'[other] = outcome[other]
  BY <1>1, <1>2 DEF Stores, Outcomes
<1>5. Stores'
  BY <1>1, <1>2, <1>3, <1>4, OnlyOneMoves DEF Stores
<1>6. SerialTurns' /\ SettledTurnsAreDecided'
  <2>1. SerialTurns'
    BY <1>1 DEF IInv, SerialTurns
  <2>2. ASSUME NEW i \in DOMAIN pointer, pointer[i].type = "settled"
        PROVE  outcome'[pointer[i].turn] \in {"answered", "cancelled"}
    <3>1. pointer[i] \in Events
      BY <2>2, <1>1 DEF Stores
    <3>2. pointer[i].turn \in Positions
      BY <3>1 DEF Events
    <3>3. outcome[pointer[i].turn] \in {"answered", "cancelled"}
      BY <2>2 DEF IInv, SettledTurnsAreDecided
    <3> QED BY <3>2, <3>3, <1>1, <1>4
  <2> QED BY <2>1, <2>2, <1>1 DEF SettledTurnsAreDecided
<1>7. ASSUME NEW v \in Workers PROVE KnowsHead(v)' /\ KnowsTurn(v)'
  <2>1. CASE v = w
    <3>1. \/ /\ worker'[v].pc = "finish" /\ worker'[v].turn = k
             /\ worker'[v].held = [next |-> "done"] /\ fate = "answered"
          \/ worker'[v].pc = "done"
      BY <2>1, <1>1, <1>2, OnlyOneMoves
    <3> QED BY <3>1, <1>1, <1>4 DEF KnowsHead, KnowsTurn, Serving
  <2>2. CASE v # w
    <3>1. worker'[v] = worker[v] /\ KnowsHead(v) /\ KnowsTurn(v)
      BY <2>2, <1>1, <1>2, OnlyOneMoves DEF IInv
    <3>2. KnowsHead(v)'
      BY <3>1, <1>1 DEF KnowsHead, Busy, IsActive, Newest
    <3>3. KnowsTurn(v)'
      BY <3>1, <1>1, <1>4 DEF KnowsTurn, Serving, IsActive, Newest
    <3> QED BY <3>2, <3>3
  <2> QED BY <2>1, <2>2
<1> QED BY <1>5, <1>6, <1>7 DEF IInv

-----------------------------------------------------------------------------
(* The steps that move the pointer.  An event is appended at a head whose   *)
(* meaning is still known, and never leaves an open turn behind.            *)
Justified(e) ==
    /\ e \in Events
    /\ e.type = "active" => ~Busy
    /\ e.type = "settled" => IsActive(e.turn) /\ outcome'[e.turn] \in {"answered", "cancelled"}

KeepsDecisions ==
    /\ outcome' \in [Positions -> Outcomes]
    /\ \A k \in Positions : outcome'[k] = outcome[k] \/ outcome'[k] = "cancelled"
    /\ \A k \in Positions : outcome[k] = "answered" => outcome'[k] = "answered"

LEMMA StreamGrows ==
    ASSUME IInv, NEW e, Justified(e), KeepsDecisions, pointer' = Append(pointer, e)
    PROVE  pointer' \in Seq(Events) /\ SerialTurns' /\ SettledTurnsAreDecided'
<1>0. pointer \in Seq(Events) /\ e \in Events
  BY DEF IInv, Stores, Justified
<1>1. /\ pointer' \in Seq(Events) /\ Len(pointer') = Len(pointer) + 1 /\ Len(pointer) \in Nat
      /\ \A i \in 1..Len(pointer) : pointer'[i] = pointer[i]
      /\ pointer'[Len(pointer')] = e
  BY <1>0, Appended
<1>2. DOMAIN pointer' = 1..Len(pointer') /\ DOMAIN pointer = 1..Len(pointer)
  BY <1>0, <1>1
<1>3. SerialTurns'
  <2> SUFFICES ASSUME NEW i \in 1..Len(pointer')
               PROVE  LET before == IF i = 1 THEN Settled(0) ELSE pointer'[i - 1] IN
                      IF pointer'[i].type = "active" THEN before.type = "settled"
                                                     ELSE before = Active(pointer'[i].turn)
    BY <1>2 DEF SerialTurns
  <2>1. CASE i \in 1..Len(pointer)
    <3>1. pointer'[i] = pointer[i] /\ (i # 1 => pointer'[i - 1] = pointer[i - 1])
      BY <2>1, <1>1
    <3> QED BY <3>1, <2>1, <1>2 DEF IInv, SerialTurns
  <2>2. CASE i = Len(pointer) + 1 /\ pointer = <<>>
    <3>1. i = 1 /\ pointer'[i] = e
      BY <2>2, <1>1
    <3>2. e.type = "active"
      BY <2>2, <1>0 DEF Justified, IsActive, Events
    <3> QED BY <3>1, <3>2 DEF Settled
  <2>3. CASE i = Len(pointer) + 1 /\ pointer # <<>>
    <3>1. Len(pointer) >= 1 /\ i # 1 /\ i - 1 = Len(pointer)
      BY <2>3, <1>0, <1>1
    <3>2. pointer'[i] = e /\ pointer'[i - 1] = Newest /\ Newest \in Events
      BY <2>3, <3>1, <1>0, <1>1 DEF Newest
    <3>3. e.type = "active" => Newest.type = "settled"
      BY <2>3, <3>2 DEF Justified, Busy, Events
    <3>4. e.type # "active" => Newest = Active(e.turn)
      BY <1>0 DEF Justified, IsActive, Events
    <3> QED BY <3>1, <3>2, <3>3, <3>4
  <2> QED BY <2>1, <2>2, <2>3, <1>1
<1>4. SettledTurnsAreDecided'
  <2> SUFFICES ASSUME NEW i \in 1..Len(pointer'), pointer'[i].type = "settled"
               PROVE  outcome'[pointer'[i].turn] \in {"answered", "cancelled"}
    BY <1>2 DEF SettledTurnsAreDecided
  <2>1. CASE i \in 1..Len(pointer)
    <3>1. pointer'[i] = pointer[i] /\ pointer[i] \in Events
      BY <2>1, <1>0, <1>1
    <3>2. pointer[i].turn \in Positions
      BY <3>1 DEF Events
    <3>3. outcome[pointer[i].turn] \in {"answered", "cancelled"}
      BY <3>1, <2>1, <1>2 DEF IInv, SettledTurnsAreDecided
    <3> QED BY <3>1, <3>2, <3>3 DEF KeepsDecisions
  <2>2. CASE i = Len(pointer) + 1
    BY <2>2, <1>1 DEF Justified
  <2> QED BY <2>1, <2>2, <1>1
<1> QED BY <1>1, <1>3, <1>4

LEMMA OthersStillKnow ==
    ASSUME IInv, NEW e, Justified(e), KeepsDecisions, pointer' = Append(pointer, e),
           \A k \in Positions : IsActive(k) => outcome'[k] # "open",
           NEW v \in Workers, worker'[v] = worker[v]
    PROVE  KnowsHead(v)' /\ KnowsTurn(v)'
<1>0. KnowsHead(v) /\ KnowsTurn(v) /\ pointer \in Seq(Events) /\ e \in Events
  BY DEF IInv, Stores, Justified
<1>1. Len(pointer') = Len(pointer) + 1 /\ Len(pointer) \in Nat
  BY <1>0, Appended
<1>2. KnowsHead(v)'
  BY <1>0, <1>1 DEF KnowsHead
<1>3. KnowsTurn(v)'
  BY <1>0 DEF KnowsTurn, KeepsDecisions, Serving
<1> QED BY <1>2, <1>3

(* A turn once activated is still active, or settled and so decided.        *)
LEMMA ActivatedIsServedOrDecided ==
    ASSUME IInv, NEW k \in Positions, NEW at \in Nat, AlreadyAppended(at, Active(k))
    PROVE  outcome[k] = "open" => IsActive(k)
<1>1. pointer \in Seq(Events) /\ Len(pointer) \in Nat /\ DOMAIN pointer = 1..Len(pointer)
  BY DEF IInv, Stores
<1>2. at < Len(pointer) /\ pointer[at + 1] = Active(k)
  BY DEF AlreadyAppended
<1>3. CASE at + 1 = Len(pointer)
  BY <1>1, <1>2, <1>3 DEF IsActive, Newest
<1>4. CASE at + 1 # Len(pointer)
  <2>1. PICK i \in DOMAIN pointer : i = at + 2
    <3>1. Len(pointer) \in Nat /\ at \in Nat /\ at < Len(pointer) /\ at + 1 # Len(pointer)
      BY <1>1, <1>2, <1>4
    <3>2. at + 2 \in 1..Len(pointer)
      BY <3>1
    <3> QED BY <3>2, <1>1
  <2>2. i # 1 /\ pointer[i] \in Events /\ pointer[i - 1] = Active(k)
    <3>1. i # 1 /\ i - 1 = at + 1
      BY <2>1
    <3> QED BY <3>1, <1>1, <1>2
  <2>3. IF pointer[i].type = "active" THEN pointer[i - 1].type = "settled"
                                      ELSE pointer[i - 1] = Active(pointer[i].turn)
    BY <2>2 DEF IInv, SerialTurns
  <2>4. pointer[i].type = "settled" /\ pointer[i].turn = k
    BY <2>2, <2>3 DEF Active, Events
  <2> QED BY <2>1, <2>4 DEF IInv, SettledTurnsAreDecided
<1> QED BY <1>3, <1>4

LEMMA Activations ==
    ASSUME IInv, NEW w \in Workers, AppendActive(w) PROVE IInv'
<1> USE DEF Conversation
<1> DEFINE k == worker[w].turn  seen == worker[w].held.seen
<1>0. /\ k \in Positions /\ (seen = "answered" => outcome[k] = "answered")
      /\ worker[w].held.at = Len(pointer) => ~Busy
      /\ Stores
  BY DEF IInv, AppendActive, In, KnowsTurn, KnowsHead, Serving
<1>1. CASE Len(pointer) = worker[w].held.at
  <2>1. /\ pointer' = Append(pointer, Active(k)) /\ Hold(w, "activated", k, [seen |-> seen])
        /\ UNCHANGED <<history, outcome>>
    BY <1>1 DEF AppendActive
  <2>2. Justified(Active(k))
    BY <1>0, <1>1 DEF Justified, Active, Events
  <2>3. KeepsDecisions
    BY <2>1, <1>0 DEF KeepsDecisions, Stores
  <2>4. \A t \in Positions : IsActive(t) => outcome'[t] # "open"
    BY <1>0, <1>1 DEF IsActive, Busy, Active
  <2>5. pointer' # <<>> /\ pointer'[Len(pointer')] = Active(k)
    BY <2>1, <2>2, <1>0, Appended DEF Stores, Justified
  <2>6. ASSUME NEW v \in Workers PROVE KnowsHead(v)' /\ KnowsTurn(v)'
    <3>1. CASE v = w
      <4>1. worker'[v].pc = "activated" /\ worker'[v].turn = k /\ worker'[v].held.seen = seen
        BY <3>1, <2>1, <1>0, OnlyOneMoves
      <4>2. IsActive(worker[v].turn)'
        BY <4>1, <2>5 DEF IsActive, Newest, Active
      <4> QED BY <4>1, <4>2, <2>1, <1>0 DEF KnowsHead, KnowsTurn, Serving
    <3>2. CASE v # w
      BY <3>2, <2>1, <2>2, <2>3, <2>4, <1>0, OnlyOneMoves, OthersStillKnow
    <3> QED BY <3>1, <3>2
  <2>7. Stores'
    BY <2>1, <2>2, <2>3, <1>0, StreamGrows, OnlyOneMoves DEF Stores
  <2> QED BY <2>1, <2>2, <2>3, <2>6, <2>7, StreamGrows DEF IInv
<1>2. CASE Len(pointer) # worker[w].held.at
  <2>1. Warranted("start", 0, None)
    BY DEF Warranted, Serving
  <2>2. IsActive(k) => Warranted("activated", k, [seen |-> seen])
    BY <1>0 DEF Warranted, Serving
  <2>3. AlreadyAppended(worker[w].held.at, Active(k)) => Warranted("activated", k, [seen |-> seen])
    <3>1. worker[w].held.at \in Nat
      BY DEF IInv, AppendActive, In, KnowsHead
    <3> QED BY <3>1, <1>0, ActivatedIsServedOrDecided DEF Warranted, Serving
  <2> QED BY <2>1, <2>2, <2>3, <1>2, Moves DEF AppendActive, Fail
<1> QED BY <1>1, <1>2

LEMMA Settlements ==
    ASSUME IInv, NEW w \in Workers, Settle(w) PROVE IInv'
<1> USE DEF Conversation
<1> DEFINE k == worker[w].turn  next == worker[w].held.next
<1>0. /\ k \in Positions /\ outcome[k] = "answered" /\ next \in {"start", "done"}
      /\ worker[w].held.at = Len(pointer) => IsActive(k)
      /\ Stores
  BY DEF IInv, Settle, In, KnowsTurn, KnowsHead, Serving
<1>1. CASE Len(pointer) = worker[w].held.at
  <2>1. /\ pointer' = Append(pointer, Settled(k)) /\ Hold(w, next, k, None)
        /\ UNCHANGED <<history, outcome>>
    BY <1>1 DEF Settle, Goto
  <2>2. Justified(Settled(k))
    BY <1>0, <1>1, <2>1 DEF Justified, Settled, Events
  <2>3. KeepsDecisions
    BY <2>1, <1>0 DEF KeepsDecisions, Stores
  <2>4. \A t \in Positions : IsActive(t) => outcome'[t] # "open"
    BY <2>1, <1>0, <1>1 DEF IsActive, Active
  <2>5. ASSUME NEW v \in Workers PROVE KnowsHead(v)' /\ KnowsTurn(v)'
    <3>1. CASE v = w
      <4>1. worker'[v].pc = next
        BY <3>1, <2>1, <1>0, OnlyOneMoves
      <4> QED BY <4>1, <1>0 DEF KnowsHead, KnowsTurn, Serving
    <3>2. CASE v # w
      BY <3>2, <2>1, <2>2, <2>3, <2>4, <1>0, OnlyOneMoves, OthersStillKnow
    <3> QED BY <3>1, <3>2
  <2>6. Stores'
    BY <2>1, <2>2, <2>3, <1>0, StreamGrows, OnlyOneMoves DEF Stores
  <2> QED BY <2>1, <2>2, <2>3, <2>5, <2>6, StreamGrows DEF IInv
<1>2. CASE Len(pointer) # worker[w].held.at
  <2>1. Warranted("start", 0, None) /\ Warranted(next, k, None)
    BY <1>0 DEF Warranted, Serving
  <2> QED BY <2>1, <1>2, Moves DEF Settle, Fail, Goto
<1> QED BY <1>1, <1>2

LEMMA Stops ==
    ASSUME IInv, Stop PROVE IInv'
<1> DEFINE k == Newest.turn
<1>0. Stores /\ k \in Positions /\ IsActive(k)
  BY NewestActive DEF IInv, Stop, Stores
<1>1. /\ pointer' = Append(pointer, Settled(k)) /\ outcome' = [outcome EXCEPT ![k] = "cancelled"]
      /\ outcome[k] # "answered" /\ UNCHANGED worker
  BY DEF Stop
<1>2. /\ outcome' \in [Positions -> Outcomes] /\ outcome'[k] = "cancelled"
      /\ \A t \in Positions : t # k => outcome'[t] = outcome[t]
  BY <1>0, <1>1 DEF Stores, Outcomes
<1>3. KeepsDecisions
  BY <1>1, <1>2 DEF KeepsDecisions
<1>4. Justified(Settled(k))
  BY <1>0, <1>2 DEF Justified, Settled, Events
<1>5. \A t \in Positions : IsActive(t) => outcome'[t] # "open"
  BY <1>0, <1>2 DEF IsActive, Active
<1>6. history' \in Seq(Entries) /\ Len(history') <= MaxHistory
  <2>1. [kind |-> "stopped"] \in Entries
    BY DEF Entries
  <2> QED BY <2>1, <1>0, ActiveTurnAssumption DEF Stores, Stop
<1>7. Stores'
  BY <1>0, <1>1, <1>2, <1>3, <1>4, <1>6, StreamGrows DEF Stores
<1>8. \A v \in Workers : KnowsHead(v)' /\ KnowsTurn(v)'
  BY <1>1, <1>3, <1>4, <1>5, OthersStillKnow
<1> QED BY <1>1, <1>3, <1>4, <1>7, <1>8, StreamGrows DEF IInv

-----------------------------------------------------------------------------
LEMMA Stutters ==
    ASSUME IInv, UNCHANGED vars PROVE IInv'
<1>1. Stores' /\ SerialTurns' /\ SettledTurnsAreDecided'
  BY DEF IInv, Stores, SerialTurns, SettledTurnsAreDecided, vars
<1>2. \A w \in Workers : KnowsHead(w)' /\ KnowsTurn(w)'
  BY DEF IInv, KnowsHead, KnowsTurn, Busy, IsActive, Newest, vars
<1> QED BY <1>1, <1>2 DEF IInv

LEMMA Preserved == IInv /\ [Next]_vars => IInv'
<1> SUFFICES ASSUME IInv, [Next]_vars PROVE IInv' OBVIOUS
<1>1. CASE UNCHANGED vars
  BY <1>1, Stutters
<1>2. ASSUME NEW w \in Workers, Deliver(w) \/ WorkerStep(w) \/ Crash(w) PROVE IInv'
  <2>1. CASE Deliver(w)
    BY <2>1, Delivers
  <2>2. CASE AppendActive(w)
    BY <2>2, Activations
  <2>3. CASE Settle(w)
    BY <2>3, Settlements
  <2>4. CASE Answer(w) \/ GiveUp(w)
    BY <2>4, Decisions
  <2>5. CASE \/ Start(w) \/ Found(w) \/ Resolve(w) \/ CreateOrRead(w)
             \/ Activate(w) \/ Activated(w) \/ Compare(w) \/ Advance(w) \/ FinishOutput(w)
             \/ Crash(w)
    BY <2>5, LookingSteps
  <2> QED BY <1>2, <2>1, <2>2, <2>3, <2>4, <2>5 DEF WorkerStep
<1>3. CASE Stop
  BY <1>3, Stops
<1>4. CASE Post \/ Tick
  BY <1>4, Surroundings
<1> QED BY <1>1, <1>2, <1>3, <1>4 DEF Next

LEMMA AlwaysIInv == Spec => []IInv
<1> QED BY Initially, Preserved, PTL DEF Spec

(* Turns of a lease are serial: for every number of executions and entries, *)
(* the compare-and-set of _Activate and settle keep the pointer stream an   *)
(* alternation of a turn and its own settlement.                            *)
THEOREM TurnsAreSerial == Spec => []SerialTurns
<1>1. IInv => SerialTurns
  BY DEF IInv
<1> QED BY <1>1, AlwaysIInv, PTL

(* A lease is released for its next entry only by an answer or a Stop.      *)
THEOREM ReleaseFollowsDecision == Spec => []SettledTurnsAreDecided
<1>1. IInv => SettledTurnsAreDecided
  BY DEF IInv
<1> QED BY <1>1, AlwaysIInv, PTL

(* Whoever answers, gives up or stops a turn finds it active: an execution  *)
(* that lags behind decides nothing.                                        *)
THEOREM LaggardsDecideNothing == Spec => OnlyTheActiveTurnIsDecided
<1>1. IInv /\ [Next]_vars =>
        [\A k \in Positions : outcome[k] = "open" /\ outcome'[k] # "open" => IsActive(k)]_vars
  <2> SUFFICES ASSUME IInv, Next, NEW k \in Positions, outcome[k] = "open", outcome'[k] # "open"
               PROVE  IsActive(k)
    OBVIOUS
  <2>0. outcome \in [Positions -> Outcomes]
    BY DEF IInv, Stores
  <2>1. ASSUME NEW w \in Workers, Deliver(w) \/ WorkerStep(w) \/ Crash(w) PROVE IsActive(k)
    <3>1. CASE Answer(w) \/ GiveUp(w)
      <4>1. IsActive(worker[w].turn) /\ worker[w].turn \in Positions
        BY <3>1 DEF IInv, Answer, GiveUp, In, KnowsTurn, Serving
      <4>2. k = worker[w].turn
        BY <3>1, <2>0, <4>1 DEF Answer, GiveUp
      <4> QED BY <4>1, <4>2
    <3>2. CASE ~(Answer(w) \/ GiveUp(w))
      <4>1. UNCHANGED outcome
        BY <2>1, <3>2 DEF WorkerStep, Deliver, Start, Found, Resolve, CreateOrRead, Activate,
             AppendActive, Activated, Compare, Advance, FinishOutput, Settle, Crash, Conversation
      <4> QED BY <4>1
    <3> QED BY <3>1, <3>2
  <2>2. CASE Stop
    <3>1. IsActive(Newest.turn) /\ Newest.turn \in Positions
      BY <2>2, NewestActive DEF IInv, Stores, Stop
    <3>2. k = Newest.turn
      BY <2>2, <2>0, <3>1 DEF Stop
    <3> QED BY <3>1, <3>2
  <2>3. CASE Post \/ Tick
    BY <2>3 DEF Post, Tick
  <2> QED BY <2>1, <2>2, <2>3 DEF Next
<1>2. Spec => [][\A k \in Positions : outcome[k] = "open" /\ outcome'[k] # "open" => IsActive(k)]_vars
  BY <1>1, AlwaysIInv, PTL DEF Spec
<1> QED BY <1>2 DEF OnlyTheActiveTurnIsDecided

-----------------------------------------------------------------------------
(* What a turn was compiled from.  FrozenForTheNewestEntry speaks of the    *)
(* frozen turns alone; an execution resolves its candidate at one moment    *)
(* and freezes it at another, so the invariant follows the candidate, and   *)
(* knows that an answer is recorded after its entry.                        *)

(* In the first r events, k is the newest entry that nobody had answered.   *)
Compiled(k, r) ==
    /\ r \in k..Len(history) /\ history[k].kind = "human"
    /\ \A other \in k + 1..r : history[other].kind = "human" =>
          \E a \in other..r : history[a] = [kind |-> "answer", to |-> other]

AnswersFollowEntries == \A a \in DOMAIN history : history[a].kind = "answer" => history[a].to <= a

CompiledAsOnce(w) == worker[w].pc = "create" => Compiled(worker[w].turn, worker[w].held.revision)

TurnsAreRecorded ==
    /\ \A i \in DOMAIN pointer : pointer[i].turn <= Len(history)
    /\ \A w \in Workers : worker[w].pc \in Serving => worker[w].turn <= Len(history)

FInv ==
    /\ left \in 0..LeaseSeconds /\ faults \in 0..MaxFaults /\ DOMAIN frozen = Positions
    /\ \A k \in Positions : frozen[k] = None \/ Compiled(k, frozen[k].revision)
    /\ \A w \in Workers : CompiledAsOnce(w)
    /\ AnswersFollowEntries /\ TurnsAreRecorded

(* The conversation is only appended to.                                    *)
HistoryKept ==
    /\ Len(history) \in Nat /\ Len(history') \in Nat /\ Len(history) <= Len(history')
    /\ \A i \in 1..Len(history) : history'[i] = history[i]

(* An append leaves what a turn was compiled from.                          *)
LEMMA CompiledStays ==
    ASSUME HistoryKept, NEW k \in Positions, NEW r, Compiled(k, r) PROVE Compiled(k, r)'
<1>1. k \in Nat /\ 1 <= k /\ r \in Nat /\ k <= r /\ r <= Len(history)
  BY ActiveTurnAssumption DEF Positions, HistoryKept, Compiled
<1>2. r \in k..Len(history') /\ history'[k] = history[k]
  BY <1>1 DEF HistoryKept
<1>3. \A other \in k + 1..r : \A a \in other..r :
        history'[other] = history[other] /\ history'[a] = history[a]
  BY <1>1 DEF HistoryKept
<1>4. ASSUME NEW other \in k + 1..r, history'[other].kind = "human"
      PROVE  \E a \in other..r : history'[a] = [kind |-> "answer", to |-> other]
  <2>1. other \in other..r
    BY <1>1
  <2>2. history[other].kind = "human"
    BY <1>3, <1>4, <2>1
  <2>3. PICK a \in other..r : history[a] = [kind |-> "answer", to |-> other]
    BY <2>2 DEF Compiled
  <2> QED BY <1>3, <2>3
<1> QED BY <1>2, <1>4 DEF Compiled

(* Every step appends at most one event to the conversation, and an answer  *)
(* only for an entry that is there.                                         *)
LEMMA HistoryGrows ==
    ASSUME IInv, FInv, [Next]_vars PROVE HistoryKept /\ AnswersFollowEntries'
<1>1. history \in Seq(Entries) /\ Len(history) \in Nat /\ DOMAIN history = 1..Len(history)
  BY DEF IInv, Stores
<1>2. CASE UNCHANGED history
  BY <1>1, <1>2 DEF HistoryKept, FInv, AnswersFollowEntries
<1>3. ASSUME NEW e \in Entries, history' = Append(history, e), e.kind = "answer" => e.to <= Len(history)
      PROVE  HistoryKept /\ AnswersFollowEntries'
  <2>1. /\ Len(history') = Len(history) + 1 /\ DOMAIN history' = 1..Len(history) + 1
        /\ history'[Len(history) + 1] = e
        /\ \A i \in 1..Len(history) : history'[i] = history[i]
    BY <1>1, <1>3
  <2>2. ASSUME NEW a \in 1..Len(history) + 1, history'[a].kind = "answer" PROVE history'[a].to <= a
    <3>1. CASE a \in 1..Len(history)
      BY <2>1, <2>2, <3>1, <1>1 DEF FInv, AnswersFollowEntries
    <3>2. CASE a = Len(history) + 1
      <4>1. e.kind = "answer" /\ e.to \in Positions
        BY <2>1, <2>2, <3>2 DEF Entries
      <4>2. e.to \in Nat /\ e.to <= Len(history)
        BY <4>1, <1>3, ActiveTurnAssumption DEF Positions
      <4> QED BY <4>2, <2>1, <3>2, <1>1
    <3> QED BY <3>1, <3>2, <1>1
  <2> QED BY <2>1, <2>2, <1>1 DEF HistoryKept, AnswersFollowEntries
<1>4. CASE Stop
  <2>1. [kind |-> "stopped"] \in Entries
    BY DEF Entries
  <2> QED BY <1>3, <1>4, <2>1 DEF Stop
<1>5. CASE Post
  <2>1. PICK kind \in {"human", "other"} : history' = Append(history, [kind |-> kind])
    BY <1>5 DEF Post
  <2>2. [kind |-> kind] \in Entries
    BY DEF Entries
  <2> QED BY <1>3, <2>1, <2>2
<1>6. ASSUME NEW w \in Workers, Answer(w) PROVE HistoryKept /\ AnswersFollowEntries'
  <2>1. worker[w].turn \in Positions /\ worker[w].turn <= Len(history)
    BY <1>6 DEF Answer, In, IInv, KnowsTurn, FInv, TurnsAreRecorded, Serving
  <2>2. [kind |-> "answer", to |-> worker[w].turn] \in Entries
    BY <2>1 DEF Entries
  <2> QED BY <1>3, <1>6, <2>1, <2>2 DEF Answer
<1>7. ASSUME NEW w \in Workers, Deliver(w) \/ WorkerStep(w) \/ Crash(w), ~Answer(w)
      PROVE  UNCHANGED history
  BY <1>7 DEF WorkerStep, Deliver, Start, Found, Resolve, CreateOrRead, Activate,
     AppendActive, Activated, Compare, Advance, GiveUp, FinishOutput, Settle, Crash, Conversation
<1> QED BY <1>2, <1>4, <1>5, <1>6, <1>7 DEF Next, Tick, vars

-----------------------------------------------------------------------------
(* What a step has to leave behind when the history only grows.             *)
ScalarsBounded == left \in 0..LeaseSeconds /\ faults \in 0..MaxFaults /\ DOMAIN frozen = Positions

FrozenCompiled == \A k \in Positions : frozen[k] = None \/ Compiled(k, frozen[k].revision)

PointerRecorded == \A i \in DOMAIN pointer : pointer[i].turn <= Len(history)

Supplied(pc, turn, held) ==
    /\ pc = "create" => turn \in Positions /\ Compiled(turn, held.revision)
    /\ pc \in Serving => turn \in Positions /\ turn <= Len(history)

LEMMA FrozenStays ==
    ASSUME FInv, HistoryKept, UNCHANGED frozen PROVE FrozenCompiled'
<1> SUFFICES ASSUME NEW k \in Positions, frozen[k] # None
             PROVE  Compiled(k, frozen[k].revision)'
  BY DEF FrozenCompiled
<1>1. PICK r : r = frozen[k].revision OBVIOUS
<1>2. Compiled(k, r)
  BY <1>1 DEF FInv
<1>3. Compiled(k, r)'
  BY <1>2, CompiledStays
<1> QED BY <1>1, <1>3 DEF Compiled

LEMMA PointerStays ==
    ASSUME IInv, FInv, HistoryKept,
           \/ UNCHANGED pointer
           \/ \E e \in Events : pointer' = Append(pointer, e) /\ e.turn <= Len(history)
    PROVE  PointerRecorded'
<1>0. pointer \in Seq(Events) /\ DOMAIN pointer = 1..Len(pointer) /\ Len(pointer) \in Nat
  BY DEF IInv, Stores
<1>1. \A turn \in Positions : turn <= Len(history) => turn <= Len(history')
  BY ActiveTurnAssumption DEF HistoryKept, Positions
<1>2. \A i \in DOMAIN pointer : pointer[i].turn \in Positions /\ pointer[i].turn <= Len(history)
  <2>1. \A i \in DOMAIN pointer : pointer[i] \in Events
    BY <1>0
  <2> QED BY <2>1 DEF Events, FInv, TurnsAreRecorded
<1>3. CASE UNCHANGED pointer
  BY <1>1, <1>2, <1>3 DEF PointerRecorded
<1>4. ASSUME NEW e \in Events, pointer' = Append(pointer, e), e.turn <= Len(history)
      PROVE  PointerRecorded'
  <2>1. /\ DOMAIN pointer' = 1..Len(pointer) + 1 /\ pointer'[Len(pointer) + 1] = e
        /\ \A i \in 1..Len(pointer) : pointer'[i] = pointer[i]
    <3>1. /\ pointer' \in Seq(Events) /\ Len(pointer') = Len(pointer) + 1
          /\ \A i \in 1..Len(pointer) : pointer'[i] = pointer[i]
          /\ pointer'[Len(pointer')] = e
      BY <1>0, <1>4, Appended
    <3> QED BY <3>1
  <2>2. e.turn \in Positions
    BY DEF Events
  <2>3. ASSUME NEW i \in 1..Len(pointer) + 1 PROVE pointer'[i].turn <= Len(history')
    <3>1. CASE i \in 1..Len(pointer)
      BY <3>1, <2>1, <1>0, <1>1, <1>2
    <3>2. CASE i = Len(pointer) + 1
      BY <3>2, <2>1, <2>2, <1>1, <1>4
    <3> QED BY <3>1, <3>2, <1>0
  <2> QED BY <2>1, <2>3 DEF PointerRecorded
<1> QED BY <1>3, <1>4

(* An execution that does not move keeps its candidate.                     *)
LEMMA CandidateStays ==
    ASSUME IInv, FInv, HistoryKept, NEW v \in Workers, worker'[v] = worker[v]
    PROVE  /\ CompiledAsOnce(v)'
           /\ worker'[v].pc \in Serving => worker'[v].turn <= Len(history')
<1>1. worker[v].pc \in Serving => worker[v].turn \in Positions /\ worker[v].turn <= Len(history)
  BY DEF IInv, KnowsTurn, FInv, TurnsAreRecorded
<1>2. worker[v].pc \in Serving => worker[v].turn <= Len(history')
  BY <1>1, ActiveTurnAssumption DEF HistoryKept, Positions
<1>3. CompiledAsOnce(v)'
  <2> SUFFICES ASSUME worker[v].pc = "create"
               PROVE  Compiled(worker[v].turn, worker[v].held.revision)'
    BY DEF CompiledAsOnce
  <2>1. PICK k, r : k = worker[v].turn /\ r = worker[v].held.revision OBVIOUS
  <2>2. k \in Positions /\ Compiled(k, r)
    BY <2>1, <1>1 DEF FInv, CompiledAsOnce, Serving
  <2>3. Compiled(k, r)'
    BY <2>2, CompiledStays
  <2> QED BY <2>1, <2>3 DEF Compiled
<1> QED BY <1>2, <1>3

LEMMA Progressed ==
    ASSUME IInv, FInv, HistoryKept, AnswersFollowEntries', ScalarsBounded', FrozenCompiled',
           PointerRecorded',
           \A v \in Workers :
              \/ worker'[v] = worker[v]
              \/ \E pc, turn, held : /\ Supplied(pc, turn, held)
                                     /\ worker'[v].pc = pc /\ worker'[v].turn = turn
                                     /\ worker'[v].held = held
    PROVE  FInv'
<1>1. ASSUME NEW v \in Workers
      PROVE  /\ CompiledAsOnce(v)'
             /\ worker'[v].pc \in Serving => worker'[v].turn <= Len(history')
  <2>1. CASE worker'[v] = worker[v]
    BY <2>1, CandidateStays
  <2>2. CASE worker'[v] # worker[v]
    <3>1. PICK pc, turn, held : /\ Supplied(pc, turn, held)
                                /\ worker'[v].pc = pc /\ worker'[v].turn = turn
                                /\ worker'[v].held = held
      BY <2>2
    <3>2. pc \in Serving => turn <= Len(history')
      BY <3>1, ActiveTurnAssumption DEF Supplied, HistoryKept, Positions
    <3>3. ASSUME pc = "create" PROVE Compiled(worker[v].turn, worker[v].held.revision)'
      <4>1. PICK r : r = held.revision OBVIOUS
      <4>2. Compiled(turn, r)'
        BY <3>1, <3>3, <4>1, CompiledStays DEF Supplied
      <4> QED BY <3>1, <4>1, <4>2 DEF Compiled
    <3> QED BY <3>1, <3>2, <3>3 DEF CompiledAsOnce
  <2> QED BY <2>1, <2>2
<1> QED BY <1>1 DEF FInv, ScalarsBounded, FrozenCompiled, PointerRecorded, TurnsAreRecorded

(* A step that moves one execution, and nothing it was compiled from.       *)
LEMMA OneProgressed ==
    ASSUME IInv, FInv, HistoryKept, AnswersFollowEntries', ScalarsBounded', FrozenCompiled',
           PointerRecorded', NEW w \in Workers, NEW pc, NEW turn, NEW held,
           Hold(w, pc, turn, held), Supplied(pc, turn, held)
    PROVE  FInv'
<1>1. /\ worker'[w].pc = pc /\ worker'[w].turn = turn /\ worker'[w].held = held
      /\ \A v \in Workers : v # w => worker'[v] = worker[v]
  BY OnlyOneMoves DEF IInv
<1>2. ASSUME NEW v \in Workers
      PROVE  \/ worker'[v] = worker[v]
             \/ \E p, t, h : /\ Supplied(p, t, h)
                             /\ worker'[v].pc = p /\ worker'[v].turn = t
                             /\ worker'[v].held = h
  BY <1>1
<1> QED BY <1>2, Progressed

-----------------------------------------------------------------------------
LEMMA InitiallyFrozen == Init => FInv
<1> SUFFICES ASSUME Init PROVE FInv OBVIOUS
<1>1. left \in 0..LeaseSeconds /\ faults \in 0..MaxFaults
  BY ActiveTurnAssumption DEF Init
<1>2. \A w \in Workers : CompiledAsOnce(w) /\ worker[w].pc \notin Serving
  BY DEF Init, Idle, CompiledAsOnce, Serving
<1>3. DOMAIN frozen = Positions /\ \A k \in Positions : frozen[k] = None
  BY DEF Init
<1>4. DOMAIN pointer = {} /\ DOMAIN history = {}
  BY DEF Init
<1> QED BY <1>1, <1>2, <1>3, <1>4 DEF FInv, AnswersFollowEntries, TurnsAreRecorded

(* resolveForWorkflow compiles at the head, where every entry after the     *)
(* newest unanswered one has its answer, and has it later.                  *)
LEMMA NewestIsCompiled ==
    ASSUME IInv, FInv, NEW k \in Positions, NewestPending(k)
    PROVE  Compiled(k, HeadRevision) /\ k <= Len(history)
<1>1. /\ history \in Seq(Entries) /\ Len(history) \in Nat /\ DOMAIN history = 1..Len(history)
      /\ k \in DOMAIN history /\ history[k].kind = "human"
  BY DEF IInv, Stores, NewestPending, Unanswered
<1>2. ASSUME NEW other \in k + 1..Len(history), history[other].kind = "human"
      PROVE  \E a \in other..Len(history) : history[a] = [kind |-> "answer", to |-> other]
  <2>1. other \in DOMAIN history /\ k \in Nat /\ other \in Nat /\ k < other
    BY <1>1, <1>2
  <2>2. other \notin Unanswered
    BY <2>1 DEF NewestPending
  <2>3. PICK a \in DOMAIN history : history[a] = [kind |-> "answer", to |-> other]
    BY <1>2, <2>1, <2>2 DEF Unanswered
  <2>4. other <= a
    BY <2>3 DEF FInv, AnswersFollowEntries
  <2> QED BY <2>1, <2>3, <2>4, <1>1
<1> QED BY <1>1, <1>2 DEF Compiled, HeadRevision

(* The steps of an execution that freeze nothing and append no event.       *)
LEMMA FreezeNothing ==
    ASSUME IInv, FInv, NEW w \in Workers,
           \/ Start(w) \/ Found(w) \/ Resolve(w) \/ Activate(w) \/ Activated(w) \/ Compare(w)
           \/ Advance(w) \/ FinishOutput(w) \/ Crash(w)
    PROVE  FInv'
<1> USE DEF Goto, Fail, Conversation
<1> DEFINE k == worker[w].turn
<1>0. worker[w].pc \in Serving => k \in Positions /\ k <= Len(history)
  BY DEF IInv, KnowsTurn, FInv, TurnsAreRecorded
<1>1. /\ UNCHANGED <<history, frozen, pointer, left>>
      /\ faults' \in 0..MaxFaults
  <2>1. CASE Crash(w)
    BY <2>1, ActiveTurnAssumption DEF FInv, Crash
  <2>2. CASE ~Crash(w)
    BY <2>2 DEF FInv, Start, Found, Resolve, Activate, Activated, Compare, Advance, FinishOutput
  <2> QED BY <2>1, <2>2
<1>2. HistoryKept /\ AnswersFollowEntries' /\ ScalarsBounded' /\ FrozenCompiled' /\ PointerRecorded'
  <2>1. Len(history) \in Nat
    BY DEF IInv, Stores
  <2>2. HistoryKept /\ AnswersFollowEntries' /\ ScalarsBounded'
    BY <1>1, <2>1 DEF FInv, AnswersFollowEntries, HistoryKept, ScalarsBounded
  <2> QED BY <1>1, <2>2, FrozenStays, PointerStays
<1>3. ASSUME NEW pc, NEW turn, NEW held, Hold(w, pc, turn, held), Supplied(pc, turn, held)
      PROVE  FInv'
  BY <1>2, <1>3, OneProgressed
<1>4. Supplied("start", 0, None) /\ Supplied("done", k, None) /\ Supplied("start", k, None)
      /\ Supplied("resolve", k, None)
  BY DEF Supplied, Serving
<1>5. CASE worker[w].pc \in Serving /\ ~Crash(w)
  <2>1. ASSUME NEW held PROVE /\ Supplied("finish", k, held) /\ Supplied("compare", k, held)
                              /\ Supplied("advance", k, held) /\ Supplied("activated", k, held)
                              /\ Supplied("append", k, held) /\ Supplied("settle", k, held)
    BY <1>0, <1>5 DEF Supplied, Serving
  <2>2. outcome[k] \in {"open", "answered", "unavailable", "cancelled"}
    BY <1>0, <1>5 DEF IInv, Stores, Outcomes
  <2>3. CASE Found(w)
    BY <2>3, <2>1, <2>2, <1>3, <1>4 DEF Found
  <2>4. CASE Activate(w)
    BY <2>4, <2>1, <1>3, <1>4 DEF Activate
  <2>5. CASE Activated(w)
    BY <2>5, <2>1, <1>3, <1>4 DEF Activated
  <2>6. CASE Compare(w)
    BY <2>6, <2>1, <1>3, <1>4 DEF Compare
  <2>7. CASE Advance(w)
    BY <2>7, <2>1, <2>2, <1>3, <1>4 DEF Advance
  <2>8. CASE FinishOutput(w)
    <3>1. worker[w].held.next \in {"start", "done"}
      BY <2>8 DEF IInv, KnowsTurn, FinishOutput, In
    <3>2. Supplied(worker[w].held.next, k, None)
      BY <3>1, <1>4
    <3> QED BY <2>8, <3>2, <2>1, <1>3, <1>4 DEF FinishOutput
  <2> QED BY <2>3, <2>4, <2>5, <2>6, <2>7, <2>8, <1>5 DEF Start, Resolve, In, Serving
<1>6. CASE Start(w)
  <2>1. CASE Busy
    <3>1. PICK turn : turn = Newest.turn OBVIOUS
    <3>2. turn \in Positions /\ turn <= Len(history)
      <4>1. Len(pointer) \in Nat /\ DOMAIN pointer = 1..Len(pointer) /\ pointer # <<>>
        BY <2>1 DEF Busy, IInv, Stores
      <4>2. Len(pointer) \in DOMAIN pointer
        BY <4>1 DEF IInv, Stores
      <4> QED BY <2>1, <3>1, <4>2, NewestActive DEF IInv, Stores, FInv, TurnsAreRecorded, Newest
    <3>3. Supplied("found", turn, None)
      BY <3>2 DEF Supplied
    <3> QED BY <1>6, <2>1, <3>1, <3>3, <1>3 DEF Start
  <2>2. CASE ~Busy
    BY <1>6, <2>2, <1>3, <1>4 DEF Start
  <2> QED BY <2>1, <2>2
<1>7. CASE Resolve(w)
  <2>1. CASE left = 0
    BY <1>7, <2>1, <1>3, <1>4 DEF Resolve
  <2>2. CASE left # 0 /\ Goto(w, "done")
    BY <2>2, <1>3, <1>4
  <2>3. ASSUME NEW t \in Positions, NEW lifetime, NewestPending(t),
               Hold(w, "create", t, [revision |-> HeadRevision, lifetime |-> lifetime])
        PROVE  FInv'
    <3>1. Compiled(t, HeadRevision) /\ t <= Len(history)
      BY <2>3, NewestIsCompiled
    <3>2. PICK held : held = [revision |-> HeadRevision, lifetime |-> lifetime] OBVIOUS
    <3>3. held.revision = HeadRevision
      BY <3>2
    <3>4. Supplied("create", t, held)
      BY <3>1, <3>3 DEF Supplied
    <3>5. Hold(w, "create", t, held)
      BY <2>3, <3>2
    <3> QED BY <3>4, <3>5, <1>3
  <2> QED BY <1>7, <2>1, <2>2, <2>3 DEF Resolve
<1>8. CASE Crash(w)
  BY <1>8, <1>3, <1>4 DEF Crash
<1> QED BY <1>5, <1>6, <1>7, <1>8 DEF Found, Activate, Activated, Compare, Advance, FinishOutput,
     In, Serving

(* createOrRead freezes what the execution compiled, once.                  *)
LEMMA Freezes ==
    ASSUME IInv, FInv, NEW w \in Workers, CreateOrRead(w) PROVE FInv'
<1> USE DEF Fail
<1> DEFINE k == worker[w].turn
<1>1. /\ k \in Positions /\ k <= Len(history) /\ Compiled(k, worker[w].held.revision)
      /\ UNCHANGED <<history, pointer, left, faults>>
  BY DEF IInv, KnowsTurn, FInv, TurnsAreRecorded, CompiledAsOnce, CreateOrRead, In, Serving
<1>2. HistoryKept /\ AnswersFollowEntries' /\ PointerRecorded'
  <2>1. Len(history) \in Nat
    BY DEF IInv, Stores
  <2>2. HistoryKept /\ AnswersFollowEntries'
    BY <1>1, <2>1 DEF FInv, AnswersFollowEntries, HistoryKept
  <2> QED BY <1>1, <2>2, PointerStays
<1>3. ScalarsBounded' /\ FrozenCompiled'
  <2>1. CASE UNCHANGED frozen
    BY <1>1, <1>2, <2>1, FrozenStays DEF FInv, ScalarsBounded
  <2>2. CASE frozen' = [frozen EXCEPT ![k] = worker[w].held]
    <3>1. ScalarsBounded'
      BY <1>1, <2>2 DEF FInv, ScalarsBounded
    <3>2. ASSUME NEW t \in Positions, frozen'[t] # None PROVE Compiled(t, frozen[t].revision)'
      <4>1. PICK r : r = IF t = k THEN worker[w].held.revision ELSE frozen[t].revision OBVIOUS
      <4>2. r = frozen'[t].revision
        BY <4>1, <2>2 DEF FInv
      <4>3. Compiled(t, r)
        BY <1>1, <4>1, <3>2, <2>2 DEF FInv
      <4>4. Compiled(t, r)'
        BY <4>3, <1>2, CompiledStays
      <4> QED BY <4>2, <4>4 DEF Compiled
    <3> QED BY <3>1, <3>2 DEF FrozenCompiled
  <2> QED BY <2>1, <2>2 DEF CreateOrRead
<1>4. /\ Supplied("start", 0, None) /\ Supplied("activate", k, [seen |-> "open"])
      /\ Supplied("activate", k, [seen |-> outcome[k]])
  BY <1>1 DEF Supplied, Serving
<1>5. ASSUME NEW pc, NEW turn, NEW held, Hold(w, pc, turn, held), Supplied(pc, turn, held)
      PROVE  FInv'
  BY <1>2, <1>3, <1>5, OneProgressed
<1> QED BY <1>4, <1>5 DEF CreateOrRead

(* The steps that append an event, to one stream or the other.              *)
LEMMA Appends ==
    ASSUME IInv, FInv, NEW w \in Workers,
           AppendActive(w) \/ Settle(w) \/ Answer(w) \/ GiveUp(w)
    PROVE  FInv'
<1> USE DEF Goto, Fail, Conversation
<1> DEFINE k == worker[w].turn
<1>1. k \in Positions /\ k <= Len(history)
  BY DEF IInv, KnowsTurn, FInv, TurnsAreRecorded, AppendActive, Settle, Answer, GiveUp, In, Serving
<1>2. HistoryKept /\ AnswersFollowEntries'
  BY HistoryGrows DEF Next, WorkerStep
<1>3. UNCHANGED <<frozen, left, faults>>
  BY DEF AppendActive, Settle, Answer, GiveUp
<1>4. ScalarsBounded' /\ FrozenCompiled'
  BY <1>2, <1>3, FrozenStays DEF FInv, ScalarsBounded
<1>5. PointerRecorded'
  <2>1. UNCHANGED pointer \/ pointer' = Append(pointer, Active(k)) \/ pointer' = Append(pointer, Settled(k))
    BY DEF AppendActive, Settle, Answer, GiveUp
  <2>2. /\ Active(k) \in Events /\ Active(k).turn <= Len(history)
        /\ Settled(k) \in Events /\ Settled(k).turn <= Len(history)
    BY <1>1 DEF Active, Settled, Events
  <2> QED BY <1>2, <2>1, <2>2, PointerStays
<1>6. ASSUME NEW pc, NEW turn, NEW held, Hold(w, pc, turn, held), Supplied(pc, turn, held)
      PROVE  FInv'
  BY <1>2, <1>4, <1>5, <1>6, OneProgressed
<1>7. /\ Supplied("start", 0, None) /\ Supplied("start", k, None) /\ Supplied("done", k, None)
      /\ \A held : Supplied("activated", k, held) /\ Supplied("finish", k, held)
  BY <1>1 DEF Supplied, Serving
<1>8. CASE AppendActive(w)
  BY <1>8, <1>6, <1>7 DEF AppendActive
<1>9. CASE Settle(w)
  <2>1. worker[w].held.next \in {"start", "done"}
    BY <1>9 DEF IInv, KnowsTurn, Settle, In
  <2>2. Supplied(worker[w].held.next, k, None)
    BY <2>1, <1>7
  <2> QED BY <1>9, <2>2, <1>6, <1>7 DEF Settle
<1>10. CASE Answer(w) \/ GiveUp(w)
  BY <1>10, <1>6, <1>7 DEF Answer, GiveUp
<1> QED BY <1>8, <1>9, <1>10

(* A task begins, other writers, time.                                      *)
LEMMA SurroundingsFreezeNothing ==
    ASSUME IInv, FInv, \/ \E w \in Workers : Deliver(w)
                       \/ Stop \/ Post \/ Tick \/ UNCHANGED vars
    PROVE  FInv'
<1>1. HistoryKept /\ AnswersFollowEntries'
  BY HistoryGrows DEF Next
<1>2. ScalarsBounded' /\ FrozenCompiled'
  <2>1. UNCHANGED <<frozen, faults>> /\ left' \in 0..LeaseSeconds
    <3>1. CASE Tick
      BY <3>1, ActiveTurnAssumption DEF FInv, Tick
    <3>2. CASE ~Tick
      BY <3>2 DEF FInv, Deliver, Conversation, Stop, Post, vars
    <3> QED BY <3>1, <3>2 DEF Tick, Deliver, Conversation, Stop, Post, vars
  <2> QED BY <2>1, <1>1, FrozenStays DEF FInv, ScalarsBounded
<1>3. PointerRecorded'
  <2>1. CASE Stop
    <3>1. Newest.turn \in Positions /\ IsActive(Newest.turn)
      BY <2>1, NewestActive DEF Stop, IInv, Stores
    <3>2. Len(pointer) \in DOMAIN pointer
      BY <2>1 DEF Stop, Busy, IInv, Stores
    <3>3. Newest.turn <= Len(history)
      BY <3>2 DEF FInv, TurnsAreRecorded, Newest
    <3>4. Settled(Newest.turn) \in Events /\ Settled(Newest.turn).turn <= Len(history)
      BY <3>1, <3>3 DEF Settled, Events
    <3> QED BY <2>1, <3>4, <1>1, PointerStays DEF Stop
  <2>2. CASE UNCHANGED pointer
    BY <2>2, <1>1, PointerStays
  <2> QED BY <2>1, <2>2 DEF Deliver, Post, Tick, vars
<1>4. CASE UNCHANGED worker
  BY <1>1, <1>2, <1>3, <1>4, Progressed
<1>5. ASSUME NEW w \in Workers, Deliver(w) PROVE FInv'
  <2>1. PICK c : worker' = [worker EXCEPT ![w] = [pc |-> "start", cause |-> c, turn |-> 0, held |-> None]]
    BY <1>5 DEF Deliver
  <2>2. /\ worker'[w].pc = "start" /\ worker'[w].turn = 0 /\ worker'[w].held = None
        /\ \A v \in Workers : v # w => worker'[v] = worker[v]
    BY <2>1 DEF IInv, Stores
  <2>3. Supplied("start", 0, None)
    BY DEF Supplied, Serving
  <2>4. ASSUME NEW v \in Workers
        PROVE  \/ worker'[v] = worker[v]
               \/ \E pc, turn, held : /\ Supplied(pc, turn, held)
                                      /\ worker'[v].pc = pc /\ worker'[v].turn = turn
                                      /\ worker'[v].held = held
    BY <2>2, <2>3
  <2> QED BY <1>1, <1>2, <1>3, <2>4, Progressed
<1> QED BY <1>4, <1>5 DEF Stop, Post, Tick, vars

LEMMA PreservesFrozen == IInv /\ FInv /\ [Next]_vars => FInv'
<1> SUFFICES ASSUME IInv, FInv, [Next]_vars PROVE FInv' OBVIOUS
<1>1. ASSUME NEW w \in Workers, WorkerStep(w) \/ Crash(w) PROVE FInv'
  <2>1. CASE CreateOrRead(w)
    BY <2>1, Freezes
  <2>2. CASE AppendActive(w) \/ Settle(w) \/ Answer(w) \/ GiveUp(w)
    BY <2>2, Appends
  <2>3. CASE \/ Start(w) \/ Found(w) \/ Resolve(w) \/ Activate(w) \/ Activated(w) \/ Compare(w)
             \/ Advance(w) \/ FinishOutput(w) \/ Crash(w)
    BY <2>3, FreezeNothing
  <2> QED BY <1>1, <2>1, <2>2, <2>3 DEF WorkerStep
<1>2. CASE (\E w \in Workers : Deliver(w)) \/ Stop \/ Post \/ Tick \/ UNCHANGED vars
  BY <1>2, SurroundingsFreezeNothing
<1> QED BY <1>1, <1>2 DEF Next

LEMMA AlwaysFInv == Spec => []FInv
<1> QED BY InitiallyFrozen, PreservesFrozen, AlwaysIInv, PTL DEF Spec

(* The frozen turn of an entry was compiled from a history that holds the   *)
(* entry, and the streams stay what the readers of the lease accept.        *)
THEOREM TypeCorrect == Spec => []TypeOK
<1>1. IInv /\ FInv => TypeOK
  <2> SUFFICES ASSUME IInv, FInv PROVE TypeOK OBVIOUS
  <2>1. \A k \in Positions : frozen[k] = None \/ frozen[k].revision \in k..Len(history)
    BY DEF FInv, Compiled
  <2> QED BY <2>1 DEF IInv, Stores, FInv, TypeOK, Outcomes, Events
<1> QED BY <1>1, AlwaysIInv, AlwaysFInv, PTL

(* A turn is frozen for the newest entry that nobody had answered in the    *)
(* very history it was compiled from, for every number of executions that   *)
(* resolve, crash and freeze while people write and others answer.          *)
THEOREM FreezesTheNewest == Spec => []FrozenForTheNewestEntry
<1>1. FInv => FrozenForTheNewestEntry
  BY DEF FInv, Compiled, FrozenForTheNewestEntry
<1> QED BY <1>1, AlwaysFInv, PTL

-----------------------------------------------------------------------------
(* The refinement of LeaseTurns: a step that appends no event to the        *)
(* pointer and decides no turn is invisible; the others are Serve, Release, *)
(* Answer, GiveUp and Stop of the turn that the stream ends with.           *)
LEMMA ServesOne ==
    ASSUME pointer \in Seq(Events), NEW k \in Positions, IsActive(k) PROVE ServedTurns = {k}
  BY DEF IsActive, ServedTurns, Busy, Active

LEMMA EventSeen ==
    ASSUME pointer \in Seq(Events), NEW e \in Events, pointer' = Append(pointer, e)
    PROVE  ServedTurns' = IF e.type = "active" THEN {e.turn} ELSE {}
  BY Appended DEF ServedTurns, Busy, Newest

LEMMA StepRefines ==
    ASSUME IInv, [Next]_vars PROVE [Lease!Next]_<<ServedTurns, outcome>>
<1>0. pointer \in Seq(Events)
  BY DEF IInv, Stores
<1>1. CASE UNCHANGED <<pointer, outcome>>
  BY <1>1 DEF ServedTurns, Busy, Newest
<1>2. ASSUME NEW w \in Workers, AppendActive(w), ~UNCHANGED pointer PROVE Lease!Next
  <2> DEFINE k == worker[w].turn
  <2>1. k \in Positions /\ ~Busy /\ pointer' = Append(pointer, Active(k)) /\ UNCHANGED outcome
    BY <1>2 DEF IInv, AppendActive, In, KnowsTurn, KnowsHead, Serving, Conversation
  <2>2. Active(k) \in Events /\ Active(k).type = "active" /\ Active(k).turn = k
    BY <2>1 DEF Active, Events
  <2>3. ServedTurns = {} /\ ServedTurns' = {k}
    BY <1>0, <2>1, <2>2, EventSeen DEF ServedTurns
  <2>4. Lease!Serve(k)
    BY <2>1, <2>3 DEF Lease!Serve
  <2> QED BY <2>1, <2>4 DEF Lease!Next
<1>3. ASSUME NEW w \in Workers, Settle(w), ~UNCHANGED pointer PROVE Lease!Next
  <2> DEFINE k == worker[w].turn
  <2>1. /\ k \in Positions /\ IsActive(k) /\ outcome[k] = "answered"
        /\ pointer' = Append(pointer, Settled(k)) /\ UNCHANGED outcome
    BY <1>3 DEF IInv, Settle, In, KnowsTurn, KnowsHead, Serving, Conversation
  <2>2. Settled(k) \in Events /\ Settled(k).type = "settled"
    BY <2>1 DEF Settled, Events
  <2>3. ServedTurns = {k} /\ ServedTurns' = {}
    BY <1>0, <2>1, <2>2, EventSeen, ServesOne
  <2>4. Lease!Release(k)
    BY <2>1, <2>3 DEF Lease!Release
  <2> QED BY <2>1, <2>4 DEF Lease!Next
<1>4. ASSUME NEW w \in Workers, Answer(w) \/ GiveUp(w) PROVE Lease!Next
  <2> DEFINE k == worker[w].turn
  <2>1. /\ k \in Positions /\ IsActive(k) /\ outcome[k] = "open" /\ UNCHANGED pointer
        /\ \/ outcome' = [outcome EXCEPT ![k] = "answered"]
           \/ outcome' = [outcome EXCEPT ![k] = "unavailable"]
    BY <1>4 DEF IInv, Answer, GiveUp, In, KnowsTurn, Serving
  <2>2. ServedTurns = {k} /\ UNCHANGED ServedTurns
    BY <1>0, <2>1, ServesOne DEF ServedTurns, Busy, Newest
  <2>3. Lease!Answer(k) \/ Lease!GiveUp(k)
    BY <2>1, <2>2 DEF Lease!Answer, Lease!GiveUp, Lease!Decide
  <2> QED BY <2>1, <2>3 DEF Lease!Next
<1>5. CASE Stop
  <2>1. PICK k \in Positions : k = Newest.turn /\ IsActive(k)
    BY <1>0, <1>5, NewestActive DEF Stop
  <2>2. /\ outcome[k] \in {"open", "unavailable"} /\ outcome' = [outcome EXCEPT ![k] = "cancelled"]
        /\ pointer' = Append(pointer, Settled(k))
    BY <1>5, <2>1 DEF Stop
  <2>3. Settled(k) \in Events /\ Settled(k).type = "settled"
    BY <2>1 DEF Settled, Events
  <2>4. ServedTurns = {k} /\ ServedTurns' = {}
    BY <1>0, <2>1, <2>2, <2>3, EventSeen, ServesOne
  <2>5. Lease!Stop(k)
    BY <2>2, <2>4 DEF Lease!Stop, Lease!Decide
  <2> QED BY <2>5 DEF Lease!Next
<1>6. ASSUME NEW w \in Workers, Deliver(w) \/ WorkerStep(w) \/ Crash(w)
      PROVE  \/ UNCHANGED <<pointer, outcome>>
             \/ (AppendActive(w) \/ Settle(w)) /\ ~UNCHANGED pointer
             \/ Answer(w) \/ GiveUp(w)
  BY <1>6 DEF WorkerStep, Deliver, Start, Found, Resolve, CreateOrRead, Activate,
     AppendActive, Activated, Compare, Advance, FinishOutput, Settle, Crash, Conversation
<1> QED BY <1>1, <1>2, <1>3, <1>4, <1>5, <1>6 DEF Next, Post, Tick, vars

(* Whatever executions find, freeze, append late, lose or repeat, the lease *)
(* serves one turn at a time, only that turn is decided, and it is released *)
(* by its answer or by the append that stops it.                            *)
THEOREM LeaseTurnsImplemented == Spec => ImplementsLeaseTurns
<1>1. Init => Lease!Init
  BY DEF Init, Lease!Init, ServedTurns, Busy
<1>2. IInv /\ [Next]_vars => [Lease!Next]_<<ServedTurns, outcome>>
  BY StepRefines
<1> QED BY <1>1, <1>2, AlwaysIInv, PTL DEF Spec, ImplementsLeaseTurns, Lease!Spec
=============================================================================
