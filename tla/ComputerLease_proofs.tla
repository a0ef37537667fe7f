------------------------ MODULE ComputerLease_proofs ------------------------
(***************************************************************************)
(* ComputerLease is safe for every number of consumers and lifecycle       *)
(* workers, every number of generations and every timing.                  *)
(*                                                                         *)
(* A worker appends what it derived from the history it read.  So the      *)
(* invariant says what reading gave it: as long as nothing was appended    *)
(* since, the history is what the worker read (Seen), and what it read     *)
(* allows the step it is at (Fitting).                                     *)
(***************************************************************************)
EXTENDS ComputerLease, TLAPS

Passes == [pc : Pcs, view : Snapshots, now : Nat, asked : Generations]

(* What a worker read allows the step it is at.                            *)
Fits(pass) ==
    /\ pass.pc = "rewarm" =>
          pass.view.state = "cooling" /\ pass.view.lease = "active"
    /\ pass.pc = "reserve" => Opens(pass.view, pass.asked)
    /\ pass.pc \in {"claim", "activate"} => pass.view.lease = "claimed"
    /\ pass.pc \in {"cool", "renew", "renewed"} => pass.view.lease = "active"
    /\ pass.pc \in {"inspect", "lose", "delete_lost", "record_loss"} =>
          pass.view.lease \in {"claimed", "active"}
    /\ pass.pc \in {"capture", "release", "record_release"} =>
          pass.view.state = "cooling" /\ pass.view.lease = "active"
    /\ pass.pc \in {"finish", "delete", "record_cold"} => pass.view.lease = "released"

Fitting == \A w \in Workers : Fits(worker[w])

(* A snapshot is older than the history or the history itself.             *)
IsSeen(view, computer) ==
    view.revision <= computer.revision /\ (view.revision = computer.revision => view = computer)

Seen == \A w \in Workers : worker[w].pc # "idle" => IsSeen(worker[w].view, history)

IInv == TypeOK /\ Seen /\ Fitting

-----------------------------------------------------------------------------
LEMMA CreatedTyped == Created \in Snapshots /\ Resting \in Passes
<1>1. 1 \in Generations
  BY LeaseAssumption DEF Generations
<1>2. 0 \in 0..MaxGeneration
  BY LeaseAssumption
<1>3. Created \in Snapshots
  BY <1>1, <1>2 DEF Created, Snapshots, Events
<1> QED
  BY <1>1, <1>3 DEF Resting, Passes, Pcs

LEMMA RestingFits == Fits(Resting)
BY DEF Fits, Resting

(* A worker moves, and at most one snapshot is appended.                   *)
LEMMA Moves ==
    ASSUME TypeOK, Seen, Fitting,
           history' \in Snapshots,
           history' = history \/ history'.revision = history.revision + 1,
           NEW w \in Workers, NEW next \in Passes, Becomes(w, next),
           next.pc # "idle" => Fits(next) /\ IsSeen(next.view, history')
    PROVE  worker' \in [Workers -> Passes] /\ Seen' /\ Fitting'
<1> DEFINE new == IF next.pc = "idle" THEN Resting ELSE next
<1>1. worker \in [Workers -> Passes] /\ history \in Snapshots
  BY DEF TypeOK, Passes
<1>2. new \in Passes
  BY CreatedTyped
<1>3. worker' = [worker EXCEPT ![w] = new]
  BY DEF Becomes
<1>4. worker' \in [Workers -> Passes]
  BY <1>1, <1>2, <1>3
<1>5. Fits(new) /\ (new.pc # "idle" => IsSeen(new.view, history'))
  BY RestingFits DEF Resting
<1> HIDE DEF new
<1>6. ASSUME NEW u \in Workers
      PROVE  Fits(worker'[u]) /\ (worker'[u].pc # "idle" => IsSeen(worker'[u].view, history'))
  <2>1. CASE u = w
    BY <1>1, <1>3, <1>5, <2>1
  <2>2. CASE u # w
    <3>1. worker'[u] = worker[u]
      BY <1>1, <1>3, <2>2
    <3>2. worker[u].pc # "idle" => IsSeen(worker[u].view, history)
      BY DEF Seen
    <3>3. worker[u].view \in Snapshots
      BY <1>1 DEF Passes
    <3>4. worker[u].view.revision \in Nat /\ history.revision \in Nat
      BY <1>1, <3>3 DEF Snapshots
    <3>5. worker[u].pc # "idle" => IsSeen(worker[u].view, history')
      BY <3>2, <3>4 DEF IsSeen
    <3> QED
      BY <3>1, <3>5 DEF Fitting
  <2> QED
    BY <2>1, <2>2
<1>7. Seen' /\ Fitting'
  BY <1>6 DEF Seen, Fitting
<1> QED
  BY <1>4, <1>7

(* A worker goes on with what it read.                                     *)
LEMMA GoesOn ==
    ASSUME TypeOK, Seen, Fitting, history' = history,
           NEW w \in Workers, NEW pc \in Pcs, ~At(w, "idle"), Goes(w, pc),
           Fits([worker[w] EXCEPT !.pc = pc])
    PROVE  worker' \in [Workers -> Passes] /\ Seen' /\ Fitting'
<1> DEFINE next == [worker[w] EXCEPT !.pc = pc]
<1>1. worker[w] \in Passes /\ history \in Snapshots
  BY DEF TypeOK, Passes
<1>2. next \in Passes /\ next.view = worker[w].view
  BY <1>1 DEF Passes
<1>3. IsSeen(next.view, history')
  BY <1>2 DEF Seen, At
<1>4. Becomes(w, next)
  BY DEF Goes
<1> HIDE DEF next
<1>5. Fits(next)
  BY DEF next
<1> QED
  BY <1>1, <1>2, <1>3, <1>4, <1>5, Moves

(* An append leaves everything but the history to the worker's next step.  *)
LEMMA Appends ==
    ASSUME TypeOK, Seen, Fitting,
           NEW w \in Workers, NEW event \in Events, NEW snapshot \in Snapshots,
           NEW pc \in Pcs, ~At(w, "idle"), Append(w, event, snapshot, pc),
           Fits([worker[w] EXCEPT !.pc = pc])
    PROVE  /\ history' \in Snapshots
           /\ worker' \in [Workers -> Passes] /\ Seen' /\ Fitting'
           /\ \/ history' = history
              \/ /\ history = View(w)
                 /\ history' = [snapshot EXCEPT !.revision = history.revision + 1,
                                                !.event = event]
<1>1. worker[w] \in Passes /\ history \in Snapshots
  BY DEF TypeOK, Passes
<1>2. history.revision \in Nat /\ history.revision + 1 \in Nat
  BY <1>1 DEF Snapshots
<1>3. Fits([worker[w] EXCEPT !.pc = "idle"])
  BY <1>1 DEF Fits, Passes
<1>4. "idle" \in Pcs
  BY DEF Pcs
<1>5. CASE Goes(w, pc) /\ history' = history
  BY <1>1, <1>5, GoesOn
<1>6. CASE Goes(w, "idle") /\ history' = history
  BY <1>1, <1>3, <1>4, <1>6, GoesOn
<1>7. CASE /\ Current(View(w)) /\ Goes(w, pc)
           /\ history' = [snapshot EXCEPT !.revision = history.revision + 1, !.event = event]
  <2> DEFINE next == [worker[w] EXCEPT !.pc = pc]
  <2>1. history' \in Snapshots /\ history'.revision = history.revision + 1
    BY <1>2, <1>7 DEF Snapshots
  <2>2. history = View(w)
    BY <1>7 DEF Current, Seen, IsSeen, View, At
  <2>3. next \in Passes /\ next.view = history
    BY <1>1, <2>2 DEF Passes, View
  <2>4. IsSeen(next.view, history')
    BY <1>2, <2>1, <2>3 DEF IsSeen
  <2>5. Becomes(w, next)
    BY <1>7 DEF Goes
  <2> HIDE DEF next
  <2>6. Fits(next)
    BY DEF next
  <2>7. worker' \in [Workers -> Passes] /\ Seen' /\ Fitting'
    BY <2>1, <2>3, <2>4, <2>5, <2>6, Moves
  <2> QED
    BY <1>7, <2>1, <2>2, <2>7
<1> QED
  BY <1>5, <1>6, <1>7 DEF Append

-----------------------------------------------------------------------------
(* The new snapshot continues the serial history of leases.                *)
Serial(old, new) ==
    /\ new.generation \in old.generation .. (old.generation + 1)
    /\ new.generation > old.generation => old.lease \in Ended
    /\ new.generation = old.generation /\ old.lease \in Ended => new.lease = old.lease
    /\ new.lease = "released" /\ old.lease # "released" =>
          old.state = "cooling" /\ old.lease = "active" /\ new.checkpoint = old.generation

Advances == IInv' /\ (history' # history => Serial(history, history'))

Fences == [generation : 0..MaxGeneration, expires : Nat]
Sandboxes == [Generations -> [lease : 0..MaxGeneration, assigned : BOOLEAN, shutdown : Nat]]

(* A step that appends nothing and leaves the turns and the clock alone.   *)
LEMMA Quietly ==
    ASSUME IInv, history' = history, worker' \in [Workers -> Passes], Seen', Fitting',
           fence' \in Fences, sandbox' \in Sandboxes, published' \in SUBSET Generations,
           UNCHANGED world
    PROVE  Advances
<1>1. TypeOK'
  BY DEF IInv, TypeOK, Passes, Fences, Sandboxes, world, turns
<1> QED
  BY <1>1 DEF IInv, Advances

(* A step that appends one snapshot at most, and touches nothing else.     *)
LEMMA RecordsIt ==
    ASSUME IInv, NEW w \in Workers, NEW event \in Events, NEW snapshot \in Snapshots,
           NEW pc \in Pcs, ~At(w, "idle"), Records(w, event, snapshot, pc),
           Fits([worker[w] EXCEPT !.pc = pc]), Serial(View(w), snapshot)
    PROVE  Advances
<1>1. TypeOK /\ Seen /\ Fitting
  BY DEF IInv
<1>2. Append(w, event, snapshot, pc) /\ UNCHANGED <<fence, sandbox, published, world>>
  BY DEF Records
<1>3. /\ history' \in Snapshots
      /\ worker' \in [Workers -> Passes] /\ Seen' /\ Fitting'
      /\ \/ history' = history
         \/ /\ history = View(w)
            /\ history' = [snapshot EXCEPT !.revision = history.revision + 1, !.event = event]
  BY <1>1, <1>2, Appends
<1>4. TypeOK'
  BY <1>1, <1>2, <1>3 DEF TypeOK, Passes, world, turns
<1>5. history' # history => Serial(history, history')
  BY <1>3 DEF Serial, Snapshots
<1> QED
  BY <1>3, <1>4, <1>5 DEF IInv, Advances

(* What is read off the invariant of one worker.                           *)
LEMMA ReadOff ==
    ASSUME IInv, NEW w \in Workers
    PROVE  /\ TypeOK /\ Seen /\ Fitting
           /\ worker[w] \in Passes /\ Fits(worker[w]) /\ history \in Snapshots
           /\ worker[w].view \in Snapshots /\ View(w) = worker[w].view
           /\ worker[w].now \in Nat /\ Now(w) = worker[w].now
           /\ worker[w].asked \in Generations /\ clock \in Nat
           /\ fence \in Fences /\ sandbox \in Sandboxes /\ published \in SUBSET Generations
           /\ Ttl \in Nat /\ Generations \subseteq 0..MaxGeneration /\ 0 \in 0..MaxGeneration
<1>1. TypeOK /\ Seen /\ Fitting
  BY DEF IInv
<1>2. worker[w] \in Passes /\ history \in Snapshots
  BY <1>1 DEF TypeOK, Passes
<1>3. Fits(worker[w])
  BY <1>1 DEF Fitting
<1>4. worker[w].view \in Snapshots /\ worker[w].now \in Nat /\ worker[w].asked \in Generations
  BY <1>2 DEF Passes
<1>5. View(w) = worker[w].view /\ Now(w) = worker[w].now
  BY DEF View, Now
<1>6. clock \in Nat /\ fence \in Fences /\ sandbox \in Sandboxes /\ published \in SUBSET Generations
  BY <1>1 DEF TypeOK, Fences, Sandboxes
<1>7. Ttl \in Nat /\ Generations \subseteq 0..MaxGeneration /\ 0 \in 0..MaxGeneration
  BY LeaseAssumption DEF Generations
<1> QED
  BY <1>1, <1>2, <1>3, <1>4, <1>5, <1>6, <1>7

(* A worker that only moves on.                                            *)
LEMMA MovesOn ==
    ASSUME IInv, NEW w \in Workers, NEW pc \in Pcs, ~At(w, "idle"), Goes(w, pc),
           Fits([worker[w] EXCEPT !.pc = pc]),
           UNCHANGED <<history, world>>,
           fence' \in Fences, sandbox' \in Sandboxes, published' \in SUBSET Generations
    PROVE  Advances
<1>1. TypeOK /\ Seen /\ Fitting
  BY DEF IInv
<1>2. worker' \in [Workers -> Passes] /\ Seen' /\ Fitting'
  BY <1>1, GoesOn
<1> QED
  BY <1>2, Quietly

(* A worker that reads the history and goes on with it.                    *)
LEMMA ReadsOn ==
    ASSUME IInv, NEW w \in Workers, NEW next \in Passes, Becomes(w, next),
           next.pc # "idle" => Fits(next), next.view = history,
           UNCHANGED <<history, fence, sandbox, published, world>>
    PROVE  Advances
<1>1. TypeOK /\ Seen /\ Fitting /\ history \in Snapshots
  BY DEF IInv, TypeOK
<1>2. IsSeen(next.view, history')
  BY <1>1 DEF IsSeen, Snapshots
<1>3. worker' \in [Workers -> Passes] /\ Seen' /\ Fitting'
  BY <1>1, <1>2, Moves
<1> QED
  BY <1>3, ReadOff, Quietly

-----------------------------------------------------------------------------
(* The consumer's steps.                                                   *)
LEMMA ActivationAdvances ==
    ASSUME IInv, NEW w \in Activators, Activation(w)
    PROVE  Advances
<1> w \in Workers
  BY DEF Workers
<1>0. /\ TypeOK /\ Seen /\ Fitting
      /\ worker[w] \in Passes /\ Fits(worker[w]) /\ history \in Snapshots
      /\ worker[w].view \in Snapshots /\ View(w) = worker[w].view
      /\ worker[w].now \in Nat /\ Now(w) = worker[w].now
      /\ worker[w].asked \in Generations /\ clock \in Nat
      /\ fence \in Fences /\ sandbox \in Sandboxes /\ published \in SUBSET Generations
      /\ Ttl \in Nat /\ Generations \subseteq 0..MaxGeneration /\ 0 \in 0..MaxGeneration
  BY ReadOff
<1>1. ASSUME NEW g \in Generations, Deliver(w, g) PROVE Advances
  <2>1. PICK pc \in Pcs :
          /\ pc # "idle"
          /\ Becomes(w, [pc |-> pc, view |-> history, now |-> clock, asked |-> g])
          /\ Fits([pc |-> pc, view |-> history, now |-> clock, asked |-> g])
    BY <1>1 DEF Deliver, Fits, Pcs, InUse, Claiming
  <2>2. [pc |-> pc, view |-> history, now |-> clock, asked |-> g] \in Passes
    BY <1>0 DEF Passes
  <2>3. UNCHANGED <<history, fence, sandbox, published, world>>
    BY <1>1 DEF Deliver
  <2> QED
    BY <2>1, <2>2, <2>3, ReadsOn
<1>2. CASE Rewarm(w)
  <2> DEFINE new == [View(w) EXCEPT !.state = "warm", !.updated = Now(w)]
  <2>1. ~At(w, "idle") /\ Fits([worker[w] EXCEPT !.pc = "publish"])
    BY <1>0, <1>2 DEF Rewarm, At, Fits, Passes
  <2>2. new \in Snapshots
    BY <1>0 DEF Snapshots
  <2>3. Serial(View(w), new)
    BY <1>0, <1>2 DEF Rewarm, At, Fits, Serial, Snapshots, Ended, Generations
  <2>4. Records(w, "rewarmed", new, "publish")
    BY <1>2 DEF Rewarm
  <2>5. "rewarmed" \in Events /\ "publish" \in Pcs
    BY DEF Events, Pcs
  <2> HIDE DEF new
  <2> QED
    BY <2>1, <2>2, <2>3, <2>4, <2>5, RecordsIt
<1>3. CASE Reserve(w)
  <2> DEFINE new == [View(w) EXCEPT !.state = "claim_pending", !.generation = worker[w].asked,
                                    !.lease = "claimed", !.expires = Now(w) + Ttl,
                                    !.updated = Now(w)]
  <2>1. ~At(w, "idle") /\ Fits([worker[w] EXCEPT !.pc = "reload"])
    BY <1>0, <1>3 DEF Reserve, At, Fits, Passes
  <2>2. new \in Snapshots
    <3>1. Now(w) \in Nat /\ Now(w) + Ttl \in Nat
      BY <1>0
    <3>2. View(w) \in Snapshots /\ worker[w].asked \in Generations
      BY <1>0
    <3> QED
      BY <3>1, <3>2 DEF Snapshots
  <2>3. Opens(View(w), worker[w].asked)
    BY <1>0, <1>3 DEF Reserve, At, Fits
  <2>4. Serial(View(w), new)
    <3>1. new.generation = worker[w].asked /\ new.lease = "claimed"
      BY <1>0 DEF Snapshots
    <3>2. View(w).generation \in Nat /\ worker[w].asked \in Nat
      BY <1>0 DEF Snapshots, Generations
    <3>3. CASE View(w).lease = "none" /\ View(w).generation = worker[w].asked
      BY <3>1, <3>2, <3>3 DEF Serial, Ended
    <3>4. CASE View(w).lease \in Ended /\ View(w).generation + 1 = worker[w].asked
      BY <3>1, <3>2, <3>4 DEF Serial
    <3> QED
      BY <2>3, <3>3, <3>4 DEF Opens
  <2>5. Records(w, "claim_pending", new, "reload")
    BY <1>3 DEF Reserve
  <2>6. "claim_pending" \in Events /\ "reload" \in Pcs
    BY DEF Events, Pcs
  <2> HIDE DEF new
  <2> QED
    BY <2>1, <2>2, <2>4, <2>5, <2>6, RecordsIt
<1>4. CASE Reload(w)
  <2>1. PICK pc \in Pcs :
          /\ Becomes(w, [worker[w] EXCEPT !.pc = pc, !.view = history])
          /\ Fits([worker[w] EXCEPT !.pc = pc, !.view = history])
    <3>1. PICK pc \in {"publish", "claim", "idle"} :
            /\ Reads(w, pc)
            /\ pc = "claim" => history.lease = "claimed"
      <4> DEFINE next == CASE history.state = "warm" /\ InUse(history, worker[w].asked, clock)
                                -> "publish"
                           [] Claiming(history) -> "claim"
                           [] OTHER -> "idle"
      <4>1. Reads(w, next)
        BY <1>4 DEF Reload
      <4>2. next \in {"publish", "claim", "idle"} /\ (next = "claim" => history.lease = "claimed")
        BY DEF Claiming
      <4> HIDE DEF next
      <4> QED
        BY <4>1, <4>2
    <3>2. Fits([worker[w] EXCEPT !.pc = pc, !.view = history])
      BY <1>0, <3>1 DEF Fits, Passes
    <3> QED
      BY <3>1, <3>2 DEF Reads, Pcs
  <2>2. [worker[w] EXCEPT !.pc = pc, !.view = history] \in Passes
    BY <1>0 DEF Passes
  <2>3. [worker[w] EXCEPT !.pc = pc, !.view = history].view = history
    BY <1>0 DEF Passes
  <2>4. UNCHANGED <<history, fence, sandbox, published, world>>
    BY <1>4 DEF Reload
  <2> QED
    BY <2>1, <2>2, <2>3, <2>4, ReadsOn
<1>5. CASE Claim(w)
  <2> DEFINE g == worker[w].asked
             claim == [Absent EXCEPT !.lease = View(w).generation, !.shutdown = View(w).expires]
  <2>1. claim \in [lease : 0..MaxGeneration, assigned : BOOLEAN, shutdown : Nat]
    BY <1>0 DEF Absent, Snapshots
  <2>2. ~At(w, "idle") /\ Fits([worker[w] EXCEPT !.pc = "idle"])
                       /\ Fits([worker[w] EXCEPT !.pc = "activate"])
    BY <1>0, <1>5 DEF Claim, At, Fits, Passes
  <2>3. UNCHANGED <<history, world>> /\ fence' = fence /\ published' = published
    BY <1>5 DEF Claim
  <2>4. PICK pc \in {"idle", "activate"} : Goes(w, pc)
    BY <1>5 DEF Claim
  <2>5. sandbox' = sandbox \/ sandbox' = [sandbox EXCEPT ![g] = claim]
    BY <1>5 DEF Claim
  <2> HIDE DEF claim
  <2>6. sandbox' \in Sandboxes
    BY <1>0, <2>1, <2>5 DEF Sandboxes
  <2>7. pc \in Pcs /\ Fits([worker[w] EXCEPT !.pc = pc])
    BY <2>2, <2>4 DEF Pcs
  <2> QED
    BY <1>0, <2>2, <2>3, <2>4, <2>6, <2>7, MovesOn
<1>6. CASE Activate(w)
  <2>1. ~At(w, "idle") /\ Fits([worker[w] EXCEPT !.pc = "publish"])
                       /\ Fits([worker[w] EXCEPT !.pc = "idle"])
    BY <1>0, <1>6 DEF Activate, At, Fits, Passes
  <2>2. "activated" \in Events /\ "publish" \in Pcs /\ "idle" \in Pcs
    BY DEF Events, Pcs
  <2>3. CASE worker[w].asked = View(w).generation
    <3> DEFINE new == [View(w) EXCEPT !.state = "warm", !.lease = "active", !.updated = clock]
    <3>1. new \in Snapshots
      BY <1>0 DEF Snapshots
    <3>2. Serial(View(w), new)
      BY <1>0, <1>6 DEF Activate, At, Fits, Serial, Snapshots, Ended, Generations
    <3>3. Records(w, "activated", new, "publish")
      BY <1>6, <2>3 DEF Activate
    <3> HIDE DEF new
    <3> QED
      BY <2>1, <2>2, <3>1, <3>2, <3>3, RecordsIt
  <2>4. CASE worker[w].asked # View(w).generation
    <3>1. Goes(w, "idle") /\ UNCHANGED <<history, fence, sandbox, published, world>>
      BY <1>6, <2>4 DEF Activate
    <3> QED
      BY <1>0, <2>1, <2>2, <3>1, MovesOn
  <2> QED
    BY <2>3, <2>4
<1>7. CASE Publish(w)
  <2>1. ~At(w, "idle") /\ Fits([worker[w] EXCEPT !.pc = "idle"]) /\ "idle" \in Pcs
    BY <1>0, <1>7 DEF Publish, At, Fits, Passes, Pcs
  <2>2. Goes(w, "idle") /\ UNCHANGED <<history, world>>
                        /\ sandbox' = sandbox /\ published' = published
    BY <1>7 DEF Publish
  <2>3. fence' \in Fences
    BY <1>0, <1>7 DEF Publish, Fences, Snapshots
  <2> QED
    BY <1>0, <2>1, <2>2, <2>3, MovesOn
<1> QED
  BY <1>1, <1>2, <1>3, <1>4, <1>5, <1>6, <1>7 DEF Activation

-----------------------------------------------------------------------------
(* The lifecycle worker's steps.                                           *)
LEMMA LifecycleAdvances ==
    ASSUME IInv, NEW w \in Reconcilers, Lifecycle(w)
    PROVE  Advances
<1> w \in Workers
  BY DEF Workers
<1>0. /\ TypeOK /\ Seen /\ Fitting
      /\ worker[w] \in Passes /\ Fits(worker[w]) /\ history \in Snapshots
      /\ worker[w].view \in Snapshots /\ View(w) = worker[w].view
      /\ worker[w].now \in Nat /\ Now(w) = worker[w].now
      /\ worker[w].asked \in Generations /\ clock \in Nat
      /\ fence \in Fences /\ sandbox \in Sandboxes /\ published \in SUBSET Generations
      /\ Ttl \in Nat /\ Generations \subseteq 0..MaxGeneration /\ 0 \in 0..MaxGeneration
  BY ReadOff
<1>a. "idle" \in Pcs /\ Fits([worker[w] EXCEPT !.pc = "idle"])
  BY <1>0 DEF Fits, Passes, Pcs
<1>b. Now(w) + Ttl \in Nat /\ View(w).generation \in Generations
  BY <1>0 DEF Snapshots
<1>1. CASE Reconcile(w)
  <2>1. PICK pc \in {"finish", "lose", "inspect"} :
          /\ Becomes(w, [Resting EXCEPT !.pc = pc, !.view = history, !.now = clock])
          /\ pc = "finish" => history.lease = "released"
          /\ pc # "finish" => history.lease \in {"claimed", "active"}
    <3> DEFINE next == CASE history.state = "cooling" /\ history.lease = "released" -> "finish"
                         [] history.lease \in {"claimed", "active"} ->
                                IF history.expires <= clock THEN "lose" ELSE "inspect"
                         [] OTHER -> "idle"
    <3>1. next # "idle" /\ Becomes(w, [Resting EXCEPT !.pc = next, !.view = history, !.now = clock])
      BY <1>1 DEF Reconcile
    <3>2. /\ next # "idle" => next \in {"finish", "lose", "inspect"}
          /\ next = "finish" => history.lease = "released"
          /\ next \in {"lose", "inspect"} => history.lease \in {"claimed", "active"}
      OBVIOUS
    <3> HIDE DEF next
    <3> QED
      BY <3>1, <3>2
  <2> DEFINE pass == [Resting EXCEPT !.pc = pc, !.view = history, !.now = clock]
  <2>2. pass \in Passes /\ pass.view = history
    BY <1>0, CreatedTyped DEF Passes, Pcs
  <2>3. Fits(pass)
    BY <2>1, CreatedTyped DEF Fits, Passes
  <2>4. UNCHANGED <<history, fence, sandbox, published, world>>
    BY <1>1 DEF Reconcile
  <2> HIDE DEF pass
  <2>5. Becomes(w, pass)
    BY <2>1 DEF pass
  <2> QED
    BY <2>2, <2>3, <2>4, <2>5, ReadsOn
<1>2. CASE Inspect(w)
  <2>1. PICK pc \in {"lose", "idle", "capture", "renew", "cool"} :
          /\ Goes(w, pc)
          /\ pc = "capture" => View(w).state = "cooling" /\ View(w).lease = "active"
          /\ pc \in {"renew", "cool"} => View(w).lease = "active"
    <3> DEFINE gone == sandbox[View(w).generation] = Absent
               idle == IdleTime(View(w), Now(w))
               next == IF View(w).lease # "active" THEN "idle"
                       ELSE IF gone THEN "lose"
                       ELSE IF ~Labelled(View(w)) THEN "idle"
                       ELSE IF View(w).state = "cooling" /\ idle >= RetireAfter THEN "capture"
                       ELSE IF RenewalDue(View(w), Now(w)) THEN "renew"
                       ELSE IF View(w).state = "warm" /\ idle >= StaleAfter THEN "cool"
                       ELSE "idle"
    <3>1. Goes(w, next)
      BY <1>2 DEF Inspect
    <3> HIDE DEF gone, idle
    <3>2. /\ next \in {"lose", "idle", "capture", "renew", "cool"}
          /\ next = "capture" => View(w).state = "cooling" /\ View(w).lease = "active"
          /\ next \in {"renew", "cool"} => View(w).lease = "active"
      OBVIOUS
    <3> HIDE DEF next
    <3> QED
      BY <3>1, <3>2
  <2>2. ~At(w, "idle") /\ worker[w].view.lease \in {"claimed", "active"}
    BY <1>0, <1>2 DEF Inspect, At, Fits
  <2>3. pc \in Pcs /\ Fits([worker[w] EXCEPT !.pc = pc])
    BY <1>0, <2>1, <2>2 DEF Pcs, Fits, Passes
  <2>4. UNCHANGED <<history, fence, sandbox, published, world>>
    BY <1>2 DEF Inspect
  <2> QED
    BY <1>0, <2>1, <2>2, <2>3, <2>4, MovesOn
<1>3. CASE Cool(w)
  <2> DEFINE new == [View(w) EXCEPT !.state = "cooling"]
  <2>1. ~At(w, "idle")
    BY <1>3 DEF Cool, At
  <2>2. new \in Snapshots
    BY <1>0 DEF Snapshots
  <2>3. Serial(View(w), new)
    BY <1>0, <1>3 DEF Cool, At, Fits, Serial, Snapshots, Ended, Generations
  <2>4. Records(w, "cooled", new, "idle")
    BY <1>3 DEF Cool
  <2>5. "cooled" \in Events
    BY DEF Events
  <2> HIDE DEF new
  <2> QED
    BY <1>a, <2>1, <2>2, <2>3, <2>4, <2>5, RecordsIt
<1>4. CASE Renew(w)
  <2>1. PICK pc \in {"renewed", "lose", "idle"} : Goes(w, pc)
    BY <1>4 DEF Renew
  <2>2. ~At(w, "idle") /\ worker[w].view.lease = "active"
    BY <1>0, <1>4 DEF Renew, At, Fits
  <2>3. pc \in Pcs /\ Fits([worker[w] EXCEPT !.pc = pc])
    BY <1>0, <2>1, <2>2 DEF Pcs, Fits, Passes
  <2>4. \/ sandbox' = sandbox
        \/ sandbox' = [sandbox EXCEPT ![View(w).generation].shutdown = Now(w) + Ttl]
    BY <1>4 DEF Renew
  <2>5. sandbox' \in Sandboxes
    BY <1>0, <1>b, <2>4 DEF Sandboxes
  <2>6. UNCHANGED <<history, fence, published, world>>
    BY <1>4 DEF Renew
  <2> QED
    BY <1>0, <2>1, <2>2, <2>3, <2>5, <2>6, MovesOn
<1>5. CASE RecordRenewal(w)
  <2> DEFINE new == [View(w) EXCEPT !.expires = Now(w) + Ttl]
  <2>1. ~At(w, "idle") /\ Fits([worker[w] EXCEPT !.pc = "extend"])
    BY <1>0, <1>5 DEF RecordRenewal, At, Fits, Passes
  <2>2. new \in Snapshots
    BY <1>0, <1>b DEF Snapshots
  <2>3. Serial(View(w), new)
    BY <1>0, <1>5 DEF RecordRenewal, At, Fits, Serial, Snapshots, Ended, Generations
  <2>4. Records(w, "renewed", new, "extend")
    BY <1>5 DEF RecordRenewal
  <2>5. "renewed" \in Events /\ "extend" \in Pcs
    BY DEF Events, Pcs
  <2> HIDE DEF new
  <2> QED
    BY <2>1, <2>2, <2>3, <2>4, <2>5, RecordsIt
<1>6. CASE Extend(w)
  <2>1. ~At(w, "idle") /\ Goes(w, "idle")
    BY <1>6 DEF Extend, At
  <2>2. fence' \in Fences /\ fence'.generation = fence.generation
    BY <1>0, <1>b, <1>6 DEF Extend, Fences
  <2>3. UNCHANGED <<history, sandbox, published, world>>
    BY <1>6 DEF Extend
  <2> QED
    BY <1>0, <1>a, <2>1, <2>2, <2>3, MovesOn
<1>7. CASE Capture(w)
  <2>1. PICK pc \in {"release", "idle"} : Goes(w, pc)
    BY <1>7 DEF Capture
  <2>2. ~At(w, "idle") /\ worker[w].view.state = "cooling" /\ worker[w].view.lease = "active"
    BY <1>0, <1>7 DEF Capture, At, Fits
  <2>3. pc \in Pcs /\ Fits([worker[w] EXCEPT !.pc = pc])
    BY <1>0, <2>1, <2>2 DEF Pcs, Fits, Passes
  <2>4. published' \in SUBSET Generations
    BY <1>0, <1>b, <1>7 DEF Capture
  <2>5. UNCHANGED <<history, fence, sandbox, world>>
    BY <1>7 DEF Capture
  <2> QED
    BY <1>0, <2>1, <2>2, <2>3, <2>4, <2>5, MovesOn
<1>8. CASE Clear(w)
  <2> DEFINE own == fence.generation = View(w).generation /\ Unused
             next == CASE At(w, "lose") -> "delete_lost"
                       [] At(w, "release") -> "record_release"
                       [] OTHER -> "delete"
  <2>1. ~At(w, "idle") /\ worker[w].pc \in {"lose", "release", "finish"}
    BY <1>8 DEF Clear, At
  <2>2. next \in {"delete_lost", "record_release", "delete"}
    OBVIOUS
  <2>3. Fits([worker[w] EXCEPT !.pc = next])
    BY <1>0, <2>1 DEF Fits, Passes, At
  <2>4. fence' = IF own THEN NoRow ELSE fence
    BY <1>8 DEF Clear
  <2>5. Goes(w, next) \/ Goes(w, "idle")
    BY <1>8 DEF Clear
  <2>6. UNCHANGED <<history, sandbox, published, world>>
    BY <1>8 DEF Clear
  <2>7. NoRow \in Fences
    BY <1>0 DEF NoRow, Fences
  <2>8. fence' \in Fences
    BY <1>0, <2>4, <2>7
  <2>9. next \in Pcs
    BY <2>2 DEF Pcs
  <2> HIDE DEF own, next
  <2>10. PICK pc \in Pcs : Goes(w, pc) /\ Fits([worker[w] EXCEPT !.pc = pc])
    BY <1>a, <2>3, <2>5, <2>9
  <2> QED
    BY <1>0, <2>1, <2>6, <2>8, <2>10, MovesOn
<1>9. CASE Delete(w)
  <2> DEFINE next == IF At(w, "delete_lost") THEN "record_loss" ELSE "record_cold"
  <2>1. ~At(w, "idle") /\ worker[w].pc \in {"delete_lost", "delete"}
    BY <1>9 DEF Delete, At
  <2>2. next \in Pcs /\ Fits([worker[w] EXCEPT !.pc = next])
    BY <1>0, <2>1 DEF Fits, Passes, At, Pcs
  <2>3. Goes(w, next) \/ Goes(w, "idle")
    BY <1>9 DEF Delete
  <2>4. \/ sandbox' = sandbox
        \/ sandbox' = [sandbox EXCEPT ![View(w).generation] = Absent]
    BY <1>9 DEF Delete
  <2>5. sandbox' \in Sandboxes
    <3>1. Absent \in [lease : 0..MaxGeneration, assigned : BOOLEAN, shutdown : Nat]
      BY <1>0 DEF Absent
    <3> QED
      BY <1>0, <2>4, <3>1 DEF Sandboxes
  <2>6. UNCHANGED <<history, fence, published, world>>
    BY <1>9 DEF Delete
  <2> HIDE DEF next
  <2>7. PICK pc \in Pcs : Goes(w, pc) /\ Fits([worker[w] EXCEPT !.pc = pc])
    BY <1>a, <2>2, <2>3
  <2> QED
    BY <1>0, <2>1, <2>5, <2>6, <2>7, MovesOn
<1>10. CASE RecordLoss(w)
  <2> DEFINE new == [View(w) EXCEPT !.state = "cold", !.lease = "lost", !.updated = Now(w)]
  <2>1. ~At(w, "idle")
    BY <1>10 DEF RecordLoss, At
  <2>2. new \in Snapshots
    BY <1>0 DEF Snapshots, Ended
  <2>3. Serial(View(w), new)
    BY <1>0, <1>10 DEF RecordLoss, At, Fits, Serial, Snapshots, Ended, Generations
  <2>4. Records(w, "lost", new, "idle")
    BY <1>10 DEF RecordLoss
  <2>5. "lost" \in Events
    BY DEF Events
  <2> HIDE DEF new
  <2> QED
    BY <1>a, <2>1, <2>2, <2>3, <2>4, <2>5, RecordsIt
<1>11. CASE RecordRelease(w)
  <2> DEFINE new == [View(w) EXCEPT !.lease = "released", !.checkpoint = View(w).generation]
  <2>1. ~At(w, "idle") /\ Fits([worker[w] EXCEPT !.pc = "released"])
    BY <1>0, <1>11 DEF RecordRelease, At, Fits, Passes
  <2>2. new \in Snapshots
    BY <1>0, <1>b DEF Snapshots, Ended
  <2>3. Serial(View(w), new)
    BY <1>0, <1>11 DEF RecordRelease, At, Fits, Serial, Snapshots, Ended, Generations
  <2>4. Records(w, "released", new, "released")
    BY <1>11 DEF RecordRelease
  <2>5. "released" \in Events /\ "released" \in Pcs
    BY DEF Events, Pcs
  <2> HIDE DEF new
  <2> QED
    BY <2>1, <2>2, <2>3, <2>4, <2>5, RecordsIt
<1>12. CASE ReloadReleased(w)
  <2>1. PICK pc \in {"delete", "idle"} :
          Reads(w, pc) /\ (pc = "delete" => history.lease = "released")
    BY <1>12 DEF ReloadReleased
  <2> DEFINE pass == [worker[w] EXCEPT !.pc = pc, !.view = history]
  <2>2. pass \in Passes /\ pass.view = history
    BY <1>0, <2>1 DEF Passes, Pcs
  <2>3. pass.pc # "idle" => Fits(pass)
    BY <1>0, <2>1 DEF Fits, Passes
  <2>4. UNCHANGED <<history, fence, sandbox, published, world>>
    BY <1>12 DEF ReloadReleased
  <2> HIDE DEF pass
  <2>5. Becomes(w, pass)
    BY <2>1 DEF pass, Reads
  <2> QED
    BY <2>2, <2>3, <2>4, <2>5, ReadsOn
<1>13. CASE RecordCold(w)
  <2> DEFINE new == [View(w) EXCEPT !.state = "cold", !.updated = Now(w)]
  <2>1. ~At(w, "idle")
    BY <1>13 DEF RecordCold, At
  <2>2. new \in Snapshots
    BY <1>0 DEF Snapshots
  <2>3. Serial(View(w), new)
    BY <1>0, <1>13 DEF RecordCold, At, Fits, Serial, Snapshots, Ended, Generations
  <2>4. Records(w, "cold", new, "idle")
    BY <1>13 DEF RecordCold
  <2>5. "cold" \in Events
    BY DEF Events
  <2> HIDE DEF new
  <2> QED
    BY <1>a, <2>1, <2>2, <2>3, <2>4, <2>5, RecordsIt
<1> QED
  BY <1>1, <1>2, <1>3, <1>4, <1>5, <1>6, <1>7, <1>8, <1>9, <1>10, <1>11, <1>12, <1>13
     DEF Lifecycle

-----------------------------------------------------------------------------
Environment ==
    \/ Request \/ Tick \/ \E w \in Workers : Crash(w)
    \/ \E g \in Generations :
          \/ StartTurn(g) \/ IssueCredential(g) \/ EndTurn(g)
          \/ Assign(g) \/ ShutDown(g) \/ Vanish(g)

(* Requests, turns, sandboxes, crashes and the clock append nothing.       *)
LEMMA EnvironmentAdvances ==
    ASSUME IInv, Environment
    PROVE  Advances
<1> DEFINE Busy == [busy : BOOLEAN, at : Nat]
           Key == [generation : 0..MaxGeneration, until : Nat]
<1>0. /\ TypeOK /\ Seen /\ Fitting
      /\ clock \in Nat /\ faults \in Nat /\ sandbox \in Sandboxes /\ fence \in Fences
      /\ worker \in [Workers -> Passes] /\ activity \in [Generations -> Busy]
      /\ credential \in Key /\ Generations \subseteq 0..MaxGeneration /\ 0 \in 0..MaxGeneration
  <2>1. TypeOK /\ Seen /\ Fitting
    BY DEF IInv
  <2>2. /\ clock \in Nat /\ faults \in Nat /\ sandbox \in Sandboxes /\ fence \in Fences
        /\ worker \in [Workers -> Passes] /\ activity \in [Generations -> Busy]
        /\ credential \in Key
    BY <2>1 DEF TypeOK, Sandboxes, Fences, Passes
  <2>3. Generations \subseteq 0..MaxGeneration /\ 0 \in 0..MaxGeneration
    BY LeaseAssumption DEF Generations
  <2> QED
    BY <2>1, <2>2, <2>3
<1>a. ASSUME UNCHANGED <<history, worker>> PROVE Seen' /\ Fitting'
  BY <1>0, <1>a DEF Seen, Fitting
<1>1. CASE Request
  <2>1. requested' \subseteq Generations
    BY <1>0, <1>1 DEF Request, TypeOK
  <2>2. UNCHANGED <<history, fence, sandbox, published, worker, turns, clock, faults>>
    BY <1>1 DEF Request
  <2>3. TypeOK'
    BY <1>0, <2>1, <2>2 DEF TypeOK, turns
  <2> QED
    BY <1>a, <2>2, <2>3 DEF IInv, Advances
<1>2. CASE Tick
  <2>1. clock' \in Nat /\ clock' >= clock
    BY <1>0, <1>2 DEF Tick
  <2>2. UNCHANGED <<history, fence, sandbox, published, requested, worker, turns, faults>>
    BY <1>2 DEF Tick
  <2>3. TypeOK'
    BY <1>0, <2>1, <2>2 DEF TypeOK, turns
  <2> QED
    BY <1>a, <2>2, <2>3 DEF IInv, Advances
<1>3. ASSUME NEW w \in Workers, Crash(w) PROVE Advances
  <2>1. worker[w] \in Passes /\ history \in Snapshots
    BY <1>0 DEF TypeOK
  <2>2. ~At(w, "idle") /\ Goes(w, "idle") /\ faults' \in Nat
    BY <1>0, <1>3 DEF Crash
  <2>3. UNCHANGED <<history, fence, sandbox, published, requested, turns, clock>>
    BY <1>3 DEF Crash
  <2>4. Fits([worker[w] EXCEPT !.pc = "idle"]) /\ "idle" \in Pcs
    BY <2>1 DEF Fits, Passes, Pcs
  <2>5. worker' \in [Workers -> Passes] /\ Seen' /\ Fitting'
    BY <1>0, <2>2, <2>3, <2>4, GoesOn
  <2>6. TypeOK'
    BY <1>0, <2>2, <2>3, <2>5 DEF TypeOK, Passes, turns
  <2> QED
    BY <2>3, <2>5, <2>6 DEF IInv, Advances
<1>4. ASSUME NEW g \in Generations, StartTurn(g) PROVE Advances
  <2>1. activity' \in [Generations -> Busy]
    BY <1>0, <1>4 DEF StartTurn
  <2>2. UNCHANGED <<history, fence, sandbox, published, requested, worker, credential,
                    clock, faults>>
    BY <1>4 DEF StartTurn
  <2>3. TypeOK'
    BY <1>0, <2>1, <2>2 DEF TypeOK
  <2> QED
    BY <1>a, <2>2, <2>3 DEF IInv, Advances
<1>5. ASSUME NEW g \in Generations, IssueCredential(g) PROVE Advances
  <2>1. PICK until \in (clock + 1)..fence.expires :
          credential' = [generation |-> g, until |-> until]
    BY <1>5 DEF IssueCredential
  <2>2. fence.expires \in Nat /\ until \in Nat
    BY <1>0 DEF Fences
  <2>3. credential' \in Key
    BY <1>0, <2>1, <2>2
  <2>4. UNCHANGED <<history, fence, sandbox, published, requested, worker, activity, clock,
                    faults>> /\ fence.generation = g
    BY <1>5 DEF IssueCredential
  <2>5. TypeOK'
    BY <1>0, <2>3, <2>4 DEF TypeOK
  <2> QED
    BY <1>a, <2>4, <2>5 DEF IInv, Advances
<1>6. ASSUME NEW g \in Generations, EndTurn(g) PROVE Advances
  <2>1. activity' \in [Generations -> Busy]
    BY <1>0, <1>6 DEF EndTurn
  <2>2. credential' = credential \/ credential' = [generation |-> 0, until |-> 0]
    BY <1>6 DEF EndTurn
  <2>3. UNCHANGED <<history, fence, sandbox, published, requested, worker, clock, faults>>
    BY <1>6 DEF EndTurn
  <2>4. TypeOK'
    BY <1>0, <2>1, <2>2, <2>3 DEF TypeOK
  <2> QED
    BY <1>a, <2>3, <2>4 DEF IInv, Advances
<1>7. ASSUME NEW g \in Generations, Assign(g) \/ ShutDown(g) \/ Vanish(g) PROVE Advances
  <2>1. \/ sandbox' = [sandbox EXCEPT ![g].assigned = TRUE]
        \/ sandbox' = [sandbox EXCEPT ![g] = Absent]
    BY <1>7 DEF Assign, ShutDown, Vanish
  <2>2. Absent \in [lease : 0..MaxGeneration, assigned : BOOLEAN, shutdown : Nat]
    BY <1>0 DEF Absent
  <2>3. sandbox' \in Sandboxes
    <3>1. sandbox \in [Generations -> [lease : 0..MaxGeneration, assigned : BOOLEAN,
                                       shutdown : Nat]]
      BY <1>0 DEF Sandboxes
    <3> QED
      BY <3>1, <2>1, <2>2 DEF Sandboxes
  <2>4. faults' \in Nat
    BY <1>0, <1>7 DEF Assign, ShutDown, Vanish
  <2>5. UNCHANGED <<history, fence, published, requested, worker, turns, clock>>
    BY <1>7 DEF Assign, ShutDown, Vanish
  <2>6. TypeOK'
    BY <1>0, <2>3, <2>4, <2>5 DEF TypeOK, Sandboxes, turns
  <2> QED
    BY <1>a, <2>5, <2>6 DEF IInv, Advances
<1> QED
  BY <1>1, <1>2, <1>3, <1>4, <1>5, <1>6, <1>7 DEF Environment

LEMMA Initially == Init => IInv
<1> SUFFICES ASSUME Init PROVE IInv
  OBVIOUS
<1>1. Absent \in [lease : 0..MaxGeneration, assigned : BOOLEAN, shutdown : Nat]
  BY LeaseAssumption DEF Absent
<1>2. NoRow \in [generation : 0..MaxGeneration, expires : Nat]
      /\ [generation |-> 0, until |-> 0] \in [generation : 0..MaxGeneration, until : Nat]
  BY LeaseAssumption DEF NoRow
<1>3. TypeOK
  BY <1>1, <1>2, CreatedTyped DEF Init, TypeOK, Passes
<1>4. Seen /\ Fitting
  BY RestingFits DEF Init, Seen, Fitting, Resting
<1> QED
  BY <1>3, <1>4 DEF IInv

LEMMA EveryStepAdvances == IInv /\ [Next]_vars => Advances
<1> SUFFICES ASSUME IInv, [Next]_vars PROVE Advances
  OBVIOUS
<1>1. CASE UNCHANGED vars
  BY <1>1 DEF vars, turns, IInv, Advances, TypeOK, Seen, Fitting
<1>2. ASSUME NEW w \in Activators, Activation(w) PROVE Advances
  BY <1>2, ActivationAdvances
<1>3. ASSUME NEW w \in Reconcilers, Lifecycle(w) PROVE Advances
  BY <1>3, LifecycleAdvances
<1>4. CASE Environment
  BY <1>4, EnvironmentAdvances
<1> QED
  BY <1>1, <1>2, <1>3, <1>4 DEF Next, Environment

-----------------------------------------------------------------------------
(* The invariant holds in every reachable state.                           *)
THEOREM Inductive == Spec => []IInv
<1>1. IInv /\ [Next]_vars => IInv'
  BY EveryStepAdvances DEF Advances
<1> QED
  BY <1>1, Initially, PTL DEF Spec

(* Snapshots, fence, claims and passes are well typed.                     *)
THEOREM TypeCorrect == Spec => []TypeOK
<1>1. IInv => TypeOK
  BY DEF IInv
<1> QED
  BY <1>1, Inductive, PTL

(* For any number of replicas acting on whatever they read, leases follow  *)
(* one another, and a warmed computer is never recorded as released.       *)
THEOREM LeasesFollow == Spec => LeasesAreSerial
<1>1. IInv /\ [Next]_vars =>
        [history' # history =>
          /\ history'.generation \in history.generation .. (history.generation + 1)
          /\ history'.generation > history.generation => history.lease \in Ended
          /\ history'.generation = history.generation /\ history.lease \in Ended =>
                history'.lease = history.lease
          /\ history'.lease = "released" /\ history.lease # "released" =>
                /\ history.state = "cooling" /\ history.lease = "active"
                /\ history'.checkpoint = history.generation]_vars
  BY EveryStepAdvances DEF Advances, Serial
<1> QED
  BY <1>1, Inductive, PTL DEF Spec, LeasesAreSerial
=============================================================================
