---------------------------- MODULE ComputerLease ----------------------------
(***************************************************************************)
(* The lease of one conversation computer: the activation consumer that    *)
(* opens a generation and finds it a sandbox, the lifecycle worker that    *)
(* renews it, cools it, checkpoints it and releases it or records its loss, *)
(* and the turns that use it.  Both run in every replica of the server.    *)
(*                                                                         *)
(* Three stores hold one lease, and no transaction spans them: the         *)
(* computer's history in KurrentDB, the fence row in PostgreSQL and the    *)
(* sandbox claim in Kubernetes.  A worker reads the history once and       *)
(* carries what it read to the end of its pass; each read or write after   *)
(* it is a step of its own, but for the claim and the turns' activity,     *)
(* which Inspect reads together.                                           *)
(*                                                                         *)
(* Abstracted: identities and profile coordinates; the contents of the     *)
(* workspace; a pending approval, which protects the fence as a credential *)
(* does; queue retries, since a request may be delivered at any time.      *)
(***************************************************************************)
EXTENDS Integers

CONSTANTS
    Activators,     \* consumers of the activation queue
    Reconcilers,    \* lifecycle workers
    MaxGeneration,  \* generations in one behaviour
    Ttl,            \* lifetime of a lease
    StaleAfter,     \* idle time after which a warm computer cools
    RetireAfter,    \* idle time after which a cooling one is released
    MaxClock,       \* last instant of a behaviour
    MaxFaults       \* crashes and deleted sandboxes in one behaviour

ASSUME LeaseAssumption ==
    /\ Activators \intersect Reconcilers = {}
    /\ MaxGeneration \in Nat \ {0} /\ Ttl \in Nat \ {0}
    /\ StaleAfter \in Nat \ {0} /\ RetireAfter \in Nat /\ RetireAfter > StaleAfter
    /\ MaxClock \in Nat /\ MaxFaults \in Nat

VARIABLES
    history,    \* the newest snapshot of the computer and its lease
    fence,      \* the active-lease row; generation 0 when there is none
    sandbox,    \* per generation: its claim, naming the lease it was made for
    published,  \* generations whose checkpoint revision is published
    requested,  \* generations the queue was asked to activate
    worker,     \* per worker: the step it is at and what it read
    activity,   \* per generation: whether a turn runs, and when one last ended
    credential, \* the credential of the running turn; generation 0 when none
    clock,
    faults

vars == <<history, fence, sandbox, published, requested, worker, activity, credential,
          clock, faults>>

Workers == Activators \union Reconcilers
Generations == 1..MaxGeneration
Ended == {"released", "lost"}

Absent == [lease |-> 0, assigned |-> FALSE, shutdown |-> 0]
NoRow == [generation |-> 0, expires |-> 0]

(* Mutant: a computer is created before its first generation. *)
Unborn == [revision |-> 0, event |-> "created", state |-> "cold", generation |-> 0,
           lease |-> "none", expires |-> 0, checkpoint |-> 0, updated |-> 0]

(* A new computer is cold and its first generation is the one to open.      *)
Created == [revision |-> 0, event |-> "created", state |-> "cold", generation |-> 1,
            lease |-> "none", expires |-> 0, checkpoint |-> 0, updated |-> 0]
Resting == [pc |-> "idle", view |-> Created, now |-> 0, asked |-> 1]

Init ==
    /\ history = Created /\ fence = NoRow
    /\ sandbox = [g \in Generations |-> Absent]
    /\ published = {} /\ requested = {}
    /\ worker = [w \in Workers |-> Resting]
    /\ activity = [g \in Generations |-> [busy |-> FALSE, at |-> 0]]
    /\ credential = [generation |-> 0, until |-> 0]
    /\ clock = 0 /\ faults = 0

-----------------------------------------------------------------------------
At(w, pc) == worker[w].pc = pc
View(w) == worker[w].view
Now(w) == worker[w].now
Becomes(w, next) ==
    worker' = [worker EXCEPT ![w] = IF next.pc = "idle" THEN Resting ELSE next]
Goes(w, pc) == Becomes(w, [worker[w] EXCEPT !.pc = pc])
Reads(w, pc) == Becomes(w, [worker[w] EXCEPT !.pc = pc, !.view = history])

turns == <<activity, credential>>
world == <<requested, turns, clock, faults>>

(* Mutant: a snapshot is appended whatever was appended since it was read. *)
AnyRevision(view) == TRUE

(* Nothing was appended since the worker read the history.                  *)
Current(view) == history.revision = view.revision

(* What the history accepts after a snapshot, whoever appends it.           *)
Follows(previous, new) ==
    /\ new.generation >= previous.generation
    /\ new.generation # previous.generation => previous.lease \notin {"claimed", "active"}
    /\ new.generation = previous.generation /\ previous.lease \in Ended =>
          new.lease = previous.lease
    /\ new.generation = previous.generation /\ previous.lease = "active" =>
          new.lease # "claimed"

(* Append a snapshot derived from the view.  A second append of the same    *)
(* event at the same revision may be taken for a replay.                    *)
Append(w, event, snapshot, next) ==
    \/ /\ Current(View(w)) /\ Follows(history, snapshot)
       /\ history' = [snapshot EXCEPT !.revision = history.revision + 1, !.event = event]
       /\ Goes(w, next)
    \/ /\ history.revision = View(w).revision + 1 /\ history.event = event
       /\ history.generation = snapshot.generation
       /\ Goes(w, next) /\ UNCHANGED history
    \/ /\ ~(Current(View(w)) /\ Follows(history, snapshot))
       /\ Goes(w, "idle") /\ UNCHANGED history

Records(w, event, snapshot, next) ==
    /\ Append(w, event, snapshot, next)
    /\ UNCHANGED <<fence, sandbox, published, world>>

-----------------------------------------------------------------------------
(* A message asks for the current generation, or the next when it ended.    *)
Request ==
    LET g == IF history.lease \in Ended THEN history.generation + 1 ELSE history.generation
    IN  /\ g \in Generations \ requested
        /\ requested' = requested \union {g}
        /\ UNCHANGED <<history, fence, sandbox, published, worker, turns, clock, faults>>

InUse(computer, g, now) ==
    /\ computer.generation = g /\ computer.lease = "active" /\ computer.expires > now

(* The generation may be opened: the first, or the one after an ended lease. *)
Opens(computer, g) ==
    \/ computer.state = "cold" /\ computer.lease = "none" /\ computer.generation = g
    \/ /\ computer.state \in {"cold", "cooling"} /\ computer.lease \in Ended
       /\ computer.generation + 1 = g

Claiming(computer) == computer.state = "claim_pending" /\ computer.lease = "claimed"

(* Deliver a request: read the history, and decide by what it says now.     *)
Deliver(w, g) ==
    /\ At(w, "idle") /\ g \in requested
    /\ LET pc == CASE history.state = "warm" /\ InUse(history, g, clock) -> "publish"
                   [] history.state = "cooling" /\ InUse(history, g, clock) -> "rewarm"
                   [] Opens(history, g) -> "reserve"
                   [] Claiming(history) -> "claim"
                   [] OTHER -> "idle"
       IN  /\ pc # "idle"
           /\ Becomes(w, [pc |-> pc, view |-> history, now |-> clock, asked |-> g])
    /\ UNCHANGED <<history, fence, sandbox, published, world>>

(* A cooling computer is warmed again.                                      *)
Rewarm(w) ==
    /\ At(w, "rewarm")
    /\ Records(w, "rewarmed", [View(w) EXCEPT !.state = "warm", !.updated = Now(w)], "publish")

(* Reserve the generation before anything is created for it ...             *)
Reserve(w) ==
    /\ At(w, "reserve")
    /\ Records(w, "claim_pending",
               [View(w) EXCEPT !.state = "claim_pending", !.generation = worker[w].asked,
                               !.lease = "claimed", !.expires = Now(w) + Ttl,
                               !.updated = Now(w)], "reload")

(* ... and read back who owns it.                                           *)
Reload(w) ==
    /\ At(w, "reload")
    /\ Reads(w, CASE history.state = "warm" /\ InUse(history, worker[w].asked, clock) -> "publish"
                  [] Claiming(history) -> "claim"
                  [] OTHER -> "idle")
    /\ UNCHANGED <<history, fence, sandbox, published, world>>

(* Create the claim named by the requested generation, or look whether its  *)
(* sandbox is assigned.                                                     *)
Claim(w) ==
    LET g == worker[w].asked
        claim == [Absent EXCEPT !.lease = View(w).generation, !.shutdown = View(w).expires]
    IN  /\ At(w, "claim")
        /\ \/ /\ sandbox[g] = Absent
              /\ sandbox' = [sandbox EXCEPT ![g] = claim] /\ Goes(w, "idle")
           \/ /\ sandbox[g] = [claim EXCEPT !.assigned = TRUE]
              /\ Goes(w, "activate") /\ UNCHANGED sandbox
           \/ /\ sandbox[g] \notin {Absent, [claim EXCEPT !.assigned = TRUE]}
              /\ Goes(w, "idle") /\ UNCHANGED sandbox
        /\ UNCHANGED <<history, fence, published, world>>

(* The lease keeps the claim it was reserved with.                          *)
Activate(w) ==
    /\ At(w, "activate")
    /\ IF worker[w].asked = View(w).generation
       THEN Records(w, "activated", [View(w) EXCEPT !.state = "warm", !.lease = "active",
                                                    !.updated = clock], "publish")
       ELSE Goes(w, "idle") /\ UNCHANGED <<history, fence, sandbox, published, world>>

(* Create the fence row unless there is one; another lease's is a conflict. *)
Publish(w) ==
    /\ At(w, "publish")
    /\ fence' = IF fence = NoRow
                THEN [generation |-> View(w).generation, expires |-> View(w).expires] ELSE fence
    /\ Goes(w, "idle")
    /\ UNCHANGED <<history, sandbox, published, world>>

-----------------------------------------------------------------------------
(* A lifecycle pass reads the history first ...                             *)
Reconcile(w) ==
    /\ At(w, "idle")
    /\ LET pc == CASE history.state = "cooling" /\ history.lease = "released" -> "finish"
                   [] history.lease \in {"claimed", "active"} ->
                          IF history.expires <= clock THEN "lose" ELSE "inspect"
                   [] OTHER -> "idle"
       IN  /\ pc # "idle"
           /\ Becomes(w, [Resting EXCEPT !.pc = pc, !.view = history, !.now = clock])
    /\ UNCHANGED <<history, fence, sandbox, published, world>>

IdleTime(computer, now) ==
    LET turn == activity[computer.generation]
        last == IF turn.at > computer.updated THEN turn.at ELSE computer.updated
    IN  IF turn.busy \/ now < last THEN 0 ELSE now - last

(* The claim carries the labels of the lease the worker read.               *)
Labelled(computer) == sandbox[computer.generation].lease = computer.generation

RenewalDue(computer, now) ==
    \/ 2 * (computer.expires - now) <= Ttl
    \/ sandbox[computer.generation].shutdown < computer.expires

(* ... then the claim and the turns.                                        *)
Inspect(w) ==
    LET computer == View(w)
        gone == sandbox[computer.generation] = Absent
        idle == IdleTime(computer, Now(w))
    IN  /\ At(w, "inspect")
        /\ Goes(w, IF computer.lease # "active" THEN "idle"
                   ELSE IF gone THEN "lose"
                   ELSE IF ~Labelled(computer) THEN "idle"
                   ELSE IF computer.state = "cooling" /\ idle >= RetireAfter THEN "capture"
                   ELSE IF RenewalDue(computer, Now(w)) THEN "renew"
                   ELSE IF computer.state = "warm" /\ idle >= StaleAfter THEN "cool"
                   ELSE "idle")
        /\ UNCHANGED <<history, fence, sandbox, published, world>>

Cool(w) ==
    /\ At(w, "cool")
    /\ Records(w, "cooled", [View(w) EXCEPT !.state = "cooling"], "idle")

(* Move the claim's shutdown time, then the lease's, then the fence's.      *)
Renew(w) ==
    LET g == View(w).generation
        expires == Now(w) + Ttl
    IN  /\ At(w, "renew")
        /\ IF sandbox[g] # Absent /\ Labelled(View(w)) /\ sandbox[g].shutdown < expires
           THEN sandbox' = [sandbox EXCEPT ![g].shutdown = expires] /\ Goes(w, "renewed")
           ELSE /\ Goes(w, IF sandbox[g] = Absent THEN "lose" ELSE "idle")
                /\ UNCHANGED sandbox
        /\ UNCHANGED <<history, fence, published, world>>

RecordRenewal(w) ==
    /\ At(w, "renewed")
    /\ Records(w, "renewed", [View(w) EXCEPT !.expires = Now(w) + Ttl], "extend")

Extend(w) ==
    /\ At(w, "extend")
    /\ fence' = IF fence.generation = View(w).generation /\ fence.expires < Now(w) + Ttl
                THEN [fence EXCEPT !.expires = Now(w) + Ttl] ELSE fence
    /\ Goes(w, "idle")
    /\ UNCHANGED <<history, sandbox, published, world>>

(* Capture the workspace.  A generation publishes one revision, once.       *)
Capture(w) ==
    LET g == View(w).generation
    IN  /\ At(w, "capture")
        /\ IF sandbox[g].assigned /\ g \notin published
           THEN published' = published \union {g} /\ Goes(w, "release")
           ELSE Goes(w, "idle") /\ UNCHANGED published
        /\ UNCHANGED <<history, fence, sandbox, world>>

(* No turn holds a credential that is still valid.                          *)
Unused == credential.generation = 0 \/ credential.until <= clock

(* Drop the fence of this lease while nobody uses it; with no row the pass  *)
(* goes on, with another lease's row or a user it ends.                     *)
Clear(w) ==
    LET own == fence.generation = View(w).generation /\ Unused
        next == CASE At(w, "lose") -> "delete_lost"
                  [] At(w, "release") -> "record_release"
                  [] OTHER -> "delete"
    IN  /\ worker[w].pc \in {"lose", "release", "finish"}
        /\ fence' = IF own THEN NoRow ELSE fence
        /\ Goes(w, IF own \/ fence = NoRow THEN next ELSE "idle")
        /\ UNCHANGED <<history, sandbox, published, world>>

(* Delete the claim that carries this lease's labels.                       *)
Delete(w) ==
    LET g == View(w).generation
        next == IF At(w, "delete_lost") THEN "record_loss" ELSE "record_cold"
    IN  /\ worker[w].pc \in {"delete_lost", "delete"}
        /\ sandbox' = IF Labelled(View(w)) THEN [sandbox EXCEPT ![g] = Absent] ELSE sandbox
        /\ Goes(w, IF sandbox[g] = Absent \/ Labelled(View(w)) THEN next ELSE "idle")
        /\ UNCHANGED <<history, fence, published, world>>

RecordLoss(w) ==
    /\ At(w, "record_loss")
    /\ Records(w, "lost", [View(w) EXCEPT !.state = "cold", !.lease = "lost",
                                          !.updated = Now(w)], "idle")

RecordRelease(w) ==
    /\ At(w, "record_release")
    /\ Records(w, "released", [View(w) EXCEPT !.lease = "released",
                                              !.checkpoint = View(w).generation], "released")

ReloadReleased(w) ==
    /\ At(w, "released")
    /\ Reads(w, IF history.lease = "released" THEN "delete" ELSE "idle")
    /\ UNCHANGED <<history, fence, sandbox, published, world>>

RecordCold(w) ==
    /\ At(w, "record_cold")
    /\ Records(w, "cold", [View(w) EXCEPT !.state = "cold", !.updated = Now(w)], "idle")

-----------------------------------------------------------------------------
(* A turn starts on the lease the history names, and becomes its activity.  *)
StartTurn(g) ==
    /\ history.state = "warm" /\ InUse(history, g, clock) /\ ~activity[g].busy
    /\ activity' = [activity EXCEPT ![g] = [busy |-> TRUE, at |-> 0]]
    /\ UNCHANGED <<history, fence, sandbox, published, requested, worker, credential,
                   clock, faults>>

(* Its credential is issued under the fence, and ends before it.            *)
IssueCredential(g) ==
    /\ activity[g].busy /\ credential.generation = 0
    /\ fence.generation = g /\ fence.expires > clock
    /\ \E until \in (clock + 1)..fence.expires :
          credential' = [generation |-> g, until |-> until]
    /\ UNCHANGED <<history, fence, sandbox, published, requested, worker, activity,
                   clock, faults>>

(* The turn's credential is revoked before the turn settles.                *)
EndTurn(g) ==
    /\ activity[g].busy
    /\ activity' = [activity EXCEPT ![g] = [busy |-> FALSE, at |-> clock]]
    /\ credential' = IF credential.generation = g THEN [generation |-> 0, until |-> 0]
                     ELSE credential
    /\ UNCHANGED <<history, fence, sandbox, published, requested, worker, clock, faults>>

(* The sandbox controller assigns a sandbox, and ends it at its shutdown.   *)
Assign(g) ==
    /\ sandbox[g] # Absent /\ ~sandbox[g].assigned
    /\ sandbox' = [sandbox EXCEPT ![g].assigned = TRUE]
    /\ UNCHANGED <<history, fence, published, requested, worker, turns, clock, faults>>

ShutDown(g) ==
    /\ sandbox[g] # Absent /\ sandbox[g].shutdown <= clock
    /\ sandbox' = [sandbox EXCEPT ![g] = Absent]
    /\ UNCHANGED <<history, fence, published, requested, worker, turns, clock, faults>>

(* A sandbox disappears, or a worker crashes: its delivery or pass is gone. *)
Vanish(g) ==
    /\ faults < MaxFaults /\ faults' = faults + 1
    /\ sandbox[g] # Absent /\ sandbox' = [sandbox EXCEPT ![g] = Absent]
    /\ UNCHANGED <<history, fence, published, requested, worker, turns, clock>>

Crash(w) ==
    /\ faults < MaxFaults /\ faults' = faults + 1
    /\ ~At(w, "idle") /\ Goes(w, "idle")
    /\ UNCHANGED <<history, fence, sandbox, published, requested, turns, clock>>

Tick ==
    /\ clock < MaxClock /\ clock' = clock + 1
    /\ UNCHANGED <<history, fence, sandbox, published, requested, worker, turns, faults>>

-----------------------------------------------------------------------------
Activation(w) ==
    \/ \E g \in Generations : Deliver(w, g)
    \/ Rewarm(w) \/ Reserve(w) \/ Reload(w) \/ Claim(w) \/ Activate(w) \/ Publish(w)

Lifecycle(w) ==
    \/ Reconcile(w) \/ Inspect(w) \/ Cool(w)
    \/ Renew(w) \/ RecordRenewal(w) \/ Extend(w)
    \/ Capture(w) \/ Clear(w) \/ Delete(w) \/ RecordLoss(w)
    \/ RecordRelease(w) \/ ReloadReleased(w) \/ RecordCold(w)

Next ==
    \/ Request \/ Tick
    \/ \E w \in Activators : Activation(w)
    \/ \E w \in Reconcilers : Lifecycle(w)
    \/ \E w \in Workers : Crash(w)
    \/ \E g \in Generations :
          \/ StartTurn(g) \/ IssueCredential(g) \/ EndTurn(g)
          \/ Assign(g) \/ ShutDown(g) \/ Vanish(g)

Spec == Init /\ [][Next]_vars

-----------------------------------------------------------------------------
Events == {"created", "claim_pending", "activated", "rewarmed", "cooled", "renewed",
           "released", "cold", "lost"}
Pcs == {"idle", "rewarm", "reserve", "reload", "claim", "activate", "publish",
        "inspect", "cool", "renew", "renewed", "extend", "capture", "lose", "release",
        "finish", "delete_lost", "record_loss", "record_release", "released", "delete",
        "record_cold"}

Snapshots ==
    [revision : Nat, event : Events, state : {"cold", "claim_pending", "warm", "cooling"},
     generation : Generations, lease : {"none", "claimed", "active"} \union Ended,
     expires : Nat, checkpoint : 0..MaxGeneration, updated : Nat]

TypeOK ==
    /\ history \in Snapshots
    /\ fence \in [generation : 0..MaxGeneration, expires : Nat]
    /\ sandbox \in [Generations -> [lease : 0..MaxGeneration, assigned : BOOLEAN,
                                    shutdown : Nat]]
    /\ published \subseteq Generations /\ requested \subseteq Generations
    /\ worker \in [Workers -> [pc : Pcs, view : Snapshots, now : Nat, asked : Generations]]
    /\ activity \in [Generations -> [busy : BOOLEAN, at : Nat]]
    /\ credential \in [generation : 0..MaxGeneration, until : Nat]
    /\ clock \in Nat /\ faults \in Nat

(* However many replicas act on what they read earlier, leases follow one   *)
(* another: the next opens only after the last was released or lost, one    *)
(* that ended stays ended, and only a computer that was still cooling when  *)
(* the release was recorded is released, with this generation's checkpoint, *)
(* never one a message warmed again.                                        *)
LeasesAreSerial ==
    [][history' # history =>
          /\ history'.generation \in history.generation .. (history.generation + 1)
          /\ history'.generation > history.generation => history.lease \in Ended
          /\ history'.generation = history.generation /\ history.lease \in Ended =>
                history'.lease = history.lease
          /\ history'.lease = "released" /\ history.lease # "released" =>
                /\ history.state = "cooling" /\ history.lease = "active"
                /\ history'.checkpoint = history.generation]_vars

(* "Prevents lifecycle cleanup while an admitted attempt or pending approval *)
(* still uses the current lease"                                            *)
(* (conversation-computer-lifecycle.types.ts): no lease ends in the history *)
(* while a turn holds a valid credential for it.  Not so: a pass looks at   *)
(* the row once, when it clears it.  A consumer that found the computer     *)
(* warm publishes the row afterwards, a turn gets its credential, and the   *)
(* pass goes on to delete the claim and to record the loss.                 *)
UsedLeaseIsKept ==
    [][history'.lease \in Ended /\ history.lease \notin Ended =>
          ~(credential.generation = history.generation /\ credential.until > clock)]_vars
=============================================================================
