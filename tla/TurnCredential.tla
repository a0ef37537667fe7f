---------------------------- MODULE TurnCredential ----------------------------
(***************************************************************************)
(* The model credential of one run attempt: a key minted once at the       *)
(* provider, kept in encrypted custody in one database row, disclosed to   *)
(* the executions of the turn and revoked when the turn is answered or     *)
(* stopped.  Every transaction on the row is one step, every provider call *)
(* another, and a fault may fall on each: a transaction that fails, a      *)
(* commit whose acknowledgement is lost, a provider call that is cut off,  *)
(* a crash of the caller.                                                  *)
(*                                                                         *)
(* Abstracted: the ciphertext (custody holds the key or nothing), the      *)
(* budget, and the frozen coordinates, which are the same in every call.   *)
(* Assumed of the environment (ProviderAssumption): a mint request is      *)
(* carried out before the claim it was made under expires.  The code does  *)
(* not check this: its client gives up after a third of that time, and the *)
(* provider goes on with what it received (CarriedOut).                    *)
(***************************************************************************)
EXTENDS Integers, Sequences

CONSTANTS
    None,            \* JavaScript null
    Workers,         \* executions that issue and reuse the credential
    Finishers,       \* the answer's and the Stop's revocation
    ClaimWindow,     \* how long the claim of one mint lasts
    ProviderDelay,   \* within how long of the claim the provider acts on a request
    AuthorityEnds,   \* the instant no key of this attempt may outlive
    MaxIssues,       \* calls of issueOnce in one behaviour
    MaxFaults        \* failures and crashes in one behaviour

ASSUME CredentialAssumption ==
    /\ ClaimWindow \in Nat \ {0} /\ AuthorityEnds \in Nat \ {0}
    /\ MaxIssues \in Nat /\ MaxFaults \in Nat
    /\ Workers \intersect Finishers = {}

CredentialStates == {"pending", "custodied", "ready", "alias_cleanup", "revoking", "revoked"}

(* The claim of a mint outlasts its request. *)
ASSUME ProviderAssumption == ProviderDelay \in 1..ClaimWindow

(* What may be saved; the key is known by the order of its minting. *)
Row == [state : CredentialStates, fence : Nat, until : Nat, key : Nat \union {None}, expires : Nat]

(* None is neither a row nor a key. *)
ASSUME IdentityAssumption == None \notin Row \union Nat

VARIABLES
    row,         \* the saved attempt credential, or None
    keys,        \* keys the provider has minted for the alias: live or deleted
    late,        \* deadlines of mint requests whose caller no longer waits
    call,        \* per caller: the operation it is in and what it holds
    disclosed,   \* keys returned to a caller
    lease,       \* whether the exact active-lease row still exists
    clock,
    issues,      \* calls of issueOnce so far
    faults       \* faults so far

vars == <<row, keys, late, call, disclosed, lease, clock, issues, faults>>
store == <<row, faults>>
world == <<late, disclosed, lease, clock, issues>>

Callers == Workers \union Finishers
Horizon == AuthorityEnds + ClaimWindow

Idle == [pc |-> "idle", fence |-> 0, until |-> 0, key |-> None, notAfter |-> 0]

Init ==
    /\ row = None /\ keys = <<>> /\ late = {} /\ disclosed = {}
    /\ call = [c \in Callers |-> Idle]
    /\ lease = TRUE /\ clock = 0 /\ issues = 0 /\ faults = 0

-----------------------------------------------------------------------------
Has(state) == row # None /\ row.state = state
Encrypted == Has("custodied") \/ Has("ready")

Move(c, next) == call' = [call EXCEPT ![c] = next]
At(c, pc) == call[c].pc = pc
Goes(c, pc) == [call[c] EXCEPT !.pc = pc]
Holding(pc, fence, key) == [Idle EXCEPT !.pc = pc, !.fence = fence, !.key = key]
Returning(key) == Holding("return", 0, key)
Cleaning == Holding("cleanup", 0, None)

(* One Serializable transaction writing new: it commits and the caller goes *)
(* on, or the caller sees an error, whether or not it committed.            *)
Transact(new, c, next, caught) ==
    \/ row' = new /\ Move(c, next) /\ UNCHANGED faults
    \/ /\ faults < MaxFaults /\ faults' = faults + 1
       /\ row' \in {row, new} /\ Move(c, caught)

(* How a caller ends: a worker reports, a finisher has done its duty.       *)
Returned(c) == IF c \in Finishers THEN [Idle EXCEPT !.pc = "done"] ELSE Idle

(* Mutant: a revoked attempt may mint again. *)
MayMintAfterRevocation == row # None => row.state = "revoked"

(* Only a missing row authorises a provider mint. *)
MayMint == row = None

(* Mutant: a mint in progress does not hold cleanup up. *)
ClaimIgnored == TRUE

(* A pending mint is over when its claim has expired. *)
ClaimOver == clock >= row.until

(* The provider may still act on the mint request made under the claim that *)
(* lasts until the given time.                                              *)
CarriedOut(until) == clock < until - ClaimWindow + ProviderDelay

(* The saved key expired or outlives the authority of this call.            *)
Expired(notAfter) == row.expires <= clock \/ row.expires > notAfter

-----------------------------------------------------------------------------
(* issueOnce: claim the first mint, or recover what an earlier call left.   *)
Prepare(w, notAfter) ==
    /\ At(w, "idle") /\ lease /\ clock < notAfter
    /\ issues < MaxIssues /\ issues' = issues + 1
    /\ \/ /\ MayMint
          /\ Transact([state |-> "pending", fence |-> 1, until |-> clock + ClaimWindow,
                       key |-> None, expires |-> 0], w,
                      [pc |-> "minting", fence |-> 1, until |-> clock + ClaimWindow,
                       key |-> None, notAfter |-> notAfter], Idle)
       \/ /\ \/ Has("pending") /\ ClaimOver
             \/ Encrypted /\ Expired(notAfter)
             \/ Has("alias_cleanup") \/ Has("revoking")
          /\ Move(w, Cleaning) /\ UNCHANGED store
       \/ /\ Encrypted /\ ~Expired(notAfter)
          /\ Move(w, IF Has("ready") THEN Returning(row.key)
                     ELSE [Holding("finalize", row.fence, row.key) EXCEPT !.notAfter = notAfter])
          /\ UNCHANGED store
    /\ UNCHANGED <<keys, late, disclosed, lease, clock>>

(* The provider mints the key; the client accepts its response or, finding  *)
(* it unusable, revokes the alias and reports.                              *)
Mint(w) ==
    /\ At(w, "minting") /\ CarriedOut(call[w].until) /\ clock < call[w].notAfter
    /\ keys' = Append(keys, "live")
    /\ \E pc \in {"minted", "unusable"} :
          Move(w, [call[w] EXCEPT !.pc = pc, !.key = Len(keys) + 1])
    /\ UNCHANGED <<store, world>>

(* The deadline of the request or of the authority passes without a key.    *)
MintExpires(w) ==
    /\ At(w, "minting") /\ (clock >= call[w].until \/ clock >= call[w].notAfter)
    /\ Move(w, Idle)
    /\ UNCHANGED <<store, keys, world>>

(* A request the client gave up on may still be carried out.                *)
MintLate(until) ==
    /\ until \in late /\ CarriedOut(until)
    /\ keys' = Append(keys, "live") /\ late' = late \ {until}
    /\ UNCHANGED <<store, call, disclosed, lease, clock, issues>>

(* Mutant: the minted key is returned as soon as its custody is saved. *)
AfterCustody(w) == Returning(call[w].key)

(* What follows saved custody: promotion, before anything is disclosed. *)
AfterStoring(w) == Goes(w, "finalize")

(* Encrypt the key and save it under the claim, whatever became of the run. *)
StoreCustody(w) ==
    /\ At(w, "minted")
    /\ IF clock < call[w].notAfter /\ Has("pending") /\ row.fence = call[w].fence
       THEN Transact([row EXCEPT !.state = "custodied", !.key = call[w].key,
                                 !.expires = call[w].notAfter],
                     w, AfterStoring(w), Goes(w, "retain"))
       ELSE Move(w, Goes(w, "retain")) /\ UNCHANGED store
    /\ UNCHANGED <<keys, world>>

(* Mutant: promotion does not ask what has become of the row. *)
FinalizableByExpiry(fence) == row # None /\ row.expires > clock

Finalizable(fence) == Has("custodied") /\ row.fence = fence /\ row.expires > clock

(* Promote committed custody; a refusal or an error starts its revocation.  *)
Finalize(w) ==
    /\ At(w, "finalize")
    /\ IF lease /\ Finalizable(call[w].fence) /\ row.expires <= call[w].notAfter
       THEN Transact([row EXCEPT !.state = "ready"], w, Returning(call[w].key), Cleaning)
       ELSE Move(w, Cleaning) /\ UNCHANGED store
    /\ UNCHANGED <<keys, world>>

Disclose(w) ==
    /\ At(w, "return")
    /\ disclosed' = disclosed \union {call[w].key}
    /\ Move(w, Idle)
    /\ UNCHANGED <<store, keys, late, lease, clock, issues>>

(* A later request reads the first key again, under current authority.      *)
ReuseExact(w, notAfter) ==
    /\ At(w, "idle") /\ lease /\ clock < notAfter
    /\ Has("ready") /\ ~Expired(notAfter) /\ row.key \in disclosed
    /\ Move(w, Returning(row.key))
    /\ UNCHANGED <<store, keys, world>>

-----------------------------------------------------------------------------
Unmarked(w) == Holding("unmarked", 0, call[w].key)

(* retainAliasCleanup: custody could not be saved.  Mark the row, delete    *)
(* the key in hand, and close the row if it could be marked.                *)
MarkAliasCleanup(w) ==
    /\ At(w, "retain")
    /\ IF Has("pending") /\ row.fence = call[w].fence
       THEN Transact([row EXCEPT !.state = "alias_cleanup", !.until = 0],
                     w, Holding("marked", row.fence, call[w].key), Unmarked(w))
       ELSE Move(w, Unmarked(w)) /\ UNCHANGED store
    /\ UNCHANGED <<keys, world>>

Deleted(key) == [keys EXCEPT ![key] = "deleted"]
Clearing(c) == Holding("clear", call[c].fence, None)
AliasDeleted == [k \in DOMAIN keys |-> "deleted"]

RevokeMinted(w) ==
    /\ \/ At(w, "marked") /\ Move(w, Clearing(w)) /\ keys' = Deleted(call[w].key)
       \/ At(w, "unmarked") /\ Move(w, Idle) /\ keys' = Deleted(call[w].key)
       \/ At(w, "unusable") /\ Move(w, Idle) /\ keys' = AliasDeleted
    /\ UNCHANGED <<store, world>>

(* Mutant: a mint in progress needs no revocation. *)
RevocableOnceCustodied == row # None /\ row.state \notin {"pending", "revoked"}

(* A row without finished revocation still has provider work.               *)
RequiresRevocation == row # None /\ row.state # "revoked"

(* revoke: claim the row under a fresh fence.  It refuses (and its caller   *)
(* retries or reports) while a mint is in progress.                         *)
ClaimRevocation(c) ==
    /\ At(c, IF c \in Finishers THEN "idle" ELSE "cleanup")
    /\ \/ ~RequiresRevocation /\ Move(c, Returned(c)) /\ UNCHANGED store
       \/ /\ RequiresRevocation /\ Has("pending") /\ ~ClaimOver
          /\ c \in Workers /\ Move(c, Idle) /\ UNCHANGED store
       \/ /\ RequiresRevocation /\ (Has("pending") => ClaimOver)
          /\ Transact([row EXCEPT !.state = "revoking", !.fence = @ + 1], c,
                      Holding("provider", row.fence + 1, row.key), Idle)
    /\ UNCHANGED <<keys, world>>

(* Delete the original key or, where it was never saved, its alias.         *)
RevokeCustody(c) ==
    /\ At(c, "provider")
    /\ keys' = IF call[c].key = None THEN AliasDeleted ELSE Deleted(call[c].key)
    /\ Move(c, Clearing(c))
    /\ UNCHANGED <<store, world>>

(* Clear the secret, keep the row: the attempt stays spent.                 *)
FinishRevocation(c) ==
    /\ At(c, "clear")
    /\ IF row.fence = call[c].fence /\ row.state \in {"revoking", "alias_cleanup"}
       THEN Transact([row EXCEPT !.state = "revoked", !.key = None, !.until = 0],
                     c, Returned(c), Idle)
       ELSE Move(c, Returned(c)) /\ UNCHANGED store
    /\ UNCHANGED <<keys, world>>

-----------------------------------------------------------------------------
(* The caller crashes or its provider call is cut off.                      *)
Fail(c) ==
    /\ ~At(c, "idle") /\ ~At(c, "done")
    /\ faults < MaxFaults /\ faults' = faults + 1
    /\ late' = IF At(c, "minting") THEN late \union {call[c].until} ELSE late
    /\ Move(c, Idle)
    /\ UNCHANGED <<row, keys, disclosed, lease, clock, issues>>

LeaseEnds ==
    /\ lease /\ lease' = FALSE
    /\ UNCHANGED <<store, keys, late, call, disclosed, clock, issues>>

Tick ==
    /\ clock < Horizon /\ clock' = clock + 1
    /\ UNCHANGED <<store, keys, late, call, disclosed, lease, issues>>

Revocation(c) == ClaimRevocation(c) \/ RevokeCustody(c) \/ FinishRevocation(c)

Next ==
    \/ \E w \in Workers, notAfter \in 1..AuthorityEnds : Prepare(w, notAfter) \/ ReuseExact(w, notAfter)
    \/ \E w \in Workers :
          \/ Mint(w) \/ MintExpires(w) \/ StoreCustody(w) \/ Finalize(w) \/ Disclose(w)
          \/ MarkAliasCleanup(w) \/ RevokeMinted(w)
    \/ \E c \in Callers : Revocation(c) \/ Fail(c)
    \/ \E until \in late : MintLate(until)
    \/ LeaseEnds \/ Tick

Spec == Init /\ [][Next]_vars

(* The workflow engine repeats the answer's and the Stop's revocation until *)
(* it returns, and time passes.                                             *)
Fairness == (\A f \in Finishers : WF_vars(Revocation(f))) /\ WF_vars(Tick)

FairSpec == Spec /\ Fairness

-----------------------------------------------------------------------------
Pcs == {"idle", "minting", "minted", "unusable", "finalize", "return", "retain", "marked",
        "unmarked", "cleanup", "provider", "clear", "done"}

(* The row and every operation on it have the shape the repository reads.   *)
TypeOK ==
    /\ row # None => row \in Row /\ row.key \in DOMAIN keys \union {None}
    /\ keys \in Seq({"live", "deleted"})
    /\ late \subseteq Nat
    /\ call \in [Callers -> [pc : Pcs, fence : Nat, until : Nat,
                             key : DOMAIN keys \union {None}, notAfter : Nat]]
    /\ disclosed \subseteq DOMAIN keys
    /\ lease \in BOOLEAN /\ clock \in Nat /\ issues \in Nat /\ faults \in Nat

Minting == {w \in Workers : At(w, "minting")}

(* "Every retained failure state refuses another mint": however many calls  *)
(* run, fail or are repeated, one attempt gets one key, so its budget is    *)
(* granted once (conversation-computer-credential-issuance.ts).             *)
MintedOnce ==
    /\ Len(keys) <= 1
    /\ (keys # <<>> \/ late # {}) => Minting = {}
    /\ keys # <<>> => late = {}
    /\ \A v, w \in Minting : v = w
    /\ (Minting # {} \/ late # {} \/ keys # <<>>) => row # None

(* A row closes only over dead keys: once the attempt is marked revoked no  *)
(* key of it works, and no mint that is still under way can produce one.    *)
(* That a mint is not carried out after its claim is ProviderAssumption.    *)
ClosedRowHasNoLiveKey ==
    Has("revoked") =>
        /\ \A k \in DOMAIN keys : keys[k] = "deleted"
        /\ \A until \in late : until <= clock
        /\ \A w \in Minting : call[w].until <= clock

(* A live key in a caller's hands was promoted and is still in custody, so  *)
(* whoever revokes the attempt finds exactly this key.                      *)
LiveKeyStaysInCustody ==
    \A k \in disclosed : keys[k] = "live" =>
        (Has("ready") \/ Has("revoking")) /\ row.key = k

(* Once cleanup has begun on the row nothing promotes it again: a claimed   *)
(* revocation beats a promotion that was already under way.                 *)
CleanupIsFinal ==
    [][row # None /\ row.state \in {"alias_cleanup", "revoking", "revoked"}
       => row' # None /\ row'.state \in {"alias_cleanup", "revoking", "revoked"}]_vars

(* A revocation that still has to return when the row exists leads to an    *)
(* attempt without a live key, through every failure and crash, even of a   *)
(* mint whose response was never received.                                  *)
RevocationCompletes ==
    \A f \in Finishers :
        (row # None /\ ~At(f, "done")) ~> [](\A k \in DOMAIN keys : keys[k] = "deleted")
=============================================================================
