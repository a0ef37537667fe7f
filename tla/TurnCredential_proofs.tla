------------------------ MODULE TurnCredential_proofs ------------------------
(***************************************************************************)
(* Theorems about the attempt credential, for any number of executions,    *)
(* revocations, calls and faults: one key is minted, a live key in a       *)
(* caller's hands is in custody, and a closed row covers no live key.      *)
(*                                                                         *)
(* The invariant says what each caller may conclude from what it holds:    *)
(* once the row has left "pending" no mint can land any more, so a key     *)
(* deleted after that stays the last one.                                  *)
(***************************************************************************)
EXTENDS TurnCredential, TLAPS

RowType == {r \in Row : r.key \in DOMAIN keys \union {None}}
CallType == [pc : Pcs, fence : Nat, until : Nat, key : DOMAIN keys \union {None}, notAfter : Nat]

Left == row # None /\ row.state # "pending"
NoLiveKey == \A k \in DOMAIN keys : keys[k] = "deleted"

(* What a caller holds at each point of an operation.                       *)
Holds(c) ==
    /\ call[c].pc \in {"minted", "unusable", "finalize", "return", "retain", "marked", "unmarked"}
          => call[c].key \in DOMAIN keys
    /\ call[c].pc \in {"marked", "provider", "clear"} => Left
    /\ call[c].pc = "clear" => NoLiveKey
    /\ c \in Finishers => call[c].pc \in {"idle", "provider", "clear", "done"}

(* A live key k is promoted and in custody.                                 *)
InCustody(k) == keys[k] = "live" => (Has("ready") \/ Has("revoking")) /\ row.key = k

(* The requests that can still produce a key were made under the row's      *)
(* claim, and are over once the row has left it.                            *)
MintsAreTimed ==
    /\ \A until \in late : row # None /\ (IF Has("pending") THEN until <= row.until ELSE until <= clock)
    /\ \A w \in Minting :
          row # None /\ (IF Has("pending") THEN call[w].until <= row.until ELSE call[w].until <= clock)

IInv ==
    /\ TypeOK
    /\ \A c \in Callers : Holds(c)
    /\ Encrypted => row.key \in DOMAIN keys
    /\ MintedOnce
    /\ \A a, b \in late : a = b
    /\ MintsAreTimed
    /\ Has("revoked") => NoLiveKey
    /\ \A k \in disclosed : InCustody(k)
    /\ \A w \in Workers : At(w, "return") => InCustody(call[w].key)

-----------------------------------------------------------------------------
(* A caller that moves holds what it moved to, and the others what they held.*)
LEMMA OneMoves ==
    ASSUME TypeOK, NEW c \in Callers, NEW next, Move(c, next)
    PROVE  /\ call' = [d \in Callers |-> IF d = c THEN next ELSE call[d]]
           /\ call'[c] = next
           /\ \A d \in Callers : d # c => call'[d] = call[d]
  BY DEF TypeOK, Move

(* Where keys and the row stay, only the moved caller has to be looked at.  *)
LEMMA HolderMoves ==
    ASSUME IInv, NEW c \in Callers, NEW next, Move(c, next),
           UNCHANGED <<row, keys, late, disclosed, lease, clock>>,
           issues' \in Nat, faults' \in Nat,
           next \in CallType, next.pc # "minting",
           next.pc \in {"minted", "unusable", "finalize", "return", "retain", "marked", "unmarked"}
              => next.key \in DOMAIN keys,
           next.pc \in {"marked", "provider", "clear"} => Left,
           next.pc = "clear" => NoLiveKey,
           next.pc = "return" => InCustody(next.key),
           c \in Finishers => next.pc \in {"idle", "provider", "clear", "done"}
    PROVE  IInv'
<1>1. TypeOK'
  <2>1. call \in [Callers -> CallType] BY DEF IInv, TypeOK, CallType
  <2>2. call' \in [Callers -> CallType] BY <2>1, OneMoves DEF IInv
  <2> QED BY <2>2 DEF IInv, TypeOK, CallType
<1>2. ASSUME NEW d \in Callers PROVE Holds(d)'
  <2>1. CASE d = c
    BY <2>1, OneMoves DEF IInv, Holds, Left, NoLiveKey
  <2>2. CASE d # c
    <3>1. call'[d] = call[d] BY <2>2, OneMoves DEF IInv
    <3> QED BY <3>1 DEF IInv, Holds, Left, NoLiveKey
  <2> QED BY <2>1, <2>2
<1>3. Minting' \subseteq Minting
  BY OneMoves DEF IInv, Minting, At, Callers
<1>4. \A w \in Minting' : call'[w] = call[w]
  BY OneMoves DEF IInv, Minting, At, Callers
<1>5. MintedOnce' /\ MintsAreTimed'
  BY <1>3, <1>4 DEF IInv, MintedOnce, MintsAreTimed, Has
<1>6. \A w \in Workers : At(w, "return")' => InCustody(call[w].key)'
  BY OneMoves DEF IInv, At, InCustody, Has, Callers
<1> QED BY <1>1, <1>2, <1>5, <1>6 DEF IInv, Encrypted, Has, NoLiveKey, InCustody

(* What a write to the row has to establish, beside the caller's move.      *)
LEMMA RowWritten ==
    ASSUME IInv, NEW c \in Callers, NEW next, Move(c, next),
           UNCHANGED <<keys, late, disclosed, lease, clock, issues>>, faults' \in Nat,
           row # None, row' \in RowType, row'.state # "pending",
           Left \/ keys # <<>> \/ clock >= row.until,
           row'.state \in {"custodied", "ready"} => row'.key \in DOMAIN keys,
           row'.state = "revoked" => NoLiveKey,
           NoLiveKey \/ ((Has("ready") \/ Has("revoking")) =>
                            (row'.state \in {"ready", "revoking"} /\ row'.key = row.key)),
           next \in CallType, next.pc # "minting",
           next.pc \in {"minted", "unusable", "finalize", "return", "retain", "marked", "unmarked"}
              => next.key \in DOMAIN keys,
           next.pc = "clear" => NoLiveKey,
           next.pc = "return" => (row'.state \in {"ready", "revoking"} /\ row'.key = next.key),
           c \in Finishers => next.pc \in {"idle", "provider", "clear", "done"}
    PROVE  IInv'
<1>0. row' # None
  BY IdentityAssumption DEF RowType
<1>1. TypeOK'
  <2>1. call \in [Callers -> CallType] BY DEF IInv, TypeOK, CallType
  <2>2. call' \in [Callers -> CallType] BY <2>1, OneMoves DEF IInv
  <2> QED BY <2>2 DEF IInv, TypeOK, CallType, RowType
<1>2. ASSUME NEW d \in Callers PROVE Holds(d)'
  <2>1. CASE d = c
    BY <1>0, <2>1, OneMoves DEF IInv, Holds, Left, NoLiveKey
  <2>2. CASE d # c
    <3>1. call'[d] = call[d] BY <2>2, OneMoves DEF IInv
    <3> QED BY <1>0, <3>1 DEF IInv, Holds, Left, NoLiveKey
  <2> QED BY <2>1, <2>2
<1>3. Minting' \subseteq Minting /\ \A w \in Minting' : call'[w] = call[w]
  BY OneMoves DEF IInv, Minting, At, Callers
<1>4. MintedOnce'
  BY <1>0, <1>3 DEF IInv, MintedOnce
<1>5. MintsAreTimed'
  <2>1. CASE Left
    BY <1>0, <1>3, <2>1 DEF IInv, MintsAreTimed, Has, Left
  <2>2. CASE keys # <<>>
    BY <1>0, <1>3, <2>2 DEF IInv, MintedOnce, MintsAreTimed
  <2>3. CASE ~Left /\ clock >= row.until
    <3>1. Has("pending") /\ row.until \in Nat /\ clock \in Nat /\ late \subseteq Nat
      BY <2>3 DEF Left, Has, IInv, TypeOK, Row
    <3>2. \A w \in Minting : call[w].until \in Nat
      BY DEF IInv, TypeOK, Minting, Callers
    <3>3. \A until \in late : until <= clock
      BY <2>3, <3>1 DEF IInv, MintsAreTimed
    <3>4. \A w \in Minting : call[w].until <= clock
      BY <2>3, <3>1, <3>2 DEF IInv, MintsAreTimed
    <3> QED BY <1>0, <1>3, <3>3, <3>4 DEF MintsAreTimed, Has
  <2> QED BY <2>1, <2>2, <2>3
<1>6. \A k \in DOMAIN keys : InCustody(k) => InCustody(k)'
  BY <1>0 DEF InCustody, Has, NoLiveKey
<1>7. ASSUME NEW w \in Workers, At(w, "return")' PROVE InCustody(call[w].key)'
  <2>1. CASE w = c
    <3>1. call'[w] = next BY <2>1, OneMoves DEF IInv
    <3>2. next.pc = "return" BY <1>7, <3>1 DEF At
    <3> QED BY <1>0, <3>1, <3>2 DEF InCustody, Has
  <2>2. CASE w # c
    <3>1. call'[w] = call[w] BY <2>2, OneMoves DEF IInv, Callers
    <3>2. At(w, "return") /\ call[w].key \in DOMAIN keys
      BY <1>7, <3>1 DEF At, IInv, Holds, Callers
    <3> QED BY <1>6, <3>1, <3>2 DEF IInv, InCustody, Has
  <2> QED BY <2>1, <2>2
<1>8. \A k \in disclosed' : InCustody(k)'
  BY <1>6 DEF IInv, TypeOK
<1> QED BY <1>0, <1>1, <1>2, <1>4, <1>5, <1>7, <1>8 DEF IInv, Encrypted, Has, NoLiveKey

(* Deleting every key of the alias, or the only one.                        *)
LEMMA DeletionEndsTheKey ==
    ASSUME IInv, \/ keys' = AliasDeleted
                 \/ \E k \in DOMAIN keys : keys' = Deleted(k)
    PROVE  /\ keys' \in Seq({"live", "deleted"})
           /\ Len(keys') = Len(keys) /\ DOMAIN keys' = DOMAIN keys
           /\ NoLiveKey'
<1>1. keys \in Seq({"live", "deleted"}) /\ Len(keys) \in Nat /\ Len(keys) <= 1
  BY DEF IInv, TypeOK, MintedOnce
<1>2. CASE keys' = AliasDeleted
  <2>1. keys' = [k \in 1..Len(keys) |-> "deleted"]
    BY <1>1, <1>2 DEF AliasDeleted
  <2>2. keys' \in Seq({"live", "deleted"}) /\ Len(keys') = Len(keys) /\ DOMAIN keys' = DOMAIN keys
    BY <1>1, <2>1
  <2> QED BY <2>1, <2>2 DEF NoLiveKey
<1>3. CASE \E k \in DOMAIN keys : keys' = Deleted(k)
  <2>1. PICK k \in DOMAIN keys : keys' = Deleted(k)
    BY <1>3
  <2>2. k \in 1..Len(keys) /\ keys' = [keys EXCEPT ![k] = "deleted"]
    BY <1>1, <2>1 DEF Deleted
  <2>3. \A i \in 1..Len(keys) : i = k
    BY <1>1, <2>2
  <2>4. keys' \in Seq({"live", "deleted"}) /\ Len(keys') = Len(keys) /\ DOMAIN keys' = DOMAIN keys
    BY <1>1, <2>2
  <2> QED BY <1>1, <2>2, <2>3, <2>4 DEF NoLiveKey
<1> QED BY <1>2, <1>3

LEMMA KeyDies ==
    ASSUME IInv, NEW c \in Callers, NEW next, Move(c, next),
           UNCHANGED <<store, world>>,
           \/ keys' = AliasDeleted
           \/ \E k \in DOMAIN keys : keys' = Deleted(k),
           next \in CallType, next.pc \in {"idle", "clear"}, next.pc = "clear" => Left
    PROVE  IInv'
<1>1. /\ keys' \in Seq({"live", "deleted"})
      /\ Len(keys') = Len(keys) /\ DOMAIN keys' = DOMAIN keys /\ NoLiveKey'
  BY DeletionEndsTheKey
<1>2. TypeOK'
  <2>1. call \in [Callers -> CallType] BY DEF IInv, TypeOK, CallType
  <2>2. call' \in [Callers -> CallType] BY <2>1, OneMoves DEF IInv
  <2> QED BY <1>1, <2>2 DEF IInv, TypeOK, CallType, store, world
<1>3. ASSUME NEW d \in Callers PROVE Holds(d)'
  <2>1. CASE d = c
    BY <1>1, <2>1, OneMoves DEF IInv, Holds, Left, store
  <2>2. CASE d # c
    <3>1. call'[d] = call[d] BY <2>2, OneMoves DEF IInv
    <3> QED BY <1>1, <3>1 DEF IInv, Holds, Left, store
  <2> QED BY <2>1, <2>2
<1>4. Minting' \subseteq Minting /\ \A w \in Minting' : call'[w] = call[w]
  BY OneMoves DEF IInv, Minting, At, Callers
<1>5. keys' # <<>> <=> keys # <<>>
  BY <1>1 DEF IInv, TypeOK
<1>6. MintedOnce' /\ MintsAreTimed'
  BY <1>1, <1>4, <1>5 DEF IInv, MintedOnce, MintsAreTimed, Has, store, world
<1>7. \A k \in DOMAIN keys' : InCustody(k)'
  BY <1>1 DEF InCustody, NoLiveKey
<1>8. \A w \in Workers : At(w, "return")' => InCustody(call[w].key)'
  BY <1>3, <1>7 DEF Holds, At, Callers
<1> QED BY <1>1, <1>2, <1>3, <1>6, <1>7, <1>8 DEF IInv, TypeOK, Encrypted, Has, store, world

(* The first key: before it there was none, and the row awaits it.          *)
LEMMA KeyMinted ==
    ASSUME IInv, keys' = Append(keys, "live"),
           UNCHANGED <<store, disclosed, lease, clock, issues>>,
           call' \in [Callers -> CallType]', late' = {}, Minting' = {}, keys = <<>>, ~Left, row # None,
           \A d \in Callers : \/ call'[d] = call[d]
                              \/ d \in Workers /\ call'[d].pc \in {"minted", "unusable"}
                                 /\ call'[d].key \in DOMAIN keys'
    PROVE  IInv'
<1>1. keys' = <<"live">> /\ keys' \in Seq({"live", "deleted"}) /\ DOMAIN keys' = {1} /\ Len(keys') = 1
      /\ DOMAIN keys = {}
  BY DEF IInv, TypeOK
<1>2. TypeOK'
  BY <1>1 DEF IInv, TypeOK, CallType, store
<1>3. ASSUME NEW d \in Callers PROVE Holds(d)'
  <2>1. CASE call'[d] = call[d]
    BY <1>1, <2>1 DEF IInv, Holds, Left, store
  <2>2. CASE d \in Workers /\ call'[d].pc \in {"minted", "unusable"} /\ call'[d].key \in DOMAIN keys'
    BY <1>1, <2>2, CredentialAssumption DEF Holds
  <2> QED BY <2>1, <2>2
<1>4. MintedOnce' /\ MintsAreTimed'
  BY <1>1 DEF MintedOnce, MintsAreTimed, store
<1>5. \A w \in Workers : ~At(w, "return")'
  BY <1>1 DEF IInv, Holds, At, Callers
<1>6. disclosed' = {}
  BY <1>1 DEF IInv, TypeOK
<1> QED BY <1>1, <1>2, <1>3, <1>4, <1>5, <1>6 DEF IInv, Encrypted, Has, Left, store

-----------------------------------------------------------------------------
LEMMA HoldingTyped ==
    ASSUME NEW pc \in Pcs, NEW fence \in Nat, NEW key \in DOMAIN keys \union {None}
    PROVE  /\ Holding(pc, fence, key) \in CallType
           /\ Holding(pc, fence, key).pc = pc /\ Holding(pc, fence, key).fence = fence
           /\ Holding(pc, fence, key).key = key
  BY DEF Holding, Idle, CallType

LEMMA IdleTyped == Idle \in CallType /\ Idle.pc = "idle"
  BY DEF Idle, CallType, Pcs

LEMMA GoesTyped ==
    ASSUME IInv, NEW c \in Callers, NEW pc \in Pcs
    PROVE  /\ Goes(c, pc) \in CallType /\ Goes(c, pc).pc = pc
           /\ Goes(c, pc).key = call[c].key /\ Goes(c, pc).fence = call[c].fence
  BY DEF IInv, TypeOK, Goes, CallType

LEMMA ReturnedTyped ==
    ASSUME NEW c \in Callers
    PROVE  Returned(c) \in CallType /\ Returned(c).pc \in {"idle", "done"}
  BY DEF Returned, Idle, CallType, Pcs

(* A call that stays a caller's own affair.                                 *)
LEMMA IdleMoves ==
    ASSUME IInv, NEW c \in Callers, Move(c, Idle),
           UNCHANGED <<row, keys, late, disclosed, lease, clock>>, issues' \in Nat, faults' \in Nat
    PROVE  IInv'
  BY IdleTyped, HolderMoves

LEMMA RowClaimed ==
    ASSUME IInv, NEW w \in Workers, NEW next, Move(w, next), row = None,
           row' = [state |-> "pending", fence |-> 1, until |-> clock + ClaimWindow,
                   key |-> None, expires |-> 0],
           UNCHANGED <<keys, late, disclosed, lease, clock>>, issues' \in Nat, faults' \in Nat,
           next \in CallType, next.pc \in {"minting", "idle"}, next.pc = "minting" => next.until = clock + ClaimWindow
    PROVE  IInv'
<1>1. row' \in Row /\ row' # None /\ Has("pending")'
  BY CredentialAssumption, IdentityAssumption DEF Row, CredentialStates, Has, IInv, TypeOK
<1>2. keys = <<>> /\ late = {} /\ Minting = {} /\ DOMAIN keys = {} /\ disclosed = {}
  BY DEF IInv, MintedOnce, TypeOK
<1>3. TypeOK'
  <2>1. call \in [Callers -> CallType] BY DEF IInv, TypeOK, CallType
  <2>2. call' \in [Callers -> CallType] BY <2>1, OneMoves DEF IInv, Callers
  <2> QED BY <1>1, <2>2 DEF IInv, TypeOK, CallType
<1>4. ASSUME NEW d \in Callers PROVE Holds(d)'
  <2>1. CASE d = w
    BY <2>1, OneMoves, CredentialAssumption DEF IInv, Holds, Callers
  <2>2. CASE d # w
    <3>1. call'[d] = call[d] BY <2>2, OneMoves DEF IInv, Callers
    <3> QED BY <3>1 DEF IInv, Holds, Left
  <2> QED BY <2>1, <2>2
<1>5. Minting' \subseteq {w} /\ \A v \in Minting' : call'[v].until = clock + ClaimWindow
  BY <1>2, OneMoves DEF IInv, Minting, At, Callers
<1>6. MintedOnce' /\ MintsAreTimed'
  <2>1. clock + ClaimWindow \in Nat BY CredentialAssumption DEF IInv, TypeOK
  <2> QED BY <1>1, <1>2, <1>5, <2>1 DEF MintedOnce, MintsAreTimed
<1>7. \A v \in Workers : ~At(v, "return")'
  BY <1>2, <1>4 DEF Holds, At, Callers
<1> QED BY <1>1, <1>2, <1>3, <1>4, <1>6, <1>7 DEF IInv, Encrypted, Has

LEMMA PrepareStep ==
    ASSUME IInv, NEW w \in Workers, NEW notAfter \in 1..AuthorityEnds, Prepare(w, notAfter)
    PROVE  IInv'
<1> USE DEF Callers
<1>0. issues' \in Nat /\ UNCHANGED <<keys, late, disclosed, lease, clock>>
  BY DEF Prepare, IInv, TypeOK
<1>1. CASE MayMint /\ Transact([state |-> "pending", fence |-> 1, until |-> clock + ClaimWindow,
                       key |-> None, expires |-> 0], w,
                      [pc |-> "minting", fence |-> 1, until |-> clock + ClaimWindow,
                       key |-> None, notAfter |-> notAfter], Idle)
  <2> DEFINE claim == [pc |-> "minting", fence |-> 1, until |-> clock + ClaimWindow,
                       key |-> None, notAfter |-> notAfter]
  <2>1. claim \in CallType /\ claim.pc = "minting" /\ claim.until = clock + ClaimWindow
    BY CredentialAssumption DEF CallType, Pcs, IInv, TypeOK
  <2>2. faults' \in Nat /\ row = None
    BY <1>1 DEF MayMint, Transact, IInv, TypeOK
  <2>3. CASE row' = row /\ Move(w, Idle)
    BY <1>0, <2>2, <2>3, IdleMoves
  <2>4. CASE /\ row' = [state |-> "pending", fence |-> 1, until |-> clock + ClaimWindow,
                        key |-> None, expires |-> 0]
             /\ Move(w, Idle)
    BY <1>0, <2>2, <2>4, IdleTyped, RowClaimed
  <2>5. CASE /\ row' = [state |-> "pending", fence |-> 1, until |-> clock + ClaimWindow,
                        key |-> None, expires |-> 0]
             /\ Move(w, claim)
    <3> HIDE DEF claim
    <3> QED BY <1>0, <2>1, <2>2, <2>5, RowClaimed
  <2> QED BY <1>1, <2>3, <2>4, <2>5 DEF Transact
<1>2. CASE Move(w, Cleaning) /\ UNCHANGED store
  <2>1. Cleaning \in CallType /\ Cleaning.pc = "cleanup"
    BY HoldingTyped DEF Cleaning, Pcs
  <2> QED BY <1>0, <1>2, <2>1, HolderMoves, CredentialAssumption DEF store, IInv, TypeOK
<1>3. CASE /\ Encrypted /\ ~Expired(notAfter) /\ UNCHANGED store
           /\ Move(w, IF Has("ready") THEN Returning(row.key)
                      ELSE [Holding("finalize", row.fence, row.key) EXCEPT !.notAfter = notAfter])
  <2>1. row \in Row /\ row.key \in DOMAIN keys /\ row.fence \in Nat /\ notAfter \in Nat
    BY <1>3 DEF IInv, TypeOK, Encrypted, Has, Row
  <2>2. CASE Has("ready")
    <3>1. Returning(row.key) \in CallType /\ Returning(row.key).pc = "return" /\ Returning(row.key).key = row.key
      BY <2>1, HoldingTyped DEF Returning, Pcs
    <3>2. InCustody(row.key)
      BY <2>2 DEF InCustody
    <3> QED BY <1>0, <1>3, <2>1, <2>2, <3>1, <3>2, HolderMoves, CredentialAssumption DEF store, IInv, TypeOK
  <2>3. CASE ~Has("ready")
    <3> DEFINE h == [Holding("finalize", row.fence, row.key) EXCEPT !.notAfter = notAfter]
    <3>1. h \in CallType /\ h.pc = "finalize" /\ h.key = row.key
      BY <2>1 DEF Holding, Idle, CallType, Pcs
    <3>2. Move(w, h) /\ faults' \in Nat /\ row' = row
      BY <1>3, <2>3 DEF store, IInv, TypeOK
    <3> HIDE DEF h
    <3> QED BY <1>0, <2>1, <3>1, <3>2, HolderMoves, CredentialAssumption
  <2> QED BY <2>2, <2>3
<1> QED BY <1>1, <1>2, <1>3 DEF Prepare

(* A request that can still produce a key meets a row that awaits it.       *)
LEMMA MintIsAwaited ==
    ASSUME IInv, \/ \E w \in Minting : clock < call[w].until
                 \/ \E until \in late : clock < until
    PROVE  Has("pending") /\ ~Left /\ row # None /\ keys = <<>>
<1>1. clock \in Nat /\ late \subseteq Nat /\ \A w \in Minting : call[w].until \in Nat
  BY DEF IInv, TypeOK, Minting, Callers
<1>2. Has("pending") /\ row # None
  <2>1. ASSUME NEW w \in Minting, clock < call[w].until PROVE Has("pending")
    <3>1. ~(call[w].until <= clock) BY <1>1, <2>1
    <3> QED BY <3>1 DEF IInv, MintsAreTimed
  <2>2. ASSUME NEW until \in late, clock < until PROVE Has("pending")
    <3>1. ~(until <= clock) BY <1>1, <2>2
    <3> QED BY <3>1 DEF IInv, MintsAreTimed
  <2> QED BY <2>1, <2>2 DEF Has
<1>3. keys = <<>>
  BY DEF IInv, MintedOnce
<1> QED BY <1>2, <1>3 DEF Has, Left

(* A request is carried out only under its claim.                           *)
LEMMA CarriedOutUnderClaim ==
    ASSUME IInv, NEW until \in Nat, CarriedOut(until)
    PROVE  clock < until
<1>1. clock \in Nat /\ ClaimWindow \in Nat /\ ProviderDelay \in Nat /\ ProviderDelay <= ClaimWindow
  BY CredentialAssumption, ProviderAssumption DEF IInv, TypeOK
<1>2. clock < until - ClaimWindow + ProviderDelay
  BY DEF CarriedOut
<1> QED
  BY <1>1, <1>2

LEMMA MintStep ==
    ASSUME IInv, NEW w \in Workers, Mint(w)
    PROVE  IInv'
<1> USE DEF Callers
<1>0. call[w].until \in Nat
  BY DEF IInv, TypeOK
<1>1. /\ w \in Minting /\ clock < call[w].until
      /\ keys' = Append(keys, "live") /\ UNCHANGED <<store, world>>
  BY <1>0, CarriedOutUnderClaim DEF Mint, Minting
<1>2. keys = <<>> /\ ~Left /\ row # None
  BY <1>1, MintIsAwaited
<1>3. Minting = {w} /\ late = {} /\ keys' = <<"live">> /\ DOMAIN keys' = {1}
  BY <1>1, <1>2 DEF IInv, MintedOnce
<1>4. PICK pc \in {"minted", "unusable"} : Move(w, [call[w] EXCEPT !.pc = pc, !.key = Len(keys) + 1])
  BY DEF Mint
<1> DEFINE next == [call[w] EXCEPT !.pc = pc, !.key = Len(keys) + 1]
<1>5. next.pc = pc /\ next.key = 1 /\ next \in [pc : Pcs, fence : Nat, until : Nat,
                                              key : {1, None}, notAfter : Nat]
  <2>1. call[w] \in CallType BY DEF IInv, TypeOK, CallType
  <2>2. Len(keys) + 1 = 1 /\ pc \in Pcs BY <1>2 DEF Pcs
  <2> DEFINE named == [call[w] EXCEPT !.pc = pc]
  <2>3. named \in CallType /\ named.pc = pc
    BY <2>1, <2>2 DEF CallType
  <2>4. next = [named EXCEPT !.key = Len(keys) + 1]
    BY Zenon
  <2> HIDE DEF named, next
  <2>5. named \in [pc : Pcs, fence : Nat, until : Nat, key : {None}, notAfter : Nat]
    BY <1>2, <2>3 DEF CallType, IInv, TypeOK
  <2> QED BY <2>2, <2>3, <2>4, <2>5
<1>6. call'[w] = next /\ \A d \in Callers : d # w => call'[d] = call[d]
  BY <1>4, OneMoves DEF IInv
<1>7. call' \in [Callers -> CallType]'
  <2>1. call \in [Callers -> [pc : Pcs, fence : Nat, until : Nat, key : {None}, notAfter : Nat]]
    BY <1>2 DEF IInv, TypeOK
  <2>2. call' = [d \in Callers |-> IF d = w THEN next ELSE call[d]]
    BY <1>4, OneMoves DEF IInv
  <2> HIDE DEF next
  <2> QED BY <1>3, <1>5, <2>1, <2>2 DEF CallType
<1>8. Minting' = {}
  <2> HIDE DEF next
  <2>1. \A v \in Workers : v # w => ~At(v, "minting") /\ call'[v] = call[v]
    BY <1>3, <1>6 DEF Minting
  <2> QED BY <1>5, <1>6, <2>1 DEF Minting, At
<1> HIDE DEF next
<1> QED BY <1>1, <1>2, <1>3, <1>5, <1>6, <1>7, <1>8, KeyMinted DEF store, world

LEMMA MintLateStep ==
    ASSUME IInv, NEW until \in late, MintLate(until)
    PROVE  IInv'
<1>0. until \in Nat
  BY DEF IInv, TypeOK
<1>1. /\ clock < until /\ keys' = Append(keys, "live") /\ late' = late \ {until}
      /\ call' = call /\ UNCHANGED <<store, disclosed, lease, clock, issues>>
  BY <1>0, CarriedOutUnderClaim DEF MintLate
<1>2. keys = <<>> /\ ~Left /\ row # None
  BY <1>1, MintIsAwaited
<1>3. Minting' = {} /\ late' = {}
  BY <1>1 DEF IInv, MintedOnce, Minting, At
<1>4. DOMAIN keys = {} /\ DOMAIN keys' = {1}
  BY <1>1, <1>2
<1>5. call' \in [Callers -> CallType]'
  BY <1>1, <1>4 DEF IInv, TypeOK, CallType
<1> QED BY <1>1, <1>2, <1>3, <1>5, KeyMinted

LEMMA StoreCustodyStep ==
    ASSUME IInv, NEW w \in Workers, StoreCustody(w)
    PROVE  IInv'
<1> USE DEF Callers
<1>0. UNCHANGED <<keys, late, disclosed, lease, clock, issues>> /\ issues \in Nat /\ faults' \in Nat
  BY DEF StoreCustody, world, store, Transact, IInv, TypeOK
<1>1. call[w].key \in DOMAIN keys /\ w \notin Finishers
  BY CredentialAssumption DEF StoreCustody, At, IInv, Holds
<1>2. /\ Goes(w, "retain") \in CallType /\ Goes(w, "retain").pc = "retain"
      /\ Goes(w, "retain").key = call[w].key
  BY GoesTyped DEF Pcs
<1>3. CASE row' = row /\ Move(w, Goes(w, "retain"))
  BY <1>0, <1>1, <1>2, <1>3, HolderMoves
<1>4. CASE /\ Has("pending")
           /\ row' = [row EXCEPT !.state = "custodied", !.key = call[w].key, !.expires = call[w].notAfter]
           /\ Move(w, AfterStoring(w)) \/ Move(w, Goes(w, "retain"))
  <2>1. row # None /\ row' \in RowType /\ row'.state = "custodied" /\ row'.key = call[w].key
        /\ ~Has("ready") /\ ~Has("revoking")
    <3>1. row # None /\ row \in Row /\ row.state = "pending" BY <1>4 DEF Has, IInv, TypeOK
    <3>2. call[w].notAfter \in Nat /\ DOMAIN keys \subseteq Nat BY DEF IInv, TypeOK
    <3>3. row' \in Row /\ row'.state = "custodied" /\ row'.key = call[w].key
      BY <1>1, <1>4, <3>1, <3>2 DEF Row, CredentialStates
    <3> QED BY <1>0, <1>1, <3>1, <3>3 DEF RowType, Has
  <2>2. keys # <<>>
    BY <1>1 DEF IInv, TypeOK
  <2>3. CASE Move(w, Goes(w, "retain"))
    BY <1>0, <1>1, <1>2, <2>1, <2>2, <2>3, RowWritten
  <2>4. CASE Move(w, AfterStoring(w))
    <3>1. /\ AfterStoring(w) \in CallType /\ AfterStoring(w).pc = "finalize"
          /\ AfterStoring(w).key = call[w].key
      BY GoesTyped DEF Pcs, AfterStoring
    <3> QED BY <1>0, <1>1, <2>1, <2>2, <2>4, <3>1, RowWritten
  <2> QED BY <1>4, <2>3, <2>4
<1> QED BY <1>3, <1>4 DEF StoreCustody, Transact, store

LEMMA FinalizeStep ==
    ASSUME IInv, NEW w \in Workers, Finalize(w)
    PROVE  IInv'
<1> USE DEF Callers
<1>0. UNCHANGED <<keys, late, disclosed, lease, clock, issues>> /\ issues \in Nat /\ faults' \in Nat
  BY DEF Finalize, world, store, Transact, IInv, TypeOK
<1>1. call[w].key \in DOMAIN keys /\ w \notin Finishers
  BY CredentialAssumption DEF Finalize, At, IInv, Holds
<1>2. Cleaning \in CallType /\ Cleaning.pc = "cleanup"
  BY HoldingTyped DEF Cleaning, Pcs
<1>3. CASE row' = row /\ Move(w, Cleaning)
  BY <1>0, <1>1, <1>2, <1>3, HolderMoves
<1>4. CASE /\ Has("custodied") /\ row' = [row EXCEPT !.state = "ready"]
           /\ Move(w, Returning(call[w].key)) \/ Move(w, Cleaning)
  <2>1. row # None /\ row' \in RowType /\ row'.state = "ready" /\ row'.key = row.key /\ Left
        /\ ~Has("ready") /\ ~Has("revoking") /\ row.key \in DOMAIN keys
    BY <1>0, <1>4 DEF RowType, Row, CredentialStates, Has, Left, Encrypted, IInv, TypeOK
  <2>2. row.key = call[w].key
    BY <1>1, <2>1 DEF IInv, MintedOnce, TypeOK
  <2>3. CASE Move(w, Cleaning)
    BY <1>0, <1>1, <1>2, <2>1, <2>3, RowWritten
  <2>4. CASE Move(w, Returning(call[w].key))
    <3>1. /\ Returning(call[w].key) \in CallType /\ Returning(call[w].key).pc = "return"
          /\ Returning(call[w].key).key = call[w].key
      BY <1>1, HoldingTyped DEF Pcs, Returning
    <3> QED BY <1>0, <1>1, <2>1, <2>2, <2>4, <3>1, RowWritten
  <2> QED BY <1>4, <2>3, <2>4
<1> QED BY <1>3, <1>4 DEF Finalize, Finalizable, Transact, store

LEMMA DiscloseStep ==
    ASSUME IInv, NEW w \in Workers, Disclose(w)
    PROVE  IInv'
<1> USE DEF Callers
<1>1. call[w].key \in DOMAIN keys /\ InCustody(call[w].key)
  BY DEF Disclose, At, IInv, Holds
<1>2. disclosed' = disclosed \union {call[w].key} /\ Move(w, Idle)
      /\ UNCHANGED <<store, keys, late, lease, clock, issues>>
  BY DEF Disclose
<1>3. call' \in [Callers -> CallType]
  <2>1. call \in [Callers -> CallType] BY DEF IInv, TypeOK, CallType
  <2> QED BY <1>2, <2>1, OneMoves, IdleTyped DEF IInv
<1>4. TypeOK'
  BY <1>1, <1>2, <1>3 DEF IInv, TypeOK, CallType, store
<1>5. call'[w] = Idle /\ \A d \in Callers : d # w => call'[d] = call[d]
  BY <1>2, OneMoves DEF IInv
<1>6. ASSUME NEW d \in Callers PROVE Holds(d)'
  <2>1. CASE d = w
    BY <1>5, <2>1, IdleTyped DEF Holds
  <2>2. CASE d # w
    BY <1>2, <1>5, <2>2 DEF IInv, Holds, Left, NoLiveKey, store
  <2> QED BY <2>1, <2>2
<1>7. Minting' \subseteq Minting /\ \A v \in Minting' : call'[v] = call[v]
  BY <1>5, IdleTyped DEF Minting, At
<1>8. MintedOnce' /\ MintsAreTimed'
  BY <1>2, <1>7 DEF IInv, MintedOnce, MintsAreTimed, Has, store
<1>9. \A v \in Workers : At(v, "return")' => InCustody(call[v].key)'
  BY <1>2, <1>5, IdleTyped DEF IInv, At, InCustody, Has, store
<1>10. \A k \in disclosed' : InCustody(k)'
  BY <1>1, <1>2 DEF IInv, InCustody, Has, store
<1> QED BY <1>2, <1>4, <1>6, <1>8, <1>9, <1>10 DEF IInv, Encrypted, Has, NoLiveKey, store

LEMMA ReuseExactStep ==
    ASSUME IInv, NEW w \in Workers, NEW notAfter \in 1..AuthorityEnds, ReuseExact(w, notAfter)
    PROVE  IInv'
<1> USE DEF Callers
<1>1. Has("ready") /\ row.key \in DOMAIN keys /\ Move(w, Returning(row.key)) /\ UNCHANGED <<store, keys, world>>
  BY DEF ReuseExact, IInv, TypeOK
<1>2. /\ Returning(row.key) \in CallType /\ Returning(row.key).pc = "return"
      /\ Returning(row.key).key = row.key
  BY <1>1, HoldingTyped DEF Returning, Pcs
<1>3. InCustody(row.key)
  BY <1>1 DEF InCustody
<1> QED BY <1>1, <1>2, <1>3, HolderMoves, CredentialAssumption DEF store, world, IInv, TypeOK

LEMMA MarkAliasCleanupStep ==
    ASSUME IInv, NEW w \in Workers, MarkAliasCleanup(w)
    PROVE  IInv'
<1> USE DEF Callers
<1>0. UNCHANGED <<keys, late, disclosed, lease, clock, issues>> /\ issues \in Nat /\ faults' \in Nat
  BY DEF MarkAliasCleanup, world, store, Transact, IInv, TypeOK
<1>1. call[w].key \in DOMAIN keys /\ w \notin Finishers
  BY CredentialAssumption DEF MarkAliasCleanup, At, IInv, Holds
<1>2. Unmarked(w) \in CallType /\ Unmarked(w).pc = "unmarked" /\ Unmarked(w).key = call[w].key
  BY <1>1, HoldingTyped DEF Unmarked, Pcs
<1>3. CASE row' = row /\ Move(w, Unmarked(w))
  BY <1>0, <1>1, <1>2, <1>3, HolderMoves
<1>4. CASE /\ Has("pending") /\ row' = [row EXCEPT !.state = "alias_cleanup", !.until = 0]
           /\ Move(w, Holding("marked", row.fence, call[w].key)) \/ Move(w, Unmarked(w))
  <2>1. row # None /\ row' \in RowType /\ row'.state = "alias_cleanup" /\ row.fence \in Nat
        /\ ~Has("ready") /\ ~Has("revoking")
    <3>1. row # None /\ row \in Row /\ row.state = "pending" /\ row.key \in DOMAIN keys \union {None}
      BY <1>4 DEF Has, IInv, TypeOK
    <3>2. row' \in Row /\ row'.state = "alias_cleanup" /\ row'.key = row.key /\ row.fence \in Nat
      BY <1>4, <3>1 DEF Row, CredentialStates
    <3> QED BY <1>0, <3>1, <3>2 DEF RowType, Has
  <2>2. keys # <<>>
    BY <1>1 DEF IInv, TypeOK
  <2>3. CASE Move(w, Unmarked(w))
    BY <1>0, <1>1, <1>2, <2>1, <2>2, <2>3, RowWritten
  <2>4. CASE Move(w, Holding("marked", row.fence, call[w].key))
    <3> DEFINE h == Holding("marked", row.fence, call[w].key)
    <3>1. h \in CallType /\ h.pc = "marked" /\ h.key = call[w].key
      BY <1>1, <2>1, HoldingTyped DEF Pcs
    <3> HIDE DEF h
    <3>2. Move(w, h) BY <2>4 DEF h
    <3> QED BY <1>0, <1>1, <2>1, <2>2, <3>1, <3>2, RowWritten
  <2> QED BY <1>4, <2>3, <2>4
<1> QED BY <1>3, <1>4 DEF MarkAliasCleanup, Transact, store

LEMMA ClearingTyped ==
    ASSUME IInv, NEW c \in Callers
    PROVE  Clearing(c) \in CallType /\ Clearing(c).pc = "clear"
<1>1. call[c].fence \in Nat BY DEF IInv, TypeOK
<1> QED BY <1>1, HoldingTyped DEF Clearing, Pcs

LEMMA DeletionStep ==
    ASSUME IInv, NEW c \in Callers, RevokeCustody(c) \/ (c \in Workers /\ RevokeMinted(c))
    PROVE  IInv'
<1>1. call[c].pc \in {"marked", "unmarked", "unusable"} => call[c].key \in DOMAIN keys
  BY DEF IInv, Holds
<1>2. call[c].pc \in {"marked", "provider"} => Left
  BY DEF IInv, Holds
<1>3. CASE c \in Workers /\ RevokeMinted(c)
  <2>1. CASE At(c, "marked") /\ Move(c, Clearing(c)) /\ keys' = Deleted(call[c].key)
    BY <1>1, <1>2, <1>3, <2>1, ClearingTyped, KeyDies DEF RevokeMinted, At
  <2>2. CASE At(c, "unmarked") /\ Move(c, Idle) /\ keys' = Deleted(call[c].key)
    BY <1>1, <1>3, <2>2, IdleTyped, KeyDies DEF RevokeMinted, At
  <2>3. CASE At(c, "unusable") /\ Move(c, Idle) /\ keys' = AliasDeleted
    BY <1>3, <2>3, IdleTyped, KeyDies DEF RevokeMinted, At
  <2> QED BY <1>3, <2>1, <2>2, <2>3 DEF RevokeMinted
<1>4. CASE RevokeCustody(c)
  <2>1. call[c].key \in DOMAIN keys \union {None}
    BY DEF IInv, TypeOK
  <2>2. Left /\ Move(c, Clearing(c)) /\ UNCHANGED <<store, world>>
    BY <1>2, <1>4 DEF RevokeCustody, At
  <2>3. keys' = AliasDeleted \/ \E k \in DOMAIN keys : keys' = Deleted(k)
    BY <1>4, <2>1 DEF RevokeCustody
  <2> QED BY <2>2, <2>3, ClearingTyped, KeyDies
<1> QED BY <1>3, <1>4

LEMMA ClaimRevocationStep ==
    ASSUME IInv, NEW c \in Callers, ClaimRevocation(c)
    PROVE  IInv'
<1>0. UNCHANGED <<keys, late, disclosed, lease, clock, issues>> /\ issues \in Nat /\ faults' \in Nat
  BY DEF ClaimRevocation, world, store, Transact, IInv, TypeOK
<1>1. CASE row' = row /\ (Move(c, Returned(c)) \/ Move(c, Idle))
  BY <1>0, <1>1, ReturnedTyped, HolderMoves, IdleMoves
<1>2. CASE /\ RequiresRevocation /\ (Has("pending") => ClaimOver)
           /\ row' = [row EXCEPT !.state = "revoking", !.fence = @ + 1]
           /\ Move(c, Holding("provider", row.fence + 1, row.key)) \/ Move(c, Idle)
  <2>1. row # None /\ row' \in RowType /\ row'.state = "revoking" /\ row.fence + 1 \in Nat
        /\ row.key \in DOMAIN keys \union {None} /\ row'.key = row.key
    <3>1. row # None /\ row \in Row /\ row.key \in DOMAIN keys \union {None}
      BY <1>2 DEF RequiresRevocation, IInv, TypeOK
    <3>2. row.fence + 1 \in Nat
      BY <3>1 DEF Row
    <3>3. row' = [row EXCEPT !.state = "revoking", !.fence = row.fence + 1]
      BY <1>2
    <3>4. row' \in Row /\ row'.state = "revoking" /\ row'.key = row.key
      BY <3>1, <3>2, <3>3 DEF Row, CredentialStates
    <3> QED BY <1>0, <3>1, <3>2, <3>4 DEF RowType
  <2>2. Left \/ clock >= row.until
    BY <1>2, <2>1 DEF Left, Has, ClaimOver
  <2>3. CASE Move(c, Idle)
    BY <1>0, <2>1, <2>2, <2>3, IdleTyped, RowWritten
  <2>4. CASE Move(c, Holding("provider", row.fence + 1, row.key))
    <3> DEFINE h == Holding("provider", row.fence + 1, row.key)
    <3>1. h \in CallType /\ h.pc = "provider"
      BY <2>1, HoldingTyped DEF Pcs
    <3> HIDE DEF h
    <3>2. Move(c, h) BY <2>4 DEF h
    <3> QED BY <1>0, <2>1, <2>2, <3>1, <3>2, RowWritten
  <2> QED BY <1>2, <2>3, <2>4
<1> QED BY <1>1, <1>2 DEF ClaimRevocation, Transact, store

LEMMA FinishRevocationStep ==
    ASSUME IInv, NEW c \in Callers, FinishRevocation(c)
    PROVE  IInv'
<1>0. UNCHANGED <<keys, late, disclosed, lease, clock, issues>> /\ issues \in Nat /\ faults' \in Nat
  BY DEF FinishRevocation, world, store, Transact, IInv, TypeOK
<1>1. Left /\ NoLiveKey
  BY DEF FinishRevocation, At, IInv, Holds
<1>2. CASE row' = row /\ (Move(c, Returned(c)) \/ Move(c, Idle))
  BY <1>0, <1>2, ReturnedTyped, HolderMoves, IdleMoves
<1>3. CASE /\ row' = [row EXCEPT !.state = "revoked", !.key = None, !.until = 0]
           /\ Move(c, Returned(c)) \/ Move(c, Idle)
  <2>1. row # None /\ row' \in RowType /\ row'.state = "revoked"
    <3>1. row # None /\ row \in Row
      BY <1>1 DEF Left, IInv, TypeOK
    <3>2. row' \in Row /\ row'.state = "revoked" /\ row'.key = None
      BY <1>3, <3>1 DEF Row, CredentialStates
    <3> QED BY <3>1, <3>2 DEF RowType
  <2> QED BY <1>0, <1>1, <1>3, <2>1, ReturnedTyped, IdleTyped, RowWritten
<1> QED BY <1>2, <1>3 DEF FinishRevocation, Transact, store

LEMMA FailStep ==
    ASSUME IInv, NEW c \in Callers, Fail(c)
    PROVE  IInv'
<1>1. faults' \in Nat /\ Move(c, Idle) /\ UNCHANGED <<row, keys, disclosed, lease, clock, issues>>
  BY DEF Fail, IInv, TypeOK
<1>2. CASE ~At(c, "minting")
  BY <1>1, <1>2, IdleMoves DEF Fail, IInv, TypeOK
<1>3. CASE At(c, "minting")
  <2>1. c \in Minting
    BY <1>3, CredentialAssumption DEF Minting, Callers, At, IInv, Holds
  <2>2. late = {} /\ keys = <<>> /\ Minting = {c} /\ row # None /\ call[c].until \in Nat
    BY <2>1 DEF IInv, MintedOnce, TypeOK
  <2>3. late' = {call[c].until}
    BY <1>3, <2>2 DEF Fail
  <2>4. call'[c] = Idle /\ \A d \in Callers : d # c => call'[d] = call[d]
    BY <1>1, OneMoves DEF IInv
  <2>5. call' \in [Callers -> CallType]
    <3>1. call \in [Callers -> CallType] BY DEF IInv, TypeOK, CallType
    <3> QED BY <1>1, <3>1, OneMoves, IdleTyped DEF IInv
  <2>6. TypeOK'
    BY <1>1, <2>2, <2>3, <2>5 DEF IInv, TypeOK, CallType
  <2>7. ASSUME NEW d \in Callers PROVE Holds(d)'
    <3>1. CASE d = c
      BY <2>4, <3>1, IdleTyped DEF Holds
    <3>2. CASE d # c
      BY <1>1, <2>4, <3>2 DEF IInv, Holds, Left, NoLiveKey
    <3> QED BY <3>1, <3>2
  <2>8. Minting' = {}
    BY <2>2, <2>4, IdleTyped DEF Minting, At, Callers
  <2>9. MintedOnce' /\ MintsAreTimed'
    BY <1>1, <2>1, <2>2, <2>3, <2>8 DEF IInv, MintedOnce, MintsAreTimed, Has
  <2>10. \A v \in Workers : At(v, "return")' => InCustody(call[v].key)'
    BY <1>1, <2>4, IdleTyped DEF IInv, At, InCustody, Has, Callers
  <2> QED BY <1>1, <2>3, <2>6, <2>7, <2>9, <2>10 DEF IInv, Encrypted, Has, NoLiveKey, InCustody
<1> QED BY <1>2, <1>3

(* Time only passes, and the lease only ends.                               *)
LEMMA WorldStep ==
    ASSUME IInv, LeaseEnds \/ Tick
    PROVE  IInv'
<1>0. lease \in BOOLEAN /\ clock \in Nat
  BY DEF IInv, TypeOK
<1>1. UNCHANGED <<store, keys, late, call, disclosed, issues>> /\ lease' \in BOOLEAN
      /\ clock \in Nat /\ clock' \in Nat /\ clock' >= clock
  <2>1. CASE LeaseEnds
    <3>1. UNCHANGED <<store, keys, late, call, disclosed, issues>> /\ clock' = clock
      BY <2>1 DEF LeaseEnds
    <3>2. lease' \in BOOLEAN
      BY <2>1, Zenon DEF LeaseEnds
    <3>3. clock' >= clock
      BY <1>0, <3>1
    <3> QED BY <1>0, <3>1, <3>2, <3>3
  <2>2. CASE Tick
    BY <1>0, <2>2 DEF Tick
  <2> QED BY <2>1, <2>2
<1>2. TypeOK'
  BY <1>1 DEF IInv, TypeOK, store
<1>3. Minting' = Minting /\ \A w \in Minting : call[w].until \in Nat
  BY <1>1 DEF Minting, At, IInv, TypeOK, Callers
<1>4. MintsAreTimed'
  <2>1. \A until \in late : until \in Nat BY DEF IInv, TypeOK
  <2> QED BY <1>1, <1>3, <2>1 DEF IInv, MintsAreTimed, Has, store
<1>5. MintedOnce'
  BY <1>1, <1>3 DEF IInv, MintedOnce, store
<1>6. ASSUME NEW c \in Callers PROVE Holds(c)'
  BY <1>1 DEF IInv, Holds, Left, NoLiveKey, store
<1>7. (\A k \in disclosed : InCustody(k))' /\ (\A w \in Workers : At(w, "return") => InCustody(call[w].key))'
  BY <1>1 DEF IInv, InCustody, Has, At, store
<1>8. (Encrypted => row.key \in DOMAIN keys)' /\ (Has("revoked") => NoLiveKey)' /\ (\A a, b \in late : a = b)'
  BY <1>1 DEF IInv, Encrypted, Has, NoLiveKey, store
<1> QED BY <1>2, <1>4, <1>5, <1>6, <1>7, <1>8 DEF IInv

LEMMA MintExpiresStep ==
    ASSUME IInv, NEW w \in Workers, MintExpires(w)
    PROVE  IInv'
<1>1. Move(w, Idle) /\ UNCHANGED <<row, keys, late, disclosed, lease, clock>>
      /\ issues' \in Nat /\ faults' \in Nat /\ w \in Callers
  BY DEF MintExpires, store, world, IInv, TypeOK, Callers
<1> QED BY <1>1, IdleMoves

LEMMA InitIInv == Init => IInv
<1> SUFFICES ASSUME Init PROVE IInv
  OBVIOUS
<1>1. Idle \in CallType /\ Idle.pc = "idle"
  BY IdleTyped
<1>2. \A c \in Callers : call[c] = Idle
  BY DEF Init
<1>3. TypeOK
  BY <1>1 DEF Init, TypeOK, CallType
<1>4. Minting = {}
  BY <1>1, <1>2 DEF Minting, At, Callers
<1>5. MintedOnce /\ MintsAreTimed
  BY <1>4 DEF Init, MintedOnce, MintsAreTimed
<1>6. ASSUME NEW c \in Callers PROVE Holds(c)
  BY <1>1, <1>2 DEF Holds
<1>7. \A w \in Workers : ~At(w, "return")
  BY <1>1, <1>2 DEF At, Callers
<1> QED BY <1>3, <1>5, <1>6, <1>7 DEF Init, IInv, Encrypted, Has

(* One step of any caller, of the provider or of the world.                 *)
LEMMA NextKeepsIInv == IInv /\ [Next]_vars => IInv'
<1> SUFFICES ASSUME IInv, [Next]_vars PROVE IInv'
  OBVIOUS
<1> USE DEF Callers
<1>1. CASE \E w \in Workers, notAfter \in 1..AuthorityEnds : Prepare(w, notAfter) \/ ReuseExact(w, notAfter)
  BY <1>1, PrepareStep, ReuseExactStep
<1>2. CASE \E w \in Workers :
             \/ Mint(w) \/ MintExpires(w) \/ StoreCustody(w) \/ Finalize(w) \/ Disclose(w)
             \/ MarkAliasCleanup(w) \/ RevokeMinted(w)
  BY <1>2, MintStep, MintExpiresStep, StoreCustodyStep, FinalizeStep, DiscloseStep,
     MarkAliasCleanupStep, DeletionStep
<1>3. CASE \E c \in Callers : Revocation(c) \/ Fail(c)
  BY <1>3, ClaimRevocationStep, DeletionStep, FinishRevocationStep, FailStep DEF Revocation
<1>4. CASE \E until \in late : MintLate(until)
  BY <1>4, MintLateStep
<1>5. CASE LeaseEnds \/ Tick
  BY <1>5, WorldStep
<1>6. CASE UNCHANGED vars
  <2>1. UNCHANGED <<row, keys, late, call, disclosed, lease, clock, issues, faults>>
    BY <1>6 DEF vars
  <2>2. Minting' = Minting
    BY <2>1 DEF Minting, At
  <2>3. TypeOK' /\ MintedOnce' /\ MintsAreTimed'
    BY <2>1, <2>2 DEF IInv, TypeOK, MintedOnce, MintsAreTimed, Has
  <2>4. ASSUME NEW c \in Callers PROVE Holds(c)'
    BY <2>1 DEF IInv, Holds, Left, NoLiveKey
  <2> QED BY <2>1, <2>3, <2>4 DEF IInv, Encrypted, Has, NoLiveKey, InCustody, At
<1> QED BY <1>1, <1>2, <1>3, <1>4, <1>5, <1>6 DEF Next

LEMMA IInvHolds == Spec => []IInv
  BY InitIInv, NextKeepsIInv, PTL DEF Spec

-----------------------------------------------------------------------------
(* The row and every operation in flight keep the shape the repository and  *)
(* its callers read (prisma-conversation-computer-credential-repository).   *)
THEOREM TypeCorrect == Spec => []TypeOK
<1>1. IInv => TypeOK BY DEF IInv
<1> QED BY <1>1, IInvHolds, PTL

(* However many executions, retries, lost acknowledgements and crashes,     *)
(* issueOnce mints at most one key for an attempt.                          *)
THEOREM KeyIsMintedOnce == Spec => []MintedOnce
<1>1. IInv => MintedOnce BY DEF IInv
<1> QED BY <1>1, IInvHolds, PTL

(* finishRevocation leaves a revoked row only over dead keys, and no mint   *)
(* that is still under way can bring one to life under it.                  *)
THEOREM ClosedRowsAreSafe == Spec => []ClosedRowHasNoLiveKey
<1>1. ASSUME IInv PROVE ClosedRowHasNoLiveKey
  <2>1. Has("revoked") => NoLiveKey BY <1>1 DEF IInv
  <2>2. Has("revoked") => ~Has("pending") BY DEF Has
  <2> QED BY <1>1, <2>1, <2>2 DEF IInv, MintsAreTimed, NoLiveKey, ClosedRowHasNoLiveKey
<1> QED BY <1>1, IInvHolds, PTL

(* A key that was returned to a caller and still works is the one in        *)
(* custody, so a revocation deletes the key the caller has.                 *)
THEOREM DisclosedKeysAreRevocable == Spec => []LiveKeyStaysInCustody
<1>1. IInv => LiveKeyStaysInCustody
  BY DEF IInv, InCustody, LiveKeyStaysInCustody
<1> QED BY <1>1, IInvHolds, PTL

(* A promotion, a late custody write or a retry never takes the row out of  *)
(* the cleanup states: each is fenced on the state it started from.         *)
THEOREM CleanupStays == Spec => CleanupIsFinal
<1> DEFINE Closing == row # None /\ row.state \in {"alias_cleanup", "revoking", "revoked"}
<1>1. ASSUME IInv, Next, Closing PROVE Closing'
  <2>0. row # None /\ row \in Row /\ row.state \in {"alias_cleanup", "revoking", "revoked"}
    BY <1>1 DEF IInv, TypeOK
  <2>1. row' = row \/ row' = [row EXCEPT !.state = "revoking", !.fence = @ + 1]
        \/ row' = [row EXCEPT !.state = "revoked", !.key = None, !.until = 0]
    BY <1>1, <2>0 DEF Next, Prepare, Mint, MintExpires, MintLate, StoreCustody, Finalize, Disclose,
       ReuseExact, MarkAliasCleanup, RevokeMinted, ClaimRevocation, RevokeCustody, FinishRevocation,
       Revocation, Fail, LeaseEnds, Tick, Transact, store, world, Has, MayMint, Encrypted, Finalizable
  <2>2. row'.state \in {"alias_cleanup", "revoking", "revoked"}
    BY <2>0, <2>1 DEF Row
  <2>3. row' \in Row
    <3>1. CASE row' = row BY <2>0, <3>1
    <3>2. CASE row' = [row EXCEPT !.state = "revoking", !.fence = @ + 1]
      <4>1. row.fence + 1 \in Nat BY <2>0 DEF Row
      <4>2. row' = [row EXCEPT !.state = "revoking", !.fence = row.fence + 1] BY <3>2
      <4> QED BY <2>0, <4>1, <4>2 DEF Row, CredentialStates
    <3>3. CASE row' = [row EXCEPT !.state = "revoked", !.key = None, !.until = 0]
      BY <2>0, <3>3 DEF Row, CredentialStates
    <3> QED BY <2>1, <3>1, <3>2, <3>3
  <2> QED BY <2>2, <2>3, IdentityAssumption
<1>2. IInv /\ [Next]_vars =>
        [row # None /\ row.state \in {"alias_cleanup", "revoking", "revoked"}
         => row' # None /\ row'.state \in {"alias_cleanup", "revoking", "revoked"}]_vars
  BY <1>1
<1> QED BY <1>2, IInvHolds, PTL DEF Spec, CleanupIsFinal
=============================================================================
