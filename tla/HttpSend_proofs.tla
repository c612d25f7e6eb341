-------------------------- MODULE HttpSend_proofs --------------------------
\* The safety of the pool under every interleaving of any number of
\* requests, the keep-alive sweep, the events and closes of the QUIC
\* connections and the shutdown.
\*
\* IInv strengthens the properties to an inductive invariant.  Its heart
\* is Own: a slot that n requests hold is in use, not closing and not
\* under the keep-alive sweep, and has room for n holders (Bound).  It is
\* not inductive alone: that an exclusive holder is the only one needs the
\* lease counts of each kind of connection (SlotOK), and that a failed
\* handshake may detach the slot needs that no one shares a connection
\* that was never adopted (Handshakes).
EXTENDS HttpSend, FiniteSetTheorems, TLAPS

----------------------------------------
\* What every operation of the pool preserves, for any capacity, quota,
\* set of keys and limits.  PoolOK is the invariant of the pool's value;
\* the lemmas show it of each operator of ConnectionPool, together with
\* what the operator leaves to the requests that hold a connection:
\*
\*   Acquired  what ConnectionPoolAcquire hands out, and to whom;
\*   Keeps     the operation takes nothing from the holders of any slot;
\*   Released  one holder lets go of one slot.
\*
\* The invariant of the whole system, further down, is built on them.


\* The leases of a connection, of whichever protocol.
Leases(s) == s.h2Leases + s.h1Leases + s.h3Leases

\* How many requests may hold the connection: one per lease, or the one that
\* has the connection for itself.
Bound(s) == IF Leases(s) = 0 THEN 1 ELSE Leases(s)

\* A connection fit to be in a request's hands.
HeldOK(s) == s.inUse /\ ~s.keepAlive /\ ~s.closing /\ (s.kind = "Quic" => s.active)

\* What holds of every slot: which counts a kind of connection may have, and
\* which flags go together.
SlotOK(s) ==
    /\ s.connected <=> s.kind # "None"
    /\ s.connected => s.key \in KeyRecords /\ s.key.kind = s.kind
    /\ s.inUse => s.connected
    /\ s.kind # "Quic" => s.h3Leases = 0 /\ ~s.closing
    /\ s.kind # "Tcp" => s.h2Leases = 0 /\ s.h1Leases = 0 /\ ~s.keepAlive
    /\ s.h2Leases = 0 \/ s.h1Leases = 0
    /\ ~s.inUse \/ s.keepAlive => Leases(s) = 0
    /\ s.keepAlive \/ s.closing => s.inUse
    /\ s.h3Leases # 0 \/ s.h3Max # 0 => s.adopted
    /\ /\ s.kind = "Quic" /\ s.inUse /\ s.h3Leases = 0
       /\ ~s.closing /\ ~s.closeWhenIdle /\ ~s.unusable
       => s.h3Max = 0

Connected(p) == {i \in Slots : p.slots[i].connected}

Closing(p) == {i \in Slots : p.slots[i].closing}

\* The invariant of the pool's value: the counters are exact, the quota kept.
PoolOK(p) ==
    /\ p \in PoolRecords
    /\ \A i \in Slots : SlotOK(p.slots[i])
    /\ p.activeCount = Cardinality(Connected(p))
    /\ p.outstanding = Cardinality(Closing(p))
    /\ p.started \subseteq Closing(p)
    /\ \A key \in Keys : Cardinality(QuotaSlots(p, key)) <= MaxPerHost

----------------------------------------
(* The changes every operation is made of *)

\* Sets of slots are finite.
LEMMA SlotSets ==
    ASSUME NEW S, S \subseteq Slots
    PROVE  IsFiniteSet(S) /\ Cardinality(S) \in Nat
<1>1. IsFiniteSet(Slots)
  BY FS_Interval, PoolAssumption DEF Slots
<1> QED
  BY <1>1, FS_Subset, FS_CardinalityType

\* A zeroed slot (InitializePooledConnectionSlot) is a legal one.
LEMMA EmptySlotOK == EmptySlot \in SlotRecords /\ SlotOK(EmptySlot)
  BY PoolAssumption DEF EmptySlot, SlotRecords, SlotOK, Leases

\* A change of one slot leaves the rest of the pool.
LEMMA UpdateFields ==
    ASSUME NEW p \in PoolRecords, NEW i \in Slots, NEW s \in SlotRecords
    PROVE  /\ Update(p, i, s) \in PoolRecords
           /\ Update(p, i, s).slots[i] = s
           /\ \A j \in Slots : j # i => Update(p, i, s).slots[j] = p.slots[j]
           /\ Update(p, i, s).activeCount = p.activeCount
           /\ Update(p, i, s).outstanding = p.outstanding
           /\ Update(p, i, s).started = p.started
  BY DEF Update, PoolRecords

\* A change of one slot that neither connects, closes nor moves it to another
\* host keeps the pool's invariant.
LEMMA UpdateOK ==
    ASSUME NEW p, PoolOK(p), NEW i \in Slots, NEW s \in SlotRecords, SlotOK(s),
           s.connected = p.slots[i].connected, s.closing = p.slots[i].closing,
           s.connected => SameQuota(s.key, p.slots[i].key)
    PROVE  PoolOK(Update(p, i, s))
<1> DEFINE q == Update(p, i, s)
<1>1. p \in PoolRecords /\ \A j \in Slots : SlotOK(p.slots[j])
  BY DEF PoolOK
<1>2. /\ q \in PoolRecords /\ q.slots[i] = s
      /\ \A j \in Slots : j # i => q.slots[j] = p.slots[j]
      /\ q.activeCount = p.activeCount /\ q.outstanding = p.outstanding /\ q.started = p.started
  BY <1>1, UpdateFields
<1> HIDE DEF q
<1>3. Connected(q) = Connected(p) /\ Closing(q) = Closing(p)
  BY <1>2 DEF Connected, Closing
<1>4. \A key \in Keys : QuotaSlots(q, key) = QuotaSlots(p, key)
  BY <1>1, <1>2 DEF QuotaSlots, SameQuota, SlotOK
<1>5. \A j \in Slots : SlotOK(q.slots[j])
  BY <1>1, <1>2
<1> QED
  BY <1>2, <1>3, <1>4, <1>5 DEF PoolOK, q

\* A change of one slot and of ActiveCount.
Counted(p, i, s, n) == [p EXCEPT !.slots[i] = s, !.activeCount = n]

\* Counted changes those two and nothing else.
LEMMA CountedUpdate ==
    ASSUME NEW p \in PoolRecords, NEW i \in Slots, NEW s \in SlotRecords, NEW n \in Int
    PROVE  LET q == Counted(p, i, s, n)
           IN  /\ q \in PoolRecords /\ q.slots[i] = s
               /\ \A j \in Slots : j # i => q.slots[j] = p.slots[j]
               /\ q.activeCount = n /\ q.outstanding = p.outstanding /\ q.started = p.started
  BY DEF PoolRecords, Counted

\* DetachConnectionResources empties the slot and counts it out once.
LEMMA DetachFields ==
    ASSUME NEW p \in PoolRecords, NEW i \in Slots
    PROVE  /\ Detach(p, i) \in PoolRecords
           /\ Detach(p, i).slots[i] = EmptySlot
           /\ \A j \in Slots : j # i => Detach(p, i).slots[j] = p.slots[j]
           /\ Detach(p, i).activeCount =
                 IF p.slots[i].connected THEN p.activeCount - 1 ELSE p.activeCount
           /\ Detach(p, i).outstanding = p.outstanding
           /\ Detach(p, i).started = p.started
<1> DEFINE n == IF p.slots[i].connected THEN p.activeCount - 1 ELSE p.activeCount
<1>1. Detach(p, i) = Counted(p, i, EmptySlot, n)
  BY DEF Detach, Counted
<1>2. n \in Int
  BY DEF PoolRecords
<1> HIDE DEF n
<1> QED
  BY <1>1, <1>2, EmptySlotOK, CountedUpdate DEF n

\* Detaching a connection that is not being closed keeps ActiveCount exact
\* and the quota.
LEMMA DetachOK ==
    ASSUME NEW p, PoolOK(p), NEW i \in Slots, ~p.slots[i].closing
    PROVE  PoolOK(Detach(p, i))
<1> DEFINE q == Detach(p, i)
<1>1. p \in PoolRecords /\ \A j \in Slots : SlotOK(p.slots[j])
  BY DEF PoolOK
<1>2. /\ q \in PoolRecords /\ q.slots[i] = EmptySlot
      /\ \A j \in Slots : j # i => q.slots[j] = p.slots[j]
      /\ q.activeCount = IF p.slots[i].connected THEN p.activeCount - 1 ELSE p.activeCount
      /\ q.outstanding = p.outstanding /\ q.started = p.started
  BY <1>1, DetachFields
<1> HIDE DEF q
<1>e. ~EmptySlot.connected /\ ~EmptySlot.closing /\ ~EmptySlot.inUse
  BY DEF EmptySlot
<1>3. Connected(q) = Connected(p) \ {i} /\ Closing(q) = Closing(p)
  BY <1>2, <1>e DEF Connected, Closing
<1>4. q.activeCount = Cardinality(Connected(q))
  <2>1. IsFiniteSet(Connected(p))
    BY SlotSets DEF Connected
  <2>2. p.activeCount = Cardinality(Connected(p)) /\ p.activeCount \in Int
    BY <1>1 DEF PoolOK, PoolRecords
  <2>3. CASE p.slots[i].connected
    BY <1>2, <1>3, <2>1, <2>2, <2>3, FS_RemoveElement DEF Connected
  <2>4. CASE ~p.slots[i].connected
    BY <1>2, <1>3, <2>2, <2>4 DEF Connected
  <2> QED
    BY <2>3, <2>4
<1>5. \A key \in Keys : Cardinality(QuotaSlots(q, key)) <= MaxPerHost
  <2> TAKE key \in Keys
  <2>1. QuotaSlots(q, key) \subseteq QuotaSlots(p, key) /\ QuotaSlots(p, key) \subseteq Slots
    BY <1>2, <1>e DEF QuotaSlots
  <2>2. Cardinality(QuotaSlots(q, key)) <= Cardinality(QuotaSlots(p, key))
    BY <2>1, SlotSets, FS_Subset
  <2> QED
    BY <2>1, <2>2, SlotSets, PoolAssumption DEF PoolOK
<1>6. \A j \in Slots : SlotOK(q.slots[j])
  BY <1>1, <1>2, EmptySlotOK
<1> QED
  BY <1>2, <1>3, <1>4, <1>5, <1>6 DEF PoolOK, q

\* A new connection is in use, has its key and is counted once.
LEMMA OccupyFields ==
    ASSUME NEW p \in PoolRecords, NEW i \in Slots, NEW key \in KeyRecords
    PROVE  LET s == Occupy(p, i, key).slots[i]
           IN  /\ Occupy(p, i, key) \in PoolRecords
               /\ s \in SlotRecords /\ SlotOK(s) /\ HeldOK(s) /\ s.connected
               /\ s.key = key /\ s.kind = key.kind /\ ~s.adopted
               /\ \A j \in Slots : j # i => Occupy(p, i, key).slots[j] = p.slots[j]
               /\ Occupy(p, i, key).activeCount = p.activeCount + 1
               /\ Occupy(p, i, key).outstanding = p.outstanding
               /\ Occupy(p, i, key).started = p.started
<1> DEFINE s == [EmptySlot EXCEPT !.kind = key.kind, !.key = key, !.inUse = TRUE,
                                  !.connected = TRUE, !.active = key.kind = "Quic"]
<1>1. s \in SlotRecords
  BY DEF EmptySlot, SlotRecords, KeyRecords
<1>2. SlotOK(s) /\ HeldOK(s) /\ s.connected /\ s.key = key /\ s.kind = key.kind /\ ~s.adopted
  BY DEF EmptySlot, SlotOK, HeldOK, Leases, KeyRecords
<1> HIDE DEF s
<1>3. Occupy(p, i, key) = Counted(p, i, s, p.activeCount + 1)
  BY DEF Occupy, Counted, s
<1>4. p.activeCount + 1 \in Int
  BY DEF PoolRecords
<1> QED
  BY <1>1, <1>2, <1>3, <1>4, CountedUpdate

\* A new connection in a free slot keeps the invariant, if the quota of its
\* host has room.
LEMMA OccupyOK ==
    ASSUME NEW p, PoolOK(p), NEW i \in Slots, NEW key \in Keys,
           p.slots[i].kind = "None", ~QuotaFull(p, key)
    PROVE  PoolOK(Occupy(p, i, key))
<1> DEFINE q == Occupy(p, i, key)
<1>k. key \in KeyRecords
  BY PoolAssumption
<1>1. p \in PoolRecords /\ \A j \in Slots : SlotOK(p.slots[j])
  BY DEF PoolOK
<1>2. /\ q \in PoolRecords /\ SlotOK(q.slots[i]) /\ HeldOK(q.slots[i])
      /\ q.slots[i].connected /\ q.slots[i].key = key
      /\ \A j \in Slots : j # i => q.slots[j] = p.slots[j]
      /\ q.activeCount = p.activeCount + 1
      /\ q.outstanding = p.outstanding /\ q.started = p.started
  BY <1>1, <1>k, OccupyFields
<1> HIDE DEF q
<1>e. ~p.slots[i].connected /\ ~p.slots[i].closing /\ ~p.slots[i].inUse
  BY <1>1 DEF SlotOK
<1>3. Connected(q) = Connected(p) \cup {i} /\ i \notin Connected(p) /\ Closing(q) = Closing(p)
  BY <1>2, <1>e DEF Connected, Closing, HeldOK
<1>4. q.activeCount = Cardinality(Connected(q))
  <2>1. IsFiniteSet(Connected(p))
    BY SlotSets DEF Connected
  <2>2. p.activeCount = Cardinality(Connected(p)) /\ q.activeCount = p.activeCount + 1
    BY <1>1, <1>2 DEF PoolOK
  <2>3. Cardinality(Connected(p) \cup {i}) = Cardinality(Connected(p)) + 1
    BY <1>3, <2>1, FS_AddElement
  <2> QED
    BY <1>3, <2>2, <2>3
<1>5. \A k \in Keys : Cardinality(QuotaSlots(q, k)) <= MaxPerHost
  <2> TAKE k \in Keys
  <2>1. CASE SameQuota(key, k)
    <3>1. QuotaSlots(p, k) = QuotaSlots(p, key)
      BY <2>1 DEF QuotaSlots, SameQuota
    <3>2. QuotaSlots(q, k) = QuotaSlots(p, k) \cup {i} /\ i \notin QuotaSlots(p, k)
      BY <1>2, <1>e, <2>1 DEF QuotaSlots
    <3>3. QuotaSlots(p, k) \subseteq Slots
      BY DEF QuotaSlots
    <3>4. Cardinality(QuotaSlots(q, k)) = Cardinality(QuotaSlots(p, k)) + 1
      BY <3>2, <3>3, SlotSets, FS_AddElement
    <3> QED
      BY <3>1, <3>3, <3>4, SlotSets, PoolAssumption DEF QuotaFull
  <2>2. CASE ~SameQuota(key, k)
    BY <1>2, <1>e, <2>2 DEF QuotaSlots, PoolOK
  <2> QED
    BY <2>1, <2>2
<1>6. \A j \in Slots : SlotOK(q.slots[j])
  BY <1>1, <1>2
<1> QED
  BY <1>2, <1>3, <1>4, <1>5, <1>6 DEF PoolOK, q

\* The slot after BeginQuicCloseLocked.
Shut(s) == [s EXCEPT !.closeWhenIdle = TRUE, !.inUse = TRUE, !.closing = TRUE]

\* BeginQuicCloseLocked leaves a legal slot and its identity.
LEMMA ShutOK ==
    ASSUME NEW s \in SlotRecords, SlotOK(s), s.kind = "Quic"
    PROVE  /\ Shut(s) \in SlotRecords /\ SlotOK(Shut(s)) /\ Shut(s).closing
           /\ Shut(s).inUse /\ Shut(s).connected = s.connected /\ Shut(s).key = s.key
           /\ Shut(s).kind = s.kind /\ Shut(s).adopted = s.adopted
<1>1. Shut(s) \in SlotRecords
  BY DEF SlotRecords, Shut
<1>2. /\ Shut(s).closing /\ Shut(s).inUse /\ Shut(s).connected = s.connected
      /\ Shut(s).key = s.key /\ Shut(s).kind = s.kind /\ Shut(s).keepAlive = s.keepAlive
      /\ Shut(s).h2Leases = s.h2Leases /\ Shut(s).h1Leases = s.h1Leases
      /\ Shut(s).h3Leases = s.h3Leases /\ Shut(s).h3Max = s.h3Max
      /\ Shut(s).adopted = s.adopted
  BY DEF SlotRecords, Shut
<1> QED
  BY <1>1, <1>2 DEF SlotOK, Leases

\* Beginning the close of a set of connections keeps QuicCloseOutstanding exact,
\* whichever of the routines are called.
LEMMA ClosesOK ==
    ASSUME NEW p, PoolOK(p), NEW S, S \subseteq Slots,
           \A i \in S : CanBeginClose(p.slots[i]),
           NEW q \in PoolRecords,
           \A i \in Slots : q.slots[i] = IF i \in S THEN Shut(p.slots[i]) ELSE p.slots[i],
           q.activeCount = p.activeCount, q.outstanding = p.outstanding + Cardinality(S),
           q.started \subseteq p.started \cup S
    PROVE  PoolOK(q)
<1>1. p \in PoolRecords /\ \A j \in Slots : p.slots[j] \in SlotRecords /\ SlotOK(p.slots[j])
  BY DEF PoolOK, PoolRecords
<1>s. \A i \in S : p.slots[i].kind = "Quic" /\ ~p.slots[i].closing
  BY DEF CanBeginClose
<1>2. \A j \in Slots : SlotOK(q.slots[j])
  BY <1>1, <1>s, ShutOK
<1>3. Connected(q) = Connected(p)
  BY <1>1, <1>s, ShutOK DEF Connected
<1>4. Closing(q) = Closing(p) \cup S /\ Closing(p) \cap S = {}
  BY <1>1, <1>s, ShutOK DEF Closing
<1>5. Cardinality(Closing(q)) = Cardinality(Closing(p)) + Cardinality(S)
  <2>1. Closing(p) \subseteq Slots
    BY DEF Closing
  <2>2. IsFiniteSet(Closing(p)) /\ IsFiniteSet(S) /\ Cardinality(S) \in Nat
    BY <2>1, SlotSets
  <2>3. Cardinality(Closing(p) \cup S) =
          Cardinality(Closing(p)) + Cardinality(S) - Cardinality(Closing(p) \cap S)
    BY <2>2, FS_Union
  <2>4. Cardinality(Closing(p) \cap S) = 0
    BY <1>4, FS_EmptySet
  <2>5. Cardinality(Closing(p)) \in Nat
    BY <2>2, FS_CardinalityType
  <2> QED
    BY <1>4, <2>2, <2>3, <2>4, <2>5
<1>6. \A key \in Keys : QuotaSlots(q, key) = QuotaSlots(p, key)
  BY <1>1, <1>s, ShutOK DEF QuotaSlots, SlotOK
<1> QED
  BY <1>2, <1>3, <1>4, <1>5, <1>6 DEF PoolOK

\* The pool with the parts that a close changes replaced.
Rebuilt(p, slots, n, m, S) ==
    [p EXCEPT !.slots = slots, !.activeCount = n, !.outstanding = m, !.started = S]

\* Rebuilt has the parts it was given.
LEMMA RebuiltFields ==
    ASSUME NEW p \in PoolRecords, NEW slots \in [Slots -> SlotRecords],
           NEW n \in Int, NEW m \in Int, NEW S \in SUBSET Slots
    PROVE  LET q == Rebuilt(p, slots, n, m, S)
           IN  /\ q \in PoolRecords /\ q.slots = slots /\ q.activeCount = n
               /\ q.outstanding = m /\ q.started = S
  BY DEF PoolRecords, Rebuilt

\* BeginQuicCloseLocked keeps the invariant.
LEMMA BeginCloseOK ==
    ASSUME NEW p, PoolOK(p), NEW i \in Slots, CanBeginClose(p.slots[i])
    PROVE  /\ PoolOK(BeginClose(p, i))
           /\ BeginClose(p, i).slots[i] = Shut(p.slots[i])
           /\ \A j \in Slots : j # i => BeginClose(p, i).slots[j] = p.slots[j]
<1>1. p \in PoolRecords /\ p.slots[i] \in SlotRecords /\ SlotOK(p.slots[i])
  BY DEF PoolOK, PoolRecords
<1>2. Shut(p.slots[i]) \in SlotRecords
  BY <1>1, ShutOK DEF CanBeginClose
<1> DEFINE slots == [p.slots EXCEPT ![i] = Shut(p.slots[i])]
<1>3. BeginClose(p, i) = Rebuilt(p, slots, p.activeCount, p.outstanding + 1, p.started \cup {i})
  BY <1>1 DEF BeginClose, Shut, Rebuilt, PoolRecords
<1>t. /\ slots \in [Slots -> SlotRecords] /\ p.activeCount \in Int
      /\ p.outstanding + 1 \in Int /\ p.started \cup {i} \in SUBSET Slots
  BY <1>1, <1>2 DEF PoolRecords
<1> HIDE DEF slots
<1>4. /\ BeginClose(p, i) \in PoolRecords
      /\ BeginClose(p, i).slots = slots
      /\ BeginClose(p, i).activeCount = p.activeCount
      /\ BeginClose(p, i).outstanding = p.outstanding + 1
      /\ BeginClose(p, i).started = p.started \cup {i}
  BY <1>1, <1>3, <1>t, RebuiltFields
<1> USE DEF slots
<1>5. \A j \in Slots : BeginClose(p, i).slots[j] = IF j \in {i} THEN Shut(p.slots[j]) ELSE p.slots[j]
  BY <1>1, <1>4 DEF PoolRecords
<1>6. Cardinality({i}) = 1
  BY FS_Singleton
<1>c. /\ BeginClose(p, i).outstanding = p.outstanding + Cardinality({i})
      /\ {i} \subseteq Slots /\ \A j \in {i} : CanBeginClose(p.slots[j])
      /\ BeginClose(p, i).started \subseteq p.started \cup {i}
  BY <1>4, <1>6
<1>7. PoolOK(BeginClose(p, i))
  BY <1>4, <1>5, <1>c, ClosesOK
<1> QED
  BY <1>5, <1>7

\* So does the loop of ConnectionPoolAcquire that closes expired connections.
LEMMA CloseExpiredOK ==
    ASSUME NEW p, PoolOK(p), NEW S, S \subseteq Slots,
           \A i \in S : CanBeginClose(p.slots[i])
    PROVE  /\ PoolOK(CloseExpired(p, S))
           /\ \A i \in Slots : CloseExpired(p, S).slots[i] =
                                 IF i \in S THEN Shut(p.slots[i]) ELSE p.slots[i]
<1> DEFINE slots == [i \in Slots |-> IF i \in S THEN Shut(p.slots[i]) ELSE p.slots[i]]
           last == {i \in S : \A j \in S : j <= i}
<1>1. p \in PoolRecords /\ \A j \in Slots : p.slots[j] \in SlotRecords /\ SlotOK(p.slots[j])
  BY DEF PoolOK, PoolRecords
<1>2. slots \in [Slots -> SlotRecords]
  BY <1>1, ShutOK DEF CanBeginClose
<1>3. CloseExpired(p, S) = Rebuilt(p, slots, p.activeCount, p.outstanding + Cardinality(S),
                                   p.started \cup last)
  BY <1>1 DEF CloseExpired, Shut, Rebuilt, PoolRecords
<1>4. /\ p.activeCount \in Int /\ p.outstanding + Cardinality(S) \in Int
      /\ p.started \cup last \in SUBSET Slots
  BY <1>1, SlotSets DEF PoolRecords
<1>5. last \subseteq S /\ \A i \in Slots : slots[i] = IF i \in S THEN Shut(p.slots[i]) ELSE p.slots[i]
  OBVIOUS
<1> HIDE DEF slots, last
<1>6. /\ CloseExpired(p, S) \in PoolRecords
      /\ CloseExpired(p, S).slots = slots
      /\ CloseExpired(p, S).activeCount = p.activeCount
      /\ CloseExpired(p, S).outstanding = p.outstanding + Cardinality(S)
      /\ CloseExpired(p, S).started = p.started \cup last
  BY <1>1, <1>2, <1>3, <1>4, RebuiltFields
<1>7. PoolOK(CloseExpired(p, S))
  BY <1>5, <1>6, ClosesOK
<1> QED
  BY <1>5, <1>6, <1>7

\* ConnectionPoolCompleteQuicClose empties the slot and counts it out of
\* ActiveCount and of QuicCloseOutstanding once.
LEMMA CompleteQuicCloseOK ==
    ASSUME NEW p, PoolOK(p), NEW i \in p.started
    PROVE  /\ PoolOK(CompleteQuicClose(p, i))
           /\ CompleteQuicClose(p, i).slots[i] = EmptySlot
           /\ \A j \in Slots : j # i => CompleteQuicClose(p, i).slots[j] = p.slots[j]
<1> DEFINE q == CompleteQuicClose(p, i)
           d == Detach(p, i)
<1>1. p \in PoolRecords /\ (\A j \in Slots : SlotOK(p.slots[j])) /\ i \in Slots /\ p.slots[i].closing
  BY DEF PoolOK, Closing, PoolRecords
<1>2. /\ d \in PoolRecords /\ d.slots[i] = EmptySlot
      /\ \A j \in Slots : j # i => d.slots[j] = p.slots[j]
      /\ d.activeCount = IF p.slots[i].connected THEN p.activeCount - 1 ELSE p.activeCount
      /\ d.outstanding = p.outstanding /\ d.started = p.started
  BY <1>1, DetachFields
<1>3. q = Rebuilt(p, d.slots, d.activeCount, p.outstanding - 1, p.started \ {i})
  BY <1>1 DEF CompleteQuicClose, Detach, PoolRecords, Rebuilt
<1>t. /\ d.slots \in [Slots -> SlotRecords] /\ d.activeCount \in Int
      /\ p.outstanding - 1 \in Int /\ p.started \ {i} \in SUBSET Slots
  BY <1>1, <1>2 DEF PoolRecords
<1> HIDE DEF d
<1>4. /\ q \in PoolRecords /\ q.slots = d.slots /\ q.activeCount = d.activeCount
      /\ q.outstanding = p.outstanding - 1 /\ q.started = p.started \ {i}
  BY <1>1, <1>3, <1>t, RebuiltFields
<1> HIDE DEF q
<1>e. ~EmptySlot.connected /\ ~EmptySlot.closing /\ ~EmptySlot.inUse
  BY DEF EmptySlot
<1>5. Connected(q) = Connected(p) \ {i} /\ Closing(q) = Closing(p) \ {i} /\ i \in Connected(p) /\ i \in Closing(p)
  BY <1>1, <1>2, <1>4, <1>e DEF Connected, Closing, SlotOK
<1>6. q.activeCount = Cardinality(Connected(q)) /\ q.outstanding = Cardinality(Closing(q))
  <2>1. IsFiniteSet(Connected(p)) /\ IsFiniteSet(Closing(p))
    BY SlotSets DEF Connected, Closing
  <2>2. /\ p.activeCount = Cardinality(Connected(p)) /\ p.outstanding = Cardinality(Closing(p))
        /\ p.slots[i].connected
    BY <1>5 DEF PoolOK, Connected
  <2>3. /\ Cardinality(Connected(q)) = Cardinality(Connected(p)) - 1
        /\ Cardinality(Closing(q)) = Cardinality(Closing(p)) - 1
    BY <1>5, <2>1, FS_RemoveElement
  <2> QED
    BY <1>2, <1>4, <2>2, <2>3
<1>7. \A key \in Keys : Cardinality(QuotaSlots(q, key)) <= MaxPerHost
  <2> TAKE key \in Keys
  <2>1. QuotaSlots(q, key) \subseteq QuotaSlots(p, key) /\ QuotaSlots(p, key) \subseteq Slots
    BY <1>2, <1>4, <1>e DEF QuotaSlots
  <2>2. Cardinality(QuotaSlots(q, key)) <= Cardinality(QuotaSlots(p, key))
    BY <2>1, SlotSets, FS_Subset
  <2> QED
    BY <2>1, <2>2, SlotSets, PoolAssumption DEF PoolOK
<1>8. \A j \in Slots : SlotOK(q.slots[j])
  BY <1>1, <1>2, <1>4, EmptySlotOK
<1>9. q.started \subseteq Closing(q)
  BY <1>4, <1>5 DEF PoolOK
<1>10. PoolOK(q)
  BY <1>4, <1>6, <1>7, <1>8, <1>9 DEF PoolOK
<1> QED
  BY <1>2, <1>4, <1>10 DEF q

\* The pool after ConnectionPoolInitialize, and after the shutdown.
LEMMA EmptyPoolOK == PoolOK(EmptyPool)
<1> DEFINE p == EmptyPool
<1>1. /\ p \in PoolRecords /\ \A i \in Slots : p.slots[i] = EmptySlot
      /\ p.activeCount = 0 /\ p.outstanding = 0 /\ p.started = {}
  BY EmptySlotOK DEF EmptyPool, PoolRecords
<1> HIDE DEF p
<1>2. Connected(p) = {} /\ Closing(p) = {} /\ \A key \in Keys : QuotaSlots(p, key) = {}
  BY <1>1 DEF Connected, Closing, QuotaSlots, EmptySlot
<1>3. Cardinality({}) = 0
  BY FS_EmptySet
<1>4. Cardinality(Connected(p)) = 0 /\ Cardinality(Closing(p)) = 0
  BY <1>2, <1>3
<1>5. \A key \in Keys : Cardinality(QuotaSlots(p, key)) <= MaxPerHost
  BY <1>2, <1>3, PoolAssumption
<1>6. \A i \in Slots : SlotOK(p.slots[i])
  BY <1>1, EmptySlotOK
<1> QED
  BY <1>1, <1>4, <1>5, <1>6 DEF PoolOK, p

----------------------------------------
(* ConnectionPoolAcquire *)

\* An acquire leaves the slots in use alone.
Spares(p, q) == \A j \in Slots : p.slots[j].inUse => q.slots[j] = p.slots[j]

\* A connection is made in a slot nobody used, or none (i = 0).
Created(p, q, i, key) ==
    /\ PoolOK(q) /\ i \in 0..Capacity /\ Spares(p, q)
    /\ i # 0 => /\ ~p.slots[i].inUse /\ HeldOK(q.slots[i])
                /\ ~q.slots[i].adopted /\ q.slots[i].key = key

\* Creation after a step that spares the slots in use.
LEMMA CreatedTrans ==
    ASSUME NEW p, NEW d, NEW q, NEW i, NEW key, Spares(p, d), Created(d, q, i, key)
    PROVE  Created(p, q, i, key)
<1>1. i # 0 => i \in Slots
  BY DEF Created, Slots
<1> QED
  BY <1>1 DEF Created, Spares

\* Detaching an idle TCP connection spares the slots in use.
LEMMA DetachIdle ==
    ASSUME NEW p, PoolOK(p), NEW i \in Slots, ~p.slots[i].inUse
    PROVE  /\ PoolOK(Detach(p, i)) /\ Spares(p, Detach(p, i))
           /\ Detach(p, i).slots[i] = EmptySlot
BY DetachOK, DetachFields DEF PoolOK, SlotOK, Spares

\* So does filling a free slot.
LEMMA OccupyFree ==
    ASSUME NEW p, PoolOK(p), NEW i \in Slots, NEW key \in Keys,
           p.slots[i].kind = "None", ~QuotaFull(p, key)
    PROVE  Created(p, Occupy(p, i, key), i, key)
BY PoolAssumption, OccupyOK, OccupyFields DEF PoolOK, SlotOK, Slots, Created, Spares

\* Detaching never fills a quota.
LEMMA DetachQuota ==
    ASSUME NEW p, PoolOK(p), NEW i \in Slots, NEW key, ~QuotaFull(p, key)
    PROVE  ~QuotaFull(Detach(p, i), key)
<1>1. p \in PoolRecords
  BY DEF PoolOK
<1>2. /\ QuotaSlots(Detach(p, i), key) \subseteq QuotaSlots(p, key)
      /\ QuotaSlots(p, key) \subseteq Slots
  BY <1>1, DetachFields DEF QuotaSlots, EmptySlot
<1>3. Cardinality(QuotaSlots(Detach(p, i), key)) <= Cardinality(QuotaSlots(p, key))
  BY <1>2, SlotSets, FS_Subset
<1>4. Cardinality(QuotaSlots(Detach(p, i), key)) \in Nat /\ Cardinality(QuotaSlots(p, key)) \in Nat
  BY <1>2, SlotSets
<1> QED
  BY <1>3, <1>4, PoolAssumption DEF QuotaFull

\* Finding a slot, with the eviction of an idle connection when the pool is full.
LEMMA PlaceCreates ==
    ASSUME NEW p, PoolOK(p), NEW key \in Keys, NEW policy, NEW freed,
           ~QuotaFull(p, key), NEW c \in Place(p, key, policy, freed)
    PROVE  Created(p, c[1], c[2], key)
<1>1. CASE \E i \in FreeSlots(p) : c = <<Occupy(p, i, key), i>>
  <2>1. PICK i \in FreeSlots(p) : c = <<Occupy(p, i, key), i>>
    BY <1>1
  <2>2. i \in Slots /\ p.slots[i].kind = "None"
    BY DEF FreeSlots
  <2> QED
    BY <2>1, <2>2, OccupyFree
<1>2. CASE c = <<p, 0>>
  BY <1>2, PoolAssumption DEF Created, Spares
<1>3. CASE \E i \in IdleTcpSlots(p) : c = <<Occupy(Detach(p, i), i, key), i>>
  <2>1. PICK i \in IdleTcpSlots(p) : c = <<Occupy(Detach(p, i), i, key), i>>
    BY <1>3
  <2>2. i \in Slots /\ ~p.slots[i].inUse
    BY DEF IdleTcpSlots, IsIdleTcp
  <2>3. /\ PoolOK(Detach(p, i)) /\ Spares(p, Detach(p, i))
        /\ Detach(p, i).slots[i].kind = "None"
    BY <2>2, DetachIdle DEF EmptySlot
  <2>4. ~QuotaFull(Detach(p, i), key)
    BY <2>2, DetachQuota
  <2>5. Created(Detach(p, i), Occupy(Detach(p, i), i, key), i, key)
    BY <2>2, <2>3, <2>4, OccupyFree
  <2> QED
    BY <2>1, <2>3, <2>5, CreatedTrans
<1>4. \/ \E i \in FreeSlots(p) : c = <<Occupy(p, i, key), i>>
      \/ c = <<p, 0>>
      \/ \E i \in IdleTcpSlots(p) : c = <<Occupy(Detach(p, i), i, key), i>>
  BY DEF Place, IsFirst
<1> QED
  BY <1>1, <1>2, <1>3, <1>4

\* The quota check of ConnectionPoolAcquire, with the eviction it may make.
LEMMA CreateCreates ==
    ASSUME NEW p, PoolOK(p), NEW key \in Keys, NEW policy, NEW freed,
           NEW c \in Create(p, key, policy, freed)
    PROVE  Created(p, c[1], c[2], key)
<1>1. CASE c = <<p, 0>>
  BY <1>1, PoolAssumption DEF Created, Spares
<1>2. CASE ~QuotaFull(p, key) /\ c \in Place(p, key, policy, freed)
  BY <1>2, PlaceCreates
<1>3. CASE \E i \in IdleTcpOfHost(p, key) :
                \/ c = <<Detach(p, i), 0>>
                \/ ~QuotaFull(Detach(p, i), key) /\ c \in Place(Detach(p, i), key, policy, TRUE)
  <2>1. PICK i \in IdleTcpOfHost(p, key) :
                \/ c = <<Detach(p, i), 0>>
                \/ ~QuotaFull(Detach(p, i), key) /\ c \in Place(Detach(p, i), key, policy, TRUE)
    BY <1>3
  <2>2. i \in Slots /\ ~p.slots[i].inUse
    BY DEF IdleTcpOfHost, IsIdleTcp
  <2>3. PoolOK(Detach(p, i)) /\ Spares(p, Detach(p, i))
    BY <2>2, DetachIdle
  <2>4. CASE c = <<Detach(p, i), 0>>
    BY <2>3, <2>4, PoolAssumption DEF Created
  <2>5. CASE ~QuotaFull(Detach(p, i), key) /\ c \in Place(Detach(p, i), key, policy, TRUE)
    BY <2>3, <2>5, PlaceCreates, CreatedTrans
  <2> QED
    BY <2>1, <2>4, <2>5
<1> QED
  BY <1>1, <1>2, <1>3 DEF Create, IsFirst

\* What an acquire hands out: a slot that nobody used, or one more lease of a
\* shared connection with the same key.
Taken(p, q, i, key) ==
    LET s == p.slots[i]
        t == q.slots[i]
    IN  /\ HeldOK(t) /\ ExceptAlpn(t.key) = ExceptAlpn(key)
        /\ t.adopted => s.adopted
        /\ ~s.inUse \/ (t.key = s.key /\ Leases(s) # 0 /\ Leases(t) = Leases(s) + 1)

\* All that an acquire may do.
Acquired(p, a, key) ==
    /\ PoolOK(a[1]) /\ a[2] \in 0..Capacity /\ a[3] \in BOOLEAN
    /\ \A j \in Slots : j # a[2] /\ p.slots[j].inUse => a[1].slots[j] = p.slots[j]
    /\ a[2] # 0 => Taken(p, a[1], a[2], key) /\ (~a[3] => ~a[1].slots[a[2]].adopted)

\* A created connection is a legal outcome.
LEMMA CreatedAcquired ==
    ASSUME NEW p, NEW q, NEW i, NEW key, Created(p, q, i, key)
    PROVE  Acquired(p, <<q, i, FALSE>>, key)
<1>1. i # 0 => i \in Slots
  BY DEF Created, Slots
<1> QED
  BY <1>1 DEF Created, Acquired, Taken, Spares

\* A connection that serves a key has it, but for the negotiated protocol.
LEMMA ServesSameKey ==
    ASSUME NEW key, NEW has, KeyServes(key, has)
    PROVE  ExceptAlpn(has) = ExceptAlpn(key)
  BY DEF KeyServes

\* A slot that the reuse loop may hand out.
IsHit(s, key) ==
    /\ ~(IsIdleTcp(s) /\ s.expired)
    /\ CanShareQuic(s, key) \/ CanShareHttp2(s, key) \/ (IsIdleTcp(s) /\ KeyServes(key, s.key))

\* A reused connection gets one more lease, or its first holder.
LEMMA SharedOK ==
    ASSUME NEW s \in SlotRecords, SlotOK(s), NEW key, IsHit(s, key)
    PROVE  LET t == Shared(s)
           IN  /\ t \in SlotRecords /\ SlotOK(t) /\ HeldOK(t)
               /\ t.connected = s.connected /\ t.closing = s.closing /\ t.key = s.key
               /\ t.adopted = s.adopted /\ ExceptAlpn(t.key) = ExceptAlpn(key)
               /\ ~s.inUse \/ (Leases(s) # 0 /\ Leases(t) = Leases(s) + 1)
<1>1. CASE CanShareQuic(s, key)
  <2> DEFINE n == s.h3Leases + 1
             t == [s EXCEPT !.h3Leases = n, !.active = TRUE, !.inUse = TRUE]
  <2>1. Shared(s) = t
    BY <1>1 DEF Shared, CanShareQuic, QuicUsable
  <2>n. n \in Nat
    BY DEF SlotRecords
  <2> HIDE DEF n
  <2>2. t \in SlotRecords
    BY <2>n DEF SlotRecords
  <2>3. /\ t.kind = s.kind /\ t.connected = s.connected /\ t.key = s.key /\ t.inUse /\ t.active
        /\ t.keepAlive = s.keepAlive /\ t.closing = s.closing /\ t.adopted = s.adopted
        /\ t.h2Leases = s.h2Leases /\ t.h1Leases = s.h1Leases /\ t.h3Leases = n
        /\ t.h3Max = s.h3Max
    BY DEF SlotRecords
  <2>4. /\ s.kind = "Quic" /\ s.connected /\ ~s.closing /\ s.adopted /\ s.key = key
        /\ s.h3Leases < s.h3Max /\ s.h3Leases \in Nat /\ s.h3Max \in Nat
        /\ s.h2Leases = 0 /\ s.h1Leases = 0 /\ ~s.keepAlive
        /\ ~s.closeWhenIdle /\ ~s.unusable
    BY <1>1 DEF CanShareQuic, QuicUsable, SlotRecords, SlotOK
  <2> HIDE DEF t
  <2> QED
    BY <2>1, <2>2, <2>3, <2>4 DEF SlotOK, HeldOK, Leases, n
<1>2. CASE CanShareHttp2(s, key)
  <2> DEFINE t == [s EXCEPT !.h2Leases = @ + 1]
  <2>1. Shared(s) = t
    BY <1>2 DEF Shared, CanShareHttp2
  <2>2. t \in SlotRecords
    BY DEF SlotRecords
  <2>3. /\ t.kind = s.kind /\ t.connected = s.connected /\ t.key = s.key /\ t.inUse = s.inUse
        /\ t.keepAlive = s.keepAlive /\ t.closing = s.closing /\ t.adopted = s.adopted
        /\ t.h2Leases = s.h2Leases + 1 /\ t.h1Leases = s.h1Leases /\ t.h3Leases = s.h3Leases
        /\ t.h3Max = s.h3Max
    BY DEF SlotRecords
  <2>4. /\ s.kind = "Tcp" /\ s.connected /\ s.inUse /\ ExceptAlpn(s.key) = ExceptAlpn(key)
        /\ s.h2Leases \in Nat \ {0} /\ s.h1Leases \in Nat /\ s.h3Leases = 0 /\ ~s.closing
    BY <1>2, ServesSameKey, PoolAssumption DEF CanShareHttp2, SlotRecords, SlotOK
  <2> HIDE DEF t
  <2> QED
    BY <2>1, <2>2, <2>3, <2>4 DEF SlotOK, HeldOK, Leases
<1>3. CASE IsIdleTcp(s) /\ KeyServes(key, s.key)
  <2> DEFINE t == [s EXCEPT !.inUse = TRUE]
  <2>1. Shared(s) = t
    BY <1>3 DEF Shared, IsIdleTcp
  <2>2. t \in SlotRecords
    BY DEF SlotRecords
  <2>3. /\ t.kind = s.kind /\ t.connected = s.connected /\ t.key = s.key /\ t.inUse
        /\ t.keepAlive = s.keepAlive /\ t.closing = s.closing /\ t.adopted = s.adopted
        /\ t.h2Leases = s.h2Leases /\ t.h1Leases = s.h1Leases /\ t.h3Leases = s.h3Leases
        /\ t.h3Max = s.h3Max
    BY DEF SlotRecords
  <2>4. s.kind = "Tcp" /\ s.connected /\ ~s.inUse /\ ExceptAlpn(s.key) = ExceptAlpn(key)
    BY <1>3, ServesSameKey DEF IsIdleTcp
  <2> HIDE DEF t
  <2> QED
    BY <2>1, <2>2, <2>3, <2>4 DEF SlotOK, HeldOK, Leases
<1> QED
  BY <1>1, <1>2, <1>3 DEF IsHit

\* Reuse is a legal outcome of an acquire.
LEMMA SharedAcquired ==
    ASSUME NEW p, PoolOK(p), NEW i \in Slots, NEW key, IsHit(p.slots[i], key)
    PROVE  Acquired(p, <<Update(p, i, Shared(p.slots[i])), i, TRUE>>, key)
<1> DEFINE t == Shared(p.slots[i])
           q == Update(p, i, t)
<1>1. p \in PoolRecords /\ p.slots[i] \in SlotRecords /\ SlotOK(p.slots[i])
  BY DEF PoolOK, PoolRecords
<1>2. /\ t \in SlotRecords /\ SlotOK(t) /\ HeldOK(t)
      /\ t.connected = p.slots[i].connected /\ t.closing = p.slots[i].closing
      /\ t.key = p.slots[i].key /\ t.adopted = p.slots[i].adopted
      /\ ExceptAlpn(t.key) = ExceptAlpn(key)
      /\ ~p.slots[i].inUse \/ (Leases(p.slots[i]) # 0 /\ Leases(t) = Leases(p.slots[i]) + 1)
  BY <1>1, SharedOK
<1> HIDE DEF t
<1>3. PoolOK(q)
  BY <1>2, UpdateOK DEF SameQuota
<1>4. q.slots[i] = t /\ \A j \in Slots : j # i => q.slots[j] = p.slots[j]
  BY <1>1, <1>2, UpdateFields
<1>5. i \in 0..Capacity /\ i # 0
  BY PoolAssumption DEF Slots
<1> HIDE DEF q
<1>6. Acquired(p, <<q, i, TRUE>>, key)
  BY <1>2, <1>3, <1>4, <1>5 DEF Acquired, Taken
<1> QED
  BY <1>6 DEF q, t

\* Closing an idle QUIC connection spares the slots in use.
LEMMA TryBeginCloseIdle ==
    ASSUME NEW p, PoolOK(p), NEW i \in Slots, ~p.slots[i].inUse
    PROVE  PoolOK(TryBeginClose(p, i)) /\ Spares(p, TryBeginClose(p, i))
BY BeginCloseOK DEF TryBeginClose, Spares

\* ConnectionPoolAcquire with ForceNew or NoPool.
LEMMA AcquireNewOK ==
    ASSUME NEW p, PoolOK(p), NEW key \in Keys, NEW policy, NEW a \in AcquireNew(p, key, policy)
    PROVE  Acquired(p, a, key)
<1> DEFINE idle == IdleQuicOfHost(p, key)
<1>1. PICK q : /\ \E c \in Create(q, key, policy, FALSE) : a = <<c[1], c[2], FALSE>>
               /\ q = p \/ \E i \in idle : q = TryBeginClose(p, i)
  BY ZenonT(40) DEF AcquireNew, IsFirst
<1>c. PICK c \in Create(q, key, policy, FALSE) : a = <<c[1], c[2], FALSE>>
  BY <1>1
<1>2. PoolOK(q) /\ Spares(p, q)
  BY TryBeginCloseIdle, <1>1 DEF Spares, IdleQuicOfHost, IsIdleQuic
<1>3. Created(p, c[1], c[2], key)
  BY <1>2, CreateCreates, CreatedTrans
<1> QED
  BY <1>c, <1>3, CreatedAcquired

\* ConnectionPoolAcquire with ReuseOrCreate.
LEMMA AcquireReuseOK ==
    ASSUME NEW p, PoolOK(p), NEW key \in Keys, NEW a \in AcquireReuse(p, key)
    PROVE  Acquired(p, a, key)
<1> DEFINE hits == Hits(p, key)
           S == ExpiredBefore(p, hits)
           q == CloseExpired(p, S)
<1>1. /\ S \subseteq Slots /\ \A i \in S : CanBeginClose(p.slots[i]) /\ ~p.slots[i].inUse
  BY DEF ExpiredBefore, IsIdleQuic
<1>2. PoolOK(q) /\ \A i \in Slots : i \notin S => q.slots[i] = p.slots[i]
  BY <1>1, CloseExpiredOK
<1>3. Spares(p, q)
  BY <1>1, <1>2 DEF Spares
<1>4. \A i \in hits : i \in Slots /\ i \notin S
  BY PoolAssumption DEF Hits, ExpiredBefore, Slots
<1>5. CASE hits = {}
  <2>1. PICK c \in Create(q, key, "ReuseOrCreate", FALSE) : a = <<c[1], c[2], FALSE>>
    BY <1>5 DEF AcquireReuse
  <2> QED
    BY <1>2, <1>3, <2>1, CreateCreates, CreatedTrans, CreatedAcquired
<1>6. CASE hits # {}
  <2>1. PICK i \in hits :
          IF IsIdleTcp(q.slots[i]) /\ q.slots[i].expired
            THEN \E c \in Create(Detach(q, i), key, "ReuseOrCreate", TRUE) : a = <<c[1], c[2], FALSE>>
            ELSE a = <<Update(q, i, Shared(q.slots[i])), i, TRUE>>
    BY <1>6 DEF AcquireReuse, IsFirst
  <2>2. i \in Slots /\ q.slots[i] = p.slots[i]
    BY <1>2, <1>4
  <2>3. CASE IsIdleTcp(q.slots[i]) /\ q.slots[i].expired
    <3>1. PICK c \in Create(Detach(q, i), key, "ReuseOrCreate", TRUE) : a = <<c[1], c[2], FALSE>>
      BY <2>1, <2>3
    <3>2. PoolOK(Detach(q, i)) /\ Spares(q, Detach(q, i))
      BY <1>2, <2>2, <2>3, DetachIdle DEF IsIdleTcp
    <3>3. Created(q, c[1], c[2], key)
      BY <3>2, CreateCreates, CreatedTrans
    <3> QED
      BY <1>3, <3>1, <3>3, CreatedTrans, CreatedAcquired
  <2>4. CASE ~(IsIdleTcp(q.slots[i]) /\ q.slots[i].expired)
    <3>1. IsHit(q.slots[i], key)
      BY <2>2, <2>4 DEF Hits, IsHit
    <3>a. a = <<Update(q, i, Shared(q.slots[i])), i, TRUE>>
      BY <2>1, <2>4
    <3>2. Acquired(q, a, key) /\ a[2] = i /\ a[3] = TRUE
      BY <1>2, <2>2, <3>a, <3>1, SharedAcquired
    <3> QED
      BY <1>3, <2>2, <3>2 DEF Acquired, Taken, Spares
  <2> QED
    BY <2>3, <2>4
<1> QED
  BY <1>5, <1>6

\* Whatever the policy and the state of the pool, an acquire hands out a slot that
\* nobody holds, or a shared one with room, and leaves every other holder's alone.
LEMMA AcquireOK ==
    ASSUME NEW p, PoolOK(p), NEW key \in Keys, NEW policy, NEW a \in Acquire(p, key, policy)
    PROVE  Acquired(p, a, key)
  BY AcquireReuseOK, AcquireNewOK DEF Acquire

----------------------------------------
(* What the operations leave to the holders of a slot *)

\* What a step may do to a slot that a request holds: it stays held, it is the same
\* connection, and it has room for at least as many holders.
Kept(s, t) ==
    /\ HeldOK(t) /\ ExceptAlpn(t.key) = ExceptAlpn(s.key) /\ Bound(s) <= Bound(t)

\* Leases and bounds are natural numbers.
LEMMA BoundType ==
    ASSUME NEW s \in SlotRecords
    PROVE  Leases(s) \in Nat /\ Bound(s) \in Nat /\ 1 <= Bound(s)
<1>1. Leases(s) \in Nat
  BY DEF SlotRecords, Leases
<1> QED
  BY <1>1 DEF Bound

\* What a request that lets go of slot i may leave behind: the slot is gone only
\* if it had room for no other holder.
Released(p, q, i) ==
    LET s == p.slots[i]
        t == q.slots[i]
    IN  /\ PoolOK(q)
        /\ \A j \in Slots : j # i => q.slots[j] = p.slots[j]
        /\ t.adopted => s.adopted
        /\ Bound(s) = 1 \/ (HeldOK(t) /\ t.key = s.key /\ Bound(s) <= Bound(t) + 1)

\* The fields the invariant speaks of are the same.
SameView(s, t) ==
    /\ t.kind = s.kind /\ t.inUse = s.inUse /\ t.connected = s.connected /\ t.key = s.key
    /\ t.h2Leases = s.h2Leases /\ t.h1Leases = s.h1Leases /\ t.h3Leases = s.h3Leases
    /\ t.h3Max = s.h3Max /\ t.keepAlive = s.keepAlive /\ t.adopted = s.adopted
    /\ t.active = s.active /\ t.closing = s.closing
    /\ s.closeWhenIdle => t.closeWhenIdle
    /\ s.unusable => t.unusable

\* A step that takes nothing from the holders of a slot.
Keeps(p, q) ==
    /\ PoolOK(q)
    /\ \A j \in Slots : HeldOK(p.slots[j]) =>
            /\ Kept(p.slots[j], q.slots[j])
            /\ q.slots[j].adopted => p.slots[j].adopted

\* The types of a slot of a legal pool.
LEMMA SlotTypes ==
    ASSUME NEW p, PoolOK(p), NEW i \in Slots
    PROVE  /\ p \in PoolRecords /\ p.slots[i] \in SlotRecords /\ SlotOK(p.slots[i])
           /\ Bound(p.slots[i]) \in Nat /\ Leases(p.slots[i]) \in Nat
BY BoundType DEF PoolOK, PoolRecords

\* A slot left alone is kept.
LEMMA KeptSelf ==
    ASSUME NEW p, PoolOK(p), NEW i \in Slots, HeldOK(p.slots[i])
    PROVE  Kept(p.slots[i], p.slots[i])
  BY SlotTypes DEF Kept

\* So is a pool.
LEMMA KeepsSelf == ASSUME NEW p, PoolOK(p) PROVE Keeps(p, p)
  BY KeptSelf DEF Keeps

\* A change of one slot that keeps it keeps the pool.
LEMMA KeepsUpdate ==
    ASSUME NEW p, PoolOK(p), NEW i \in Slots, NEW t \in SlotRecords, SlotOK(t),
           t.connected = p.slots[i].connected, t.closing = p.slots[i].closing,
           t.connected => SameQuota(t.key, p.slots[i].key),
           HeldOK(p.slots[i]) => Kept(p.slots[i], t),
           t.adopted => p.slots[i].adopted
    PROVE  Keeps(p, Update(p, i, t))
<1>1. PoolOK(Update(p, i, t))
  BY UpdateOK
<1>2. /\ Update(p, i, t).slots[i] = t
      /\ \A j \in Slots : j # i => Update(p, i, t).slots[j] = p.slots[j]
  <2>1. p \in PoolRecords
    BY DEF PoolOK
  <2> QED
    BY <2>1, UpdateFields
<1> QED
  BY <1>1, <1>2, KeptSelf DEF Keeps

\* In particular a change of a field the invariant does not mention.
LEMMA KeepsView ==
    ASSUME NEW p, PoolOK(p), NEW i \in Slots, NEW t \in SlotRecords,
           SameView(p.slots[i], t)
    PROVE  Keeps(p, Update(p, i, t))
BY SlotTypes, BoundType, KeepsUpdate DEF SameView, SlotOK, Leases, Bound, HeldOK, Kept, SameQuota

\* The operations on sockets, on the pipeline's sequence numbers and buffer, and the
\* idle timer take nothing from any holder.
LEMMA PlainUpdates ==
    ASSUME NEW p, PoolOK(p), NEW i \in Slots
    PROVE  /\ Keeps(p, CloseTransport(p, i)) /\ Keeps(p, DropSocket(p, i))
           /\ Keeps(p, AdoptHttp2(p, i)) /\ Keeps(p, BeginPipelineSend(p, i))
           /\ Keeps(p, TakeBuffered(p, i)) /\ Keeps(p, StoreBuffered(p, i))
           /\ Keeps(p, AgeOut(p, i)) /\ Keeps(p, FailPipeline(p, i))
           /\ \A seq : Keeps(p, CompletePipelineReceive(p, i, seq))
<1> DEFINE s == p.slots[i]
<1>1. s \in SlotRecords
  BY SlotTypes
<1> HIDE DEF s
<1>2. Keeps(p, CloseTransport(p, i))
  <2> DEFINE t == [s EXCEPT !.opened = FALSE, !.alive = FALSE, !.http2 = FALSE]
  <2>1. t \in SlotRecords /\ SameView(s, t)
    BY <1>1 DEF SlotRecords, SameView
  <2> QED
    BY <2>1, KeepsView DEF CloseTransport, s
<1>3. Keeps(p, DropSocket(p, i))
  <2> DEFINE t == [s EXCEPT !.alive = FALSE]
  <2>1. t \in SlotRecords /\ SameView(s, t)
    BY <1>1 DEF SlotRecords, SameView
  <2> QED
    BY <2>1, KeepsView DEF DropSocket, s
<1>4. Keeps(p, AdoptHttp2(p, i))
  <2> DEFINE t == [s EXCEPT !.http2 = TRUE]
  <2>1. t \in SlotRecords /\ SameView(s, t)
    BY <1>1 DEF SlotRecords, SameView
  <2> QED
    BY <2>1, KeepsView DEF AdoptHttp2, s
<1>5. Keeps(p, BeginPipelineSend(p, i))
  <2> DEFINE t == [s EXCEPT !.sendSeq = @ + 1]
  <2>1. t \in SlotRecords /\ SameView(s, t)
    BY <1>1 DEF SlotRecords, SameView
  <2> QED
    BY <2>1, KeepsView DEF BeginPipelineSend, s
<1>6. Keeps(p, TakeBuffered(p, i))
  <2> DEFINE t == [s EXCEPT !.buffered = FALSE]
  <2>1. t \in SlotRecords /\ SameView(s, t)
    BY <1>1 DEF SlotRecords, SameView
  <2> QED
    BY <2>1, KeepsView DEF TakeBuffered, s
<1>7. Keeps(p, StoreBuffered(p, i))
  <2> DEFINE t == [s EXCEPT !.buffered = TRUE]
  <2>1. t \in SlotRecords /\ SameView(s, t)
    BY <1>1 DEF SlotRecords, SameView
  <2> QED
    BY <2>1, KeepsView DEF StoreBuffered, s
<1>8. Keeps(p, AgeOut(p, i))
  <2> DEFINE t == [s EXCEPT !.expired = TRUE]
  <2>1. t \in SlotRecords /\ SameView(s, t)
    BY <1>1 DEF SlotRecords, SameView
  <2> QED
    BY <2>1, KeepsView DEF AgeOut, s
<1>9. Keeps(p, FailPipeline(p, i))
  <2> DEFINE t == [s EXCEPT !.closeWhenIdle = TRUE, !.broken = TRUE]
  <2>1. t \in SlotRecords /\ SameView(s, t)
    BY <1>1 DEF SlotRecords, SameView
  <2> QED
    BY <2>1, KeepsView, KeepsSelf DEF FailPipeline, s
<1>10. ASSUME NEW seq PROVE Keeps(p, CompletePipelineReceive(p, i, seq))
  <2> DEFINE t == [s EXCEPT !.recvSeq = @ + 1]
  <2>1. t \in SlotRecords /\ SameView(s, t)
    BY <1>1 DEF SlotRecords, SameView
  <2> QED
    BY <2>1, KeepsView, KeepsSelf DEF CompletePipelineReceive, s
<1> QED
  BY <1>2, <1>3, <1>4, <1>5, <1>6, <1>7, <1>8, <1>9, <1>10

\* PooledConnectionAdoptSocket, AdoptTls and SetAlpn rename the connection
\* within its key and its quota.
LEMMA AdoptSocketKeeps ==
    ASSUME NEW p, PoolOK(p), NEW i \in Slots, HeldOK(p.slots[i]), NEW alpn \in Alpns
    PROVE  Keeps(p, AdoptSocket(p, i, alpn))
<1> DEFINE s == p.slots[i]
           key == [s.key EXCEPT !.alpn = alpn]
           t == [s EXCEPT !.opened = TRUE, !.alive = TRUE, !.key = key]
<1>1. s \in SlotRecords /\ SlotOK(s)
  BY SlotTypes
<1>2. s.key \in KeyRecords /\ s.key.kind = s.kind
  BY <1>1 DEF SlotOK, HeldOK
<1>3. /\ key \in KeyRecords /\ key.kind = s.key.kind /\ key.host = s.key.host
      /\ ExceptAlpn(key) = ExceptAlpn(s.key)
  BY <1>2 DEF KeyRecords, Alpns, ExceptAlpn
<1> HIDE DEF s, key
<1>4. /\ t \in SlotRecords /\ t.key = key /\ t.kind = s.kind /\ t.inUse = s.inUse
      /\ t.connected = s.connected /\ t.h2Leases = s.h2Leases /\ t.h1Leases = s.h1Leases
      /\ t.h3Leases = s.h3Leases /\ t.h3Max = s.h3Max /\ t.keepAlive = s.keepAlive
      /\ t.adopted = s.adopted /\ t.active = s.active /\ t.closing = s.closing
      /\ t.closeWhenIdle = s.closeWhenIdle /\ t.unusable = s.unusable
  BY <1>1, <1>3 DEF SlotRecords
<1>5. AdoptSocket(p, i, alpn) = Update(p, i, t)
  BY DEF AdoptSocket, s, key
<1> HIDE DEF t
<1>6. SlotOK(t) /\ Bound(t) = Bound(s) /\ SameQuota(t.key, s.key)
  BY <1>1, <1>2, <1>3, <1>4 DEF SlotOK, Bound, Leases, SameQuota
<1>7. Kept(s, t)
  BY <1>1, <1>3, <1>4, <1>6, BoundType DEF Kept, HeldOK, s
<1> QED
  BY <1>4, <1>5, <1>6, <1>7, KeepsUpdate DEF s

\* Keeps is transitive.
LEMMA KeepsTrans ==
    ASSUME NEW p, PoolOK(p), NEW d, Keeps(p, d), NEW q, Keeps(d, q)
    PROVE  Keeps(p, q)
<1> SUFFICES ASSUME NEW j \in Slots, HeldOK(p.slots[j])
             PROVE  /\ Kept(p.slots[j], q.slots[j])
                    /\ q.slots[j].adopted => p.slots[j].adopted
  BY DEF Keeps
<1>1. /\ Kept(p.slots[j], d.slots[j]) /\ Kept(d.slots[j], q.slots[j])
      /\ q.slots[j].adopted => p.slots[j].adopted
  BY DEF Keeps, Kept
<1>2. Bound(p.slots[j]) \in Nat /\ Bound(d.slots[j]) \in Nat /\ Bound(q.slots[j]) \in Nat
  BY SlotTypes DEF Keeps
<1> QED
  BY <1>1, <1>2 DEF Kept

\* The first HTTP/2 or pipeline lease replaces the exclusive holder's place.
LEMMA PromoteKeeps ==
    ASSUME NEW p, PoolOK(p), NEW i \in Slots, HeldOK(p.slots[i]), p.slots[i].kind = "Tcp",
           p.slots[i].h2Leases = 0, p.slots[i].h1Leases = 0
    PROVE  Keeps(p, PromoteHttp2(p, i)) /\ Keeps(p, PromoteHttp1Pipeline(p, i))
<1> DEFINE s == p.slots[i]
           t == [s EXCEPT !.h2Leases = 1]
           u == [s EXCEPT !.h1Leases = 1, !.sendSeq = 1, !.recvSeq = 1,
                          !.broken = FALSE, !.buffered = FALSE]
<1>1. s \in SlotRecords /\ SlotOK(s) /\ Bound(s) \in Nat
  BY SlotTypes
<1>2. PromoteHttp2(p, i) = Update(p, i, t) /\ PromoteHttp1Pipeline(p, i) = Update(p, i, u)
  BY DEF PromoteHttp2, PromoteHttp1Pipeline
<1> HIDE DEF s
<1>4. /\ t \in SlotRecords /\ t.key = s.key /\ t.kind = s.kind /\ t.inUse = s.inUse
      /\ t.connected = s.connected /\ t.h2Leases = 1 /\ t.h1Leases = s.h1Leases
      /\ t.h3Leases = s.h3Leases /\ t.h3Max = s.h3Max /\ t.keepAlive = s.keepAlive
      /\ t.adopted = s.adopted /\ t.active = s.active /\ t.closing = s.closing
  BY <1>1 DEF SlotRecords
<1>5. /\ u \in SlotRecords /\ u.key = s.key /\ u.kind = s.kind /\ u.inUse = s.inUse
      /\ u.connected = s.connected /\ u.h2Leases = s.h2Leases /\ u.h1Leases = 1
      /\ u.h3Leases = s.h3Leases /\ u.h3Max = s.h3Max /\ u.keepAlive = s.keepAlive
      /\ u.adopted = s.adopted /\ u.active = s.active /\ u.closing = s.closing
  BY <1>1 DEF SlotRecords
<1> HIDE DEF t, u
<1>6. s.kind = "Tcp" /\ HeldOK(s) /\ s.h2Leases = 0 /\ s.h1Leases = 0 /\ s.h3Leases = 0
  BY <1>1 DEF s, SlotOK
<1>7. SlotOK(t) /\ Bound(t) = 1 /\ HeldOK(t) /\ SlotOK(u) /\ Bound(u) = 1 /\ HeldOK(u) /\ Bound(s) = 1
  BY <1>1, <1>4, <1>5, <1>6 DEF SlotOK, Bound, Leases, HeldOK
<1>8. Kept(s, t) /\ Kept(s, u) /\ SameQuota(t.key, s.key) /\ SameQuota(u.key, s.key)
  BY <1>4, <1>5, <1>7 DEF Kept, SameQuota
<1> QED
  BY <1>2, <1>4, <1>5, <1>7, <1>8, KeepsUpdate DEF s

\* PooledConnectionAdoptHttp2 and the promotion in one step.
LEMMA AdoptPromoteKeeps ==
    ASSUME NEW p, PoolOK(p), NEW i \in Slots, HeldOK(p.slots[i]), p.slots[i].kind = "Tcp",
           p.slots[i].h2Leases = 0, p.slots[i].h1Leases = 0
    PROVE  Keeps(p, PromoteHttp2(AdoptHttp2(p, i), i))
<1> DEFINE s == p.slots[i]
           t == [s EXCEPT !.http2 = TRUE]
           d == AdoptHttp2(p, i)
<1>1. p \in PoolRecords /\ s \in SlotRecords
  BY SlotTypes
<1>2. t \in SlotRecords /\ SameView(s, t)
  BY <1>1 DEF SlotRecords, SameView
<1>3. d = Update(p, i, t)
  BY DEF AdoptHttp2
<1>4. Keeps(p, d)
  BY PlainUpdates
<1> HIDE DEF t
<1>5. d.slots[i] = t
  BY <1>1, <1>2, <1>3, UpdateFields
<1> HIDE DEF d
<1>6. PoolOK(d) /\ HeldOK(d.slots[i]) /\ d.slots[i].kind = "Tcp"
      /\ d.slots[i].h2Leases = 0 /\ d.slots[i].h1Leases = 0
  BY <1>2, <1>4, <1>5 DEF SameView, Keeps, HeldOK
<1>7. Keeps(d, PromoteHttp2(d, i))
  BY <1>6, PromoteKeeps
<1>8. Keeps(p, PromoteHttp2(d, i))
  BY <1>4, <1>7, KeepsTrans
<1> QED
  BY <1>8 DEF d

\* Binding a stream of a QUIC connection.
LEMMA QuicLeaseKeeps ==
    ASSUME NEW p, PoolOK(p), NEW i \in Slots, HeldOK(p.slots[i])
    PROVE  /\ CanBindHttp3(p.slots[i]) => Keeps(p, BindHttp3(p, i))
           /\ CanPromoteHttp3(p.slots[i]) => Keeps(p, PromoteHttp3(p, i))
<1> DEFINE s == p.slots[i]
           n == s.h3Leases + 1
           t == [s EXCEPT !.h3Max = MaxH3Streams]
           u == [s EXCEPT !.h3Max = MaxH3Streams, !.h3Leases = n, !.inUse = TRUE]
<1>1. s \in SlotRecords /\ SlotOK(s) /\ Bound(s) \in Nat /\ n \in Nat \ {0} /\ MaxH3Streams \in Nat
  BY SlotTypes, PoolAssumption DEF SlotRecords
<1>2. BindHttp3(p, i) = Update(p, i, t) /\ PromoteHttp3(p, i) = Update(p, i, u)
  BY DEF BindHttp3, PromoteHttp3
<1> HIDE DEF s, n
<1>4. /\ t \in SlotRecords /\ t.key = s.key /\ t.kind = s.kind /\ t.inUse = s.inUse
      /\ t.connected = s.connected /\ t.h2Leases = s.h2Leases /\ t.h1Leases = s.h1Leases
      /\ t.h3Leases = s.h3Leases /\ t.keepAlive = s.keepAlive
      /\ t.adopted = s.adopted /\ t.active = s.active /\ t.closing = s.closing
  BY <1>1 DEF SlotRecords
<1>5. /\ u \in SlotRecords /\ u.key = s.key /\ u.kind = s.kind /\ u.inUse
      /\ u.connected = s.connected /\ u.h2Leases = s.h2Leases /\ u.h1Leases = s.h1Leases
      /\ u.h3Leases = n /\ u.keepAlive = s.keepAlive
      /\ u.adopted = s.adopted /\ u.active = s.active /\ u.closing = s.closing
  BY <1>1 DEF SlotRecords
<1> HIDE DEF t, u
<1>6. HeldOK(s) /\ s.h3Leases \in Nat /\ s.h2Leases \in Nat /\ s.h1Leases \in Nat
  BY <1>1 DEF s, SlotRecords
<1>7. ASSUME CanBindHttp3(s) PROVE SlotOK(t) /\ Kept(s, t) /\ SameQuota(t.key, s.key)
  BY <1>7, <1>1, <1>4, <1>6 DEF CanBindHttp3, QuicUsable, SlotOK, HeldOK, Bound, Leases, Kept,
     SameQuota
<1>8. ASSUME CanPromoteHttp3(s) PROVE SlotOK(u) /\ Kept(s, u) /\ SameQuota(u.key, s.key)
  BY <1>8, <1>1, <1>5, <1>6 DEF CanPromoteHttp3, QuicUsable, SlotOK, HeldOK, Bound, Leases, n, Kept,
     SameQuota
<1> QED
  BY <1>2, <1>4, <1>5, <1>7, <1>8, KeepsUpdate DEF s

\* ConnectionPoolAdoptQuic after the handshake.
LEMMA AdoptQuicOK ==
    ASSUME NEW p, PoolOK(p), NEW i \in Slots, HeldOK(p.slots[i])
    PROVE  /\ PoolOK(AdoptQuic(p, i)) /\ Kept(p.slots[i], AdoptQuic(p, i).slots[i])
           /\ \A j \in Slots : j # i => AdoptQuic(p, i).slots[j] = p.slots[j]
<1> DEFINE s == p.slots[i]
           t == [s EXCEPT !.adopted = TRUE]
<1>1. p \in PoolRecords /\ s \in SlotRecords /\ SlotOK(s) /\ Bound(s) \in Nat
  BY SlotTypes
<1>2. AdoptQuic(p, i) = Update(p, i, t)
  BY DEF AdoptQuic
<1> HIDE DEF s
<1>3. /\ t \in SlotRecords /\ t.key = s.key /\ t.kind = s.kind /\ t.inUse = s.inUse
      /\ t.connected = s.connected /\ t.h2Leases = s.h2Leases /\ t.h1Leases = s.h1Leases
      /\ t.h3Leases = s.h3Leases /\ t.h3Max = s.h3Max /\ t.keepAlive = s.keepAlive
      /\ t.adopted /\ t.active = s.active /\ t.closing = s.closing
      /\ t.closeWhenIdle = s.closeWhenIdle /\ t.unusable = s.unusable
  BY <1>1 DEF SlotRecords
<1> HIDE DEF t
<1>4. SlotOK(t) /\ Bound(t) = Bound(s) /\ SameQuota(t.key, s.key)
  BY <1>1, <1>3 DEF SlotOK, Bound, Leases, SameQuota
<1>5. Kept(s, t)
  BY <1>1, <1>3, <1>4 DEF Kept, HeldOK, s
<1>6. PoolOK(Update(p, i, t))
  BY <1>3, <1>4, UpdateOK DEF s
<1> QED
  BY <1>1, <1>2, <1>3, <1>5, <1>6, UpdateFields DEF s

\* A release that leaves the connection in its slot.
LEMMA ReleasedUpdate ==
    ASSUME NEW p, PoolOK(p), NEW i \in Slots, NEW t \in SlotRecords, SlotOK(t),
           t.connected = p.slots[i].connected, t.closing = p.slots[i].closing,
           t.key = p.slots[i].key, t.adopted = p.slots[i].adopted,
           Bound(p.slots[i]) = 1 \/ (HeldOK(t) /\ Bound(p.slots[i]) <= Bound(t) + 1)
    PROVE  Released(p, Update(p, i, t), i)
BY UpdateOK, UpdateFields DEF SameQuota, PoolOK, Released

\* A release that detaches a connection without other holders.
LEMMA ReleasedDetach ==
    ASSUME NEW p, PoolOK(p), NEW i \in Slots, ~p.slots[i].closing, Bound(p.slots[i]) = 1
    PROVE  Released(p, Detach(p, i), i)
BY DetachFields, DetachOK DEF PoolOK, EmptySlot, Released

\* ConnectionPoolRelease of an HTTP/2 stream lease.
LEMMA ReleaseHttp2OK ==
    ASSUME NEW p, PoolOK(p), NEW i \in Slots, HeldOK(p.slots[i]), NEW reusable \in BOOLEAN,
           p.slots[i].h2Leases # 0
    PROVE  Released(p, ReleaseHttp2(p, i, reusable), i)
<1> DEFINE s == p.slots[i]
           n == s.h2Leases - 1
           b == s.closeWhenIdle \/ ~reusable
           t == [s EXCEPT !.h2Leases = n, !.closeWhenIdle = b]
           u == [t EXCEPT !.inUse = FALSE, !.expired = FALSE]
<1>1. s \in SlotRecords /\ SlotOK(s) /\ n \in Nat /\ b \in BOOLEAN
  BY SlotTypes DEF SlotRecords
<1>2. ReleaseHttp2(p, i, reusable) = IF t.h2Leases # 0 THEN Update(p, i, t)
                                     ELSE IF t.closeWhenIdle THEN Detach(p, i)
                                     ELSE Update(p, i, u)
  BY DEF ReleaseHttp2
<1>h. HeldOK(s) /\ s.h2Leases # 0 /\ s.h2Leases \in Nat /\ n = s.h2Leases - 1
  BY SlotTypes DEF SlotRecords
<1> HIDE DEF s, n, b
<1>3. /\ t \in SlotRecords /\ t.key = s.key /\ t.kind = s.kind /\ t.inUse = s.inUse
      /\ t.connected = s.connected /\ t.h2Leases = n /\ t.h1Leases = s.h1Leases
      /\ t.h3Leases = s.h3Leases /\ t.h3Max = s.h3Max /\ t.keepAlive = s.keepAlive
      /\ t.adopted = s.adopted /\ t.active = s.active /\ t.closing = s.closing
  BY <1>1 DEF SlotRecords
<1> HIDE DEF t
<1>4. /\ u \in SlotRecords /\ u.key = t.key /\ u.kind = t.kind /\ ~u.inUse
      /\ u.connected = t.connected /\ u.h2Leases = t.h2Leases /\ u.h1Leases = t.h1Leases
      /\ u.h3Leases = t.h3Leases /\ u.h3Max = t.h3Max /\ u.keepAlive = t.keepAlive
      /\ u.adopted = t.adopted /\ u.active = t.active /\ u.closing = t.closing
  BY <1>3 DEF SlotRecords
<1> HIDE DEF u
<1>5. s.kind = "Tcp" /\ s.h1Leases = 0 /\ s.h3Leases = 0 /\ Bound(s) = n + 1
  BY <1>1, <1>h DEF SlotOK, Bound, Leases
<1>6. CASE n # 0
  <2>1. SlotOK(t) /\ HeldOK(t) /\ Bound(t) = n
    BY <1>1, <1>h, <1>3, <1>5, <1>6 DEF SlotOK, HeldOK, Bound, Leases
  <2>2. Released(p, Update(p, i, t), i)
    BY <1>1, <1>3, <1>5, <2>1, ReleasedUpdate DEF s
  <2> QED
    BY <1>2, <1>3, <1>6, <2>2
<1>7. CASE n = 0
  <2>0. /\ u.kind = "Tcp" /\ u.h2Leases = 0 /\ u.h1Leases = 0 /\ u.h3Leases = 0
        /\ ~u.keepAlive /\ ~u.closing /\ ~u.inUse /\ u.connected = s.connected
        /\ u.key = s.key /\ u.h3Max = s.h3Max /\ u.adopted = s.adopted
    BY <1>h, <1>3, <1>4, <1>5, <1>7 DEF HeldOK
  <2>1. SlotOK(u) /\ Bound(s) = 1
    BY <1>1, <1>5, <1>7, <2>0 DEF SlotOK, Leases
  <2>2. Released(p, Update(p, i, u), i)
    BY <1>3, <1>4, <2>1, ReleasedUpdate DEF s
  <2>3. Released(p, Detach(p, i), i)
    BY <1>h, <2>1, ReleasedDetach DEF s, HeldOK
  <2> QED
    BY <1>2, <1>3, <1>7, <2>2, <2>3
<1> QED
  BY <1>6, <1>7

\* ConnectionPoolRelease of a pipeline lease.
LEMMA ReleaseHttp1PipelineOK ==
    ASSUME NEW p, PoolOK(p), NEW i \in Slots, HeldOK(p.slots[i]), NEW reusable \in BOOLEAN,
           p.slots[i].h1Leases # 0
    PROVE  Released(p, ReleaseHttp1Pipeline(p, i, reusable), i)
<1> DEFINE s == p.slots[i]
           n == s.h1Leases - 1
           b == s.closeWhenIdle \/ ~reusable
           c == s.broken \/ ~reusable
           t == [s EXCEPT !.h1Leases = n, !.closeWhenIdle = b, !.broken = c]
           u == [t EXCEPT !.sendSeq = 1, !.recvSeq = 1, !.broken = FALSE,
                          !.inUse = FALSE, !.expired = FALSE]
<1>1. s \in SlotRecords /\ SlotOK(s) /\ n \in Nat /\ b \in BOOLEAN /\ c \in BOOLEAN
  BY SlotTypes DEF SlotRecords
<1>2. ReleaseHttp1Pipeline(p, i, reusable) =
          IF t.h1Leases # 0 THEN Update(p, i, t)
          ELSE IF t.closeWhenIdle \/ t.buffered THEN Detach(p, i) ELSE Update(p, i, u)
  BY DEF ReleaseHttp1Pipeline
<1>h. HeldOK(s) /\ s.h1Leases # 0 /\ s.h1Leases \in Nat /\ n = s.h1Leases - 1
  BY SlotTypes DEF SlotRecords
<1> HIDE DEF s, n, b, c
<1>3. /\ t \in SlotRecords /\ t.key = s.key /\ t.kind = s.kind /\ t.inUse = s.inUse
      /\ t.connected = s.connected /\ t.h2Leases = s.h2Leases /\ t.h1Leases = n
      /\ t.h3Leases = s.h3Leases /\ t.h3Max = s.h3Max /\ t.keepAlive = s.keepAlive
      /\ t.adopted = s.adopted /\ t.active = s.active /\ t.closing = s.closing
  BY <1>1 DEF SlotRecords
<1> HIDE DEF t
<1>4. /\ u \in SlotRecords /\ u.key = t.key /\ u.kind = t.kind /\ ~u.inUse
      /\ u.connected = t.connected /\ u.h2Leases = t.h2Leases /\ u.h1Leases = t.h1Leases
      /\ u.h3Leases = t.h3Leases /\ u.h3Max = t.h3Max /\ u.keepAlive = t.keepAlive
      /\ u.adopted = t.adopted /\ u.active = t.active /\ u.closing = t.closing
  BY <1>3 DEF SlotRecords
<1> HIDE DEF u
<1>5. s.kind = "Tcp" /\ s.h2Leases = 0 /\ s.h3Leases = 0 /\ Bound(s) = n + 1
  BY <1>1, <1>h DEF SlotOK, Bound, Leases
<1>6. CASE n # 0
  <2>1. SlotOK(t) /\ HeldOK(t) /\ Bound(t) = n
    BY <1>1, <1>h, <1>3, <1>5, <1>6 DEF SlotOK, HeldOK, Bound, Leases
  <2>2. Released(p, Update(p, i, t), i)
    BY <1>1, <1>3, <1>5, <2>1, ReleasedUpdate DEF s
  <2> QED
    BY <1>2, <1>3, <1>6, <2>2
<1>7. CASE n = 0
  <2>0. /\ u.kind = "Tcp" /\ u.h2Leases = 0 /\ u.h1Leases = 0 /\ u.h3Leases = 0
        /\ ~u.keepAlive /\ ~u.closing /\ ~u.inUse /\ u.connected = s.connected
        /\ u.key = s.key /\ u.h3Max = s.h3Max /\ u.adopted = s.adopted
    BY <1>h, <1>3, <1>4, <1>5, <1>7 DEF HeldOK
  <2>1. SlotOK(u) /\ Bound(s) = 1
    BY <1>1, <1>5, <1>7, <2>0 DEF SlotOK, Leases
  <2>2. Released(p, Update(p, i, u), i)
    BY <1>3, <1>4, <2>1, ReleasedUpdate DEF s
  <2>3. Released(p, Detach(p, i), i)
    BY <1>h, <2>1, ReleasedDetach DEF s, HeldOK
  <2> QED
    BY <1>2, <1>3, <1>7, <2>2, <2>3
<1> QED
  BY <1>6, <1>7

\* ConnectionPoolRelease of an exclusive connection.
LEMMA ReleaseExclusiveOK ==
    ASSUME NEW p, PoolOK(p), NEW i \in Slots, HeldOK(p.slots[i]), NEW reusable \in BOOLEAN,
           p.slots[i].kind = "Tcp", p.slots[i].h2Leases = 0, p.slots[i].h1Leases = 0
    PROVE  Released(p, ReleaseExclusive(p, i, reusable), i)
<1> DEFINE s == p.slots[i]
           u == [s EXCEPT !.inUse = FALSE, !.expired = FALSE]
<1>1. s \in SlotRecords /\ SlotOK(s)
  BY SlotTypes
<1>2. ReleaseExclusive(p, i, reusable) = IF reusable THEN Update(p, i, u) ELSE Detach(p, i)
  BY DEF ReleaseExclusive
<1>h. HeldOK(s) /\ s.kind = "Tcp" /\ s.h2Leases = 0 /\ s.h1Leases = 0
  OBVIOUS
<1> HIDE DEF s
<1>4. /\ u \in SlotRecords /\ u.key = s.key /\ u.kind = s.kind /\ ~u.inUse
      /\ u.connected = s.connected /\ u.h2Leases = s.h2Leases /\ u.h1Leases = s.h1Leases
      /\ u.h3Leases = s.h3Leases /\ u.h3Max = s.h3Max /\ u.keepAlive = s.keepAlive
      /\ u.adopted = s.adopted /\ u.active = s.active /\ u.closing = s.closing
  BY <1>1 DEF SlotRecords
<1> HIDE DEF u
<1>5. SlotOK(u) /\ Bound(s) = 1
  BY <1>1, <1>h, <1>4 DEF SlotOK, HeldOK, Bound, Leases
<1>6. Released(p, Update(p, i, u), i)
  BY <1>4, <1>5, ReleasedUpdate DEF s
<1>7. Released(p, Detach(p, i), i)
  BY <1>h, <1>5, ReleasedDetach DEF s, HeldOK
<1> QED
  BY <1>2, <1>6, <1>7

\* ConnectionPoolReleaseHttp3StreamLease, with the close it may begin.
LEMMA ReleaseHttp3OK ==
    ASSUME NEW p, PoolOK(p), NEW i \in Slots, HeldOK(p.slots[i]), NEW reusable \in BOOLEAN,
           p.slots[i].kind = "Quic"
    PROVE  Released(p, ReleaseHttp3(p, i, reusable), i)
<1> DEFINE s == p.slots[i]
           n == IF s.h3Leases = 0 THEN 0 ELSE s.h3Leases - 1
           a == n # 0
           b == s.closeWhenIdle \/ ~reusable
           t == [s EXCEPT !.h3Leases = n, !.active = a, !.closeWhenIdle = b]
           u == [t EXCEPT !.inUse = FALSE, !.expired = FALSE]
           d == Update(p, i, t)
<1>1. /\ p \in PoolRecords /\ s \in SlotRecords /\ SlotOK(s) /\ n \in Nat
      /\ a \in BOOLEAN /\ b \in BOOLEAN
  BY SlotTypes DEF SlotRecords
<1>2. ReleaseHttp3(p, i, reusable) =
          IF n # 0 THEN d
          ELSE IF t.closeWhenIdle \/ t.unusable THEN TryBeginClose(d, i)
          ELSE Update(p, i, u)
  BY DEF ReleaseHttp3
<1>h. /\ HeldOK(s) /\ s.kind = "Quic" /\ s.h3Leases \in Nat
      /\ IF s.h3Leases = 0 THEN n = 0 ELSE n = s.h3Leases - 1
  BY SlotTypes DEF SlotRecords
<1>a. a <=> n # 0
  OBVIOUS
<1> HIDE DEF s, n, b, a
<1>3. /\ t \in SlotRecords /\ t.key = s.key /\ t.kind = s.kind /\ t.inUse = s.inUse
      /\ t.connected = s.connected /\ t.h2Leases = s.h2Leases /\ t.h1Leases = s.h1Leases
      /\ t.h3Leases = n /\ t.h3Max = s.h3Max /\ t.keepAlive = s.keepAlive
      /\ t.adopted = s.adopted /\ t.active = a /\ t.closing = s.closing
      /\ t.closeWhenIdle = b /\ t.unusable = s.unusable
  BY <1>1 DEF SlotRecords
<1> HIDE DEF t
<1>4. /\ u \in SlotRecords /\ u.key = t.key /\ u.kind = t.kind /\ ~u.inUse
      /\ u.connected = t.connected /\ u.h2Leases = t.h2Leases /\ u.h1Leases = t.h1Leases
      /\ u.h3Leases = t.h3Leases /\ u.h3Max = t.h3Max /\ u.keepAlive = t.keepAlive
      /\ u.adopted = t.adopted /\ u.active = t.active /\ u.closing = t.closing
  BY <1>3 DEF SlotRecords
<1> HIDE DEF u
<1>5. /\ s.h2Leases = 0 /\ s.h1Leases = 0 /\ ~s.keepAlive /\ ~s.closing /\ s.inUse /\ s.connected
      /\ Bound(s) = IF n = 0 THEN 1 ELSE n + 1
  BY <1>1, <1>h DEF SlotOK, Bound, Leases, HeldOK
<1>6. CASE n # 0
  <2>0. Leases(t) = n
    BY <1>1, <1>3, <1>5 DEF Leases
  <2>1. SlotOK(t) /\ HeldOK(t) /\ Bound(t) = n
    BY <1>1, <1>h, <1>a, <1>3, <1>5, <1>6, <2>0 DEF SlotOK, HeldOK, Bound
  <2>b. Bound(s) <= Bound(t) + 1
    BY <1>1, <1>5, <1>6, <2>1
  <2>2. Released(p, d, i)
    BY <1>3, <2>1, <2>b, ReleasedUpdate DEF s
  <2> QED
    BY <1>2, <1>6, <2>2
<1>7. CASE n = 0 /\ (t.closeWhenIdle \/ t.unusable)
  <2>0. Leases(t) = 0
    BY <1>3, <1>5, <1>7 DEF Leases
  <2>1. SlotOK(t)
    BY <1>1, <1>h, <1>3, <1>5, <1>7, <2>0 DEF SlotOK
  <2>2. Released(p, d, i)
    BY <1>3, <1>5, <1>7, <2>1, ReleasedUpdate DEF s
  <2>3. PoolOK(d) /\ d.slots[i] = t
    BY <1>1, <1>3, <2>2, UpdateFields DEF Released
  <2> HIDE DEF d
  <2>4. CASE CanBeginClose(d.slots[i])
    <3>1. /\ PoolOK(BeginClose(d, i)) /\ BeginClose(d, i).slots[i] = Shut(t)
          /\ \A j \in Slots : j # i => BeginClose(d, i).slots[j] = d.slots[j]
      BY <2>3, <2>4, BeginCloseOK
    <3>2. Shut(t).adopted = s.adopted
      BY <1>h, <1>3, <2>1, ShutOK
    <3>3. Released(p, BeginClose(d, i), i)
      BY <1>5, <1>7, <2>2, <3>1, <3>2 DEF Released, s
    <3> QED
      BY <1>2, <1>7, <2>4, <3>3 DEF TryBeginClose
  <2>5. CASE ~CanBeginClose(d.slots[i])
    BY <1>2, <1>7, <2>2, <2>5 DEF TryBeginClose
  <2> QED
    BY <2>4, <2>5
<1>8. CASE n = 0 /\ ~(t.closeWhenIdle \/ t.unusable)
  <2>0. Leases(u) = 0
    BY <1>3, <1>4, <1>5, <1>8 DEF Leases
  <2>1. SlotOK(u)
    BY <1>1, <1>h, <1>3, <1>4, <1>5, <1>8, <2>0 DEF SlotOK
  <2>2. Released(p, Update(p, i, u), i)
    BY <1>3, <1>4, <1>5, <1>8, <2>1, ReleasedUpdate DEF s
  <2> QED
    BY <1>2, <1>8, <2>2
<1> QED
  BY <1>6, <1>7, <1>8

\* ConnectionPoolRelease detaches or closes a connection only under its last holder.
LEMMA ReleaseOK ==
    ASSUME NEW p, PoolOK(p), NEW i \in Slots, HeldOK(p.slots[i]), NEW reusable \in BOOLEAN
    PROVE  Released(p, Release(p, i, reusable), i)
BY SlotTypes, ReleaseHttp3OK, ReleaseHttp2OK, ReleaseHttp1PipelineOK, ReleaseExclusiveOK DEF SlotOK,
   HeldOK, SlotRecords, Release

\* So does ConnectionPoolClose, which the retry calls on a connection others may share.
LEMMA CloseOK ==
    ASSUME NEW p, PoolOK(p), NEW i \in Slots, HeldOK(p.slots[i]), p.slots[i].kind = "Tcp"
    PROVE  Released(p, Close(p, i), i)
<1> DEFINE s == p.slots[i]
           b == s.broken \/ s.h1Leases # 0
           t == [s EXCEPT !.closeWhenIdle = TRUE, !.broken = b]
<1>1. s \in SlotRecords /\ SlotOK(s) /\ b \in BOOLEAN /\ Bound(s) \in Nat
  BY SlotTypes DEF SlotRecords
<1>2. CASE s.h1Leases # 0 \/ s.h2Leases # 0
  <2>1. Close(p, i) = Update(p, i, t)
    BY <1>2 DEF Close
  <2>h. HeldOK(s)
    OBVIOUS
  <2> HIDE DEF s, b
  <2>2. t \in SlotRecords /\ SameView(s, t)
    BY <1>1 DEF SlotRecords, SameView
  <2> HIDE DEF t
  <2>3. Keeps(p, Update(p, i, t))
    BY <2>2, KeepsView DEF s
  <2>4. SlotOK(t) /\ HeldOK(t) /\ Bound(t) = Bound(s)
    BY <1>1, <2>h, <2>2 DEF SameView, SlotOK, HeldOK, Bound, Leases
  <2>5. Bound(s) <= Bound(t) + 1
    BY <1>1, <2>4
  <2> QED
    BY <2>1, <2>2, <2>4, <2>5, ReleasedUpdate DEF s, SameView
<1>3. CASE ~(s.h1Leases # 0 \/ s.h2Leases # 0)
  BY <1>3, <1>1, ReleasedDetach DEF Close, SlotOK, HeldOK, Bound, Leases
<1> QED
  BY <1>2, <1>3

\* ConnectionPoolAcquireHttp1Pipeline adds one lease to the pipeline it joins.
LEMMA JoinTaken ==
    ASSUME NEW p, PoolOK(p), NEW key, NEW i \in Joinable(p, key)
    PROVE  /\ i \in Slots /\ PoolOK(JoinPipeline(p, i)) /\ Taken(p, JoinPipeline(p, i), i, key)
           /\ p.slots[i].kind = "Tcp" /\ p.slots[i].key \in KeyRecords /\ p.slots[i].key.kind = "Tcp"
           /\ \A j \in Slots : j # i => JoinPipeline(p, i).slots[j] = p.slots[j]
<1> DEFINE s == p.slots[i]
           t == [s EXCEPT !.h1Leases = @ + 1]
<1>0. i \in Slots /\ CanShareHttp1Pipeline(s, key)
  BY DEF Joinable
<1>1. p \in PoolRecords /\ s \in SlotRecords /\ SlotOK(s)
  BY <1>0, SlotTypes
<1>2. JoinPipeline(p, i) = Update(p, i, t)
  BY DEF JoinPipeline
<1> HIDE DEF s
<1>3. /\ t \in SlotRecords /\ t.key = s.key /\ t.kind = s.kind /\ t.inUse = s.inUse
      /\ t.connected = s.connected /\ t.h2Leases = s.h2Leases /\ t.h1Leases = s.h1Leases + 1
      /\ t.h3Leases = s.h3Leases /\ t.h3Max = s.h3Max /\ t.keepAlive = s.keepAlive
      /\ t.adopted = s.adopted /\ t.active = s.active /\ t.closing = s.closing
  BY <1>1 DEF SlotRecords
<1>4. /\ s.kind = "Tcp" /\ s.connected /\ s.inUse /\ ExceptAlpn(s.key) = ExceptAlpn(key)
      /\ s.h1Leases \in Nat \ {0} /\ s.h2Leases = 0 /\ s.h3Leases = 0 /\ ~s.closing
      /\ s.key \in KeyRecords /\ s.key.kind = "Tcp"
  BY <1>0, <1>1, ServesSameKey, PoolAssumption DEF CanShareHttp1Pipeline, SlotRecords, SlotOK
<1> HIDE DEF t
<1>5. Leases(s) = s.h1Leases /\ Leases(t) = s.h1Leases + 1
  BY <1>3, <1>4 DEF Leases
<1>6. SlotOK(t) /\ HeldOK(t) /\ SameQuota(t.key, s.key)
  BY <1>1, <1>3, <1>4, <1>5 DEF SlotOK, HeldOK, SameQuota
<1>7. PoolOK(Update(p, i, t))
  BY <1>0, <1>3, <1>6, UpdateOK DEF s
<1>8. /\ Update(p, i, t).slots[i] = t
      /\ \A j \in Slots : j # i => Update(p, i, t).slots[j] = p.slots[j]
  BY <1>0, <1>1, <1>3, UpdateFields
<1>9. Taken(p, Update(p, i, t), i, key)
  BY <1>3, <1>4, <1>5, <1>6, <1>8 DEF Taken, s
<1> QED
  BY <1>0, <1>2, <1>4, <1>7, <1>8, <1>9 DEF s

\* A slot that nobody can hold may change at will.
LEMMA KeepsChange ==
    ASSUME NEW p, PoolOK(p), NEW q, PoolOK(q), NEW i \in Slots, ~HeldOK(p.slots[i]),
           \A j \in Slots : j # i => q.slots[j] = p.slots[j]
    PROVE  Keeps(p, q)
  BY KeptSelf DEF Keeps

\* ConnectionPoolRunHttp2KeepAliveSweep takes and returns idle connections only.
LEMMA KeepAliveKeeps ==
    ASSUME NEW p, PoolOK(p), NEW i \in Slots
    PROVE  /\ KeepAliveDue(p.slots[i]) => Keeps(p, BeginKeepAlive(p, i))
           /\ p.slots[i].keepAlive => \A alive \in BOOLEAN : Keeps(p, EndKeepAlive(p, i, alive))
<1> DEFINE s == p.slots[i]
           t == [s EXCEPT !.inUse = TRUE, !.keepAlive = TRUE]
           u == [s EXCEPT !.keepAlive = FALSE, !.inUse = FALSE, !.expired = FALSE]
<1>1. p \in PoolRecords /\ s \in SlotRecords /\ SlotOK(s)
  BY SlotTypes
<1>2. /\ BeginKeepAlive(p, i) = Update(p, i, t)
      /\ \A alive \in BOOLEAN : EndKeepAlive(p, i, alive) = IF alive THEN Update(p, i, u) ELSE Detach(p, i)
  BY DEF BeginKeepAlive, EndKeepAlive
<1> HIDE DEF s
<1>3. /\ t \in SlotRecords /\ t.key = s.key /\ t.kind = s.kind /\ t.inUse
      /\ t.connected = s.connected /\ t.h2Leases = s.h2Leases /\ t.h1Leases = s.h1Leases
      /\ t.h3Leases = s.h3Leases /\ t.h3Max = s.h3Max /\ t.keepAlive
      /\ t.adopted = s.adopted /\ t.active = s.active /\ t.closing = s.closing
  BY <1>1 DEF SlotRecords
<1>4. /\ u \in SlotRecords /\ u.key = s.key /\ u.kind = s.kind /\ ~u.inUse
      /\ u.connected = s.connected /\ u.h2Leases = s.h2Leases /\ u.h1Leases = s.h1Leases
      /\ u.h3Leases = s.h3Leases /\ u.h3Max = s.h3Max /\ ~u.keepAlive
      /\ u.adopted = s.adopted /\ u.active = s.active /\ u.closing = s.closing
  BY <1>1 DEF SlotRecords
<1> HIDE DEF t, u
<1>5. SameQuota(t.key, s.key) /\ SameQuota(u.key, s.key)
  BY <1>3, <1>4 DEF SameQuota
<1>6. ASSUME KeepAliveDue(s) PROVE Keeps(p, Update(p, i, t))
  BY <1>6, <1>1, <1>3, <1>5, KeepsUpdate DEF KeepAliveDue, IsIdleTcp, SlotOK, Leases, HeldOK, s
<1>7. ASSUME s.keepAlive PROVE Keeps(p, Update(p, i, u)) /\ Keeps(p, Detach(p, i))
  BY <1>1, <1>7, <1>4, <1>5, KeepsUpdate, DetachOK, DetachFields, KeepsChange DEF SlotOK, HeldOK,
     Leases, s, EmptySlot
<1> QED
  BY <1>2, <1>6, <1>7 DEF s

\* A GOAWAY or a connection error begins the close only without holders.
LEMMA QuicUnusableKeeps ==
    ASSUME NEW p, PoolOK(p), NEW i \in Slots, p.slots[i].kind = "Quic"
    PROVE  Keeps(p, QuicUnusable(p, i))
<1> DEFINE s == p.slots[i]
           t == [s EXCEPT !.unusable = TRUE, !.closeWhenIdle = TRUE]
           d == Update(p, i, t)
<1>1. p \in PoolRecords /\ s \in SlotRecords /\ SlotOK(s)
  BY SlotTypes
<1>2. QuicUnusable(p, i) = IF s.h3Leases = 0 /\ ~s.active THEN TryBeginClose(d, i) ELSE d
  BY DEF QuicUnusable
<1> HIDE DEF s
<1>3. t \in SlotRecords /\ SameView(s, t)
  BY <1>1 DEF SlotRecords, SameView
<1> HIDE DEF t
<1>4. Keeps(p, d)
  BY <1>3, KeepsView DEF s
<1>5. PoolOK(d) /\ d.slots[i] = t
  BY <1>1, <1>3, <1>4, UpdateFields DEF Keeps
<1> HIDE DEF d
<1>6. CASE ~s.active /\ CanBeginClose(d.slots[i])
  BY <1>5, <1>6, BeginCloseOK, <1>3, ShutOK, KeepsChange, <1>4, KeepsTrans, <1>2 DEF SameView,
     HeldOK, s, PoolOK, TryBeginClose
<1> QED
  BY <1>2, <1>4, <1>6 DEF TryBeginClose

\* The end of a close routine empties a slot that nobody holds.
LEMMA CompleteCloseKeeps ==
    ASSUME NEW p, PoolOK(p), NEW i \in p.started
    PROVE  Keeps(p, CompleteQuicClose(p, i))
<1>1. i \in Slots /\ p.slots[i].closing
  BY DEF PoolOK, Closing
<1>2. ~HeldOK(p.slots[i])
  BY <1>1 DEF HeldOK
<1>3. ~CompleteQuicClose(p, i).slots[i].adopted
  BY CompleteQuicCloseOK DEF EmptySlot
<1> QED
  BY <1>1, <1>2, <1>3, CompleteQuicCloseOK, KeepsChange

----------------------------------------
(* The system *)


\* The requests that hold slot i.
Held(rq, i) == {r \in Requests : rq[r].slot = i}

\* Every held slot is fit to be held, is the one asked for and has room for its holders.
Own(p, rq) ==
    \A i \in Slots : Held(rq, i) # {} =>
        /\ HeldOK(p.slots[i])
        /\ \A r \in Held(rq, i) : ExceptAlpn(p.slots[i].key) = ExceptAlpn(rq[r].job.key)
        /\ Cardinality(Held(rq, i)) <= Bound(p.slots[i])

\* A connection in its handshake has not been adopted.
Handshakes(p, rq) ==
    \A r \in Requests : rq[r].phase = "quic_connect" => ~p.slots[rq[r].slot].adopted

\* The phases of a request without a connection.
Unheld == {"idle", "join", "acquire", "reacquire"}

QuicPhases == {"quic_connect", "quic_bind", "quic"}

\* The phases of a request with a TCP connection.
TcpPhases == Phases \ (Unheld \cup QuicPhases \cup {"done"})

\* A request has a slot exactly in the phases that use one, of the kind they use.
ReqOK(q) ==
    /\ q.phase \in Unheld <=> q.slot = 0
    /\ q.phase \in QuicPhases => q.job.key.kind = "Quic"
    /\ q.phase \notin Unheld \cup QuicPhases \cup {"done"} => q.job.key.kind = "Tcp"

\* The inductive invariant.
IInv ==
    /\ PoolOK(pool)
    /\ req \in [Requests -> RequestRecords]
    /\ \A r \in Requests : ReqOK(req[r])
    /\ Own(pool, req) /\ Handshakes(pool, req)
    /\ wire \in [Slots -> Seq(Requests)]
    /\ session \in {"open", "closing", "closed"}

----------------------------------------
(* Who holds what *)

\* The same requests hold the same slots.
SameHolders(rq, rq2) ==
    \A r \in Requests : rq2[r].slot = rq[r].slot /\ rq2[r].job = rq[r].job

\* Sets of holders are finite.
LEMMA HeldType ==
    ASSUME NEW rq, NEW i
    PROVE  IsFiniteSet(Held(rq, i)) /\ Cardinality(Held(rq, i)) \in Nat
<1>1. Held(rq, i) \in SUBSET Requests
  BY DEF Held
<1> QED
  BY <1>1, SendAssumption, FS_Subset, FS_CardinalityType

\* Holders stay owners over a step that keeps their slots.
LEMMA OwnKept ==
    ASSUME NEW p, PoolOK(p), NEW q, PoolOK(q), NEW rq, NEW rq2, Own(p, rq),
           SameHolders(rq, rq2),
           \A j \in Slots : Held(rq, j) # {} => Kept(p.slots[j], q.slots[j])
    PROVE  Own(q, rq2)
<1>1. \A j \in Slots : p.slots[j] \in SlotRecords /\ q.slots[j] \in SlotRecords
  BY DEF PoolOK, PoolRecords
<1>2. \A j \in Slots : Held(rq2, j) = Held(rq, j)
  BY DEF Held, SameHolders
<1> SUFFICES ASSUME NEW i \in Slots, Held(rq, i) # {}
             PROVE  /\ HeldOK(q.slots[i])
                    /\ \A r \in Held(rq, i) : ExceptAlpn(q.slots[i].key) = ExceptAlpn(rq2[r].job.key)
                    /\ Cardinality(Held(rq, i)) <= Bound(q.slots[i])
  BY <1>2 DEF Own
<1>3. Kept(p.slots[i], q.slots[i])
  OBVIOUS
<1>4. /\ \A r \in Held(rq, i) : ExceptAlpn(p.slots[i].key) = ExceptAlpn(rq[r].job.key)
      /\ Cardinality(Held(rq, i)) <= Bound(p.slots[i])
  BY DEF Own
<1>5. Cardinality(Held(rq, i)) <= Bound(q.slots[i])
  BY <1>1, <1>3, <1>4, BoundType, HeldType DEF Kept
<1>6. \A r \in Held(rq, i) : rq2[r].job = rq[r].job
  BY DEF Held, SameHolders
<1> QED
  BY <1>3, <1>4, <1>5, <1>6 DEF Kept

\* A request joins the holders of the slot that an acquire has given it.
LEMMA OwnTake ==
    ASSUME NEW p, PoolOK(p), NEW q, PoolOK(q), NEW rq, Own(p, rq),
           NEW r \in Requests, NEW new, NEW rq2,
           \A x \in Requests : rq2[x] = IF x = r THEN new ELSE rq[x],
           NEW i \in Slots, rq[r].slot = 0, new.slot = i, Taken(p, q, i, new.job.key),
           \A j \in Slots : j # i /\ p.slots[j].inUse => q.slots[j] = p.slots[j]
    PROVE  Own(q, rq2)
<1>1. \A j \in Slots : p.slots[j] \in SlotRecords /\ q.slots[j] \in SlotRecords
  BY DEF PoolOK, PoolRecords
<1>2. Held(rq2, i) = Held(rq, i) \cup {r} /\ r \notin Held(rq, i)
  BY PoolAssumption DEF Held, Slots
<1>3. \A j \in Slots : j # i => Held(rq2, j) = Held(rq, j) /\ r \notin Held(rq, j)
  BY PoolAssumption DEF Held, Slots
<1> SUFFICES ASSUME NEW j \in Slots, Held(rq2, j) # {}
             PROVE  /\ HeldOK(q.slots[j])
                    /\ \A x \in Held(rq2, j) : ExceptAlpn(q.slots[j].key) = ExceptAlpn(rq2[x].job.key)
                    /\ Cardinality(Held(rq2, j)) <= Bound(q.slots[j])
  BY DEF Own
<1>4. CASE j # i
  <2>1. Held(rq2, j) = Held(rq, j) /\ \A x \in Held(rq, j) : rq2[x] = rq[x]
    BY <1>3, <1>4 DEF Held
  <2>2. p.slots[j].inUse
    BY <2>1 DEF Own, HeldOK
  <2>3. q.slots[j] = p.slots[j]
    BY <1>4, <2>2
  <2> QED
    BY <2>1, <2>3 DEF Own
<1>5. CASE j = i
  <2>1. HeldOK(q.slots[i]) /\ ExceptAlpn(q.slots[i].key) = ExceptAlpn(new.job.key)
    BY DEF Taken
  <2>f. IsFiniteSet(Held(rq, i))
    BY HeldType
  <2>2. Cardinality(Held(rq2, i)) = Cardinality(Held(rq, i)) + 1
    <3>1. Cardinality(Held(rq, i) \cup {r}) = Cardinality(Held(rq, i)) + 1
      BY <1>2, <2>f, FS_AddElement, Zenon
    <3> QED
      BY <1>2, <3>1
  <2>3. CASE ~p.slots[i].inUse
    <3>1. Held(rq, i) = {}
      BY <2>3 DEF Own, HeldOK
    <3>2. Cardinality(Held(rq2, i)) = 1
      BY <2>2, <3>1, FS_EmptySet
    <3>3. \A x \in Held(rq2, i) : rq2[x] = new
      BY <1>2, <3>1
    <3> QED
      BY <1>1, <1>5, <2>1, <3>2, <3>3, BoundType
  <2>4. CASE p.slots[i].inUse
    <3>1. /\ Leases(p.slots[i]) # 0 /\ Leases(q.slots[i]) = Leases(p.slots[i]) + 1
          /\ q.slots[i].key = p.slots[i].key
      BY <2>4 DEF Taken
    <3>2. Bound(p.slots[i]) = Leases(p.slots[i]) /\ Bound(q.slots[i]) = Bound(p.slots[i]) + 1
      BY <1>1, <3>1, BoundType DEF Bound
    <3>3. Cardinality(Held(rq, i)) <= Bound(p.slots[i])
      <4>1. CASE Held(rq, i) = {}
        BY <1>1, <4>1, FS_EmptySet, BoundType
      <4>2. CASE Held(rq, i) # {}
        BY <4>2 DEF Own
      <4> QED
        BY <4>1, <4>2
    <3>4. Cardinality(Held(rq2, i)) <= Bound(q.slots[i])
      BY <1>1, <2>2, <3>2, <3>3, HeldType, BoundType
    <3>5. \A x \in Held(rq2, i) : ExceptAlpn(q.slots[i].key) = ExceptAlpn(rq2[x].job.key)
      <4> TAKE x \in Held(rq2, i)
      <4>1. CASE x = r
        BY <2>1, <4>1
      <4>2. CASE x # r
        <5>1. x \in Held(rq, i) /\ rq2[x] = rq[x]
          BY <1>2, <4>2 DEF Held
        <5> QED
          BY <3>1, <5>1 DEF Own
      <4> QED
        BY <4>1, <4>2
    <3> QED
      BY <1>5, <2>1, <3>4, <3>5
  <2> QED
    BY <2>3, <2>4
<1> QED
  BY <1>4, <1>5

\* A request leaves the holders of its slot; the others keep theirs.
LEMMA OwnDrop ==
    ASSUME NEW p, PoolOK(p), NEW q, NEW rq, Own(p, rq),
           NEW r \in Requests, NEW new, NEW rq2,
           \A x \in Requests : rq2[x] = IF x = r THEN new ELSE rq[x],
           NEW i \in Slots, rq[r].slot = i, new.slot = 0, Released(p, q, i)
    PROVE  Own(q, rq2)
<1>1. \A j \in Slots : p.slots[j] \in SlotRecords /\ q.slots[j] \in SlotRecords
  BY DEF PoolOK, PoolRecords, Released
<1>2. Held(rq2, i) = Held(rq, i) \ {r} /\ r \in Held(rq, i)
  BY PoolAssumption DEF Held, Slots
<1>3. \A j \in Slots : j # i => Held(rq2, j) = Held(rq, j) /\ r \notin Held(rq, j)
  BY PoolAssumption DEF Held, Slots
<1> SUFFICES ASSUME NEW j \in Slots, Held(rq2, j) # {}
             PROVE  /\ HeldOK(q.slots[j])
                    /\ \A x \in Held(rq2, j) : ExceptAlpn(q.slots[j].key) = ExceptAlpn(rq2[x].job.key)
                    /\ Cardinality(Held(rq2, j)) <= Bound(q.slots[j])
  BY DEF Own
<1>4. CASE j # i
  <2>1. Held(rq2, j) = Held(rq, j) /\ \A x \in Held(rq, j) : rq2[x] = rq[x]
    BY <1>3, <1>4 DEF Held
  <2>2. q.slots[j] = p.slots[j]
    BY <1>4 DEF Released
  <2> QED
    BY <2>1, <2>2 DEF Own
<1>5. CASE j = i
  <2>f. IsFiniteSet(Held(rq, i))
    BY HeldType
  <2>1. Cardinality(Held(rq2, i)) = Cardinality(Held(rq, i)) - 1
    BY <1>2, <2>f, FS_RemoveElement
  <2>2. Cardinality(Held(rq, i)) <= Bound(p.slots[i])
    BY <1>2 DEF Own
  <2>3. Bound(p.slots[i]) # 1
    <3> SUFFICES ASSUME Bound(p.slots[i]) = 1 PROVE FALSE
      OBVIOUS
    <3>1. Cardinality(Held(rq2, i)) = 0
      BY <2>1, <2>2, HeldType
    <3> QED
      BY <1>5, <3>1, HeldType, FS_EmptySet
  <2>4. HeldOK(q.slots[i]) /\ q.slots[i].key = p.slots[i].key /\ Bound(p.slots[i]) <= Bound(q.slots[i]) + 1
    BY <2>3 DEF Released
  <2>5. Cardinality(Held(rq2, i)) <= Bound(q.slots[i])
    BY <1>1, <2>1, <2>2, <2>4, HeldType, BoundType
  <2>6. \A x \in Held(rq2, i) : x \in Held(rq, i) /\ rq2[x] = rq[x]
    BY <1>2 DEF Held
  <2> QED
    BY <1>5, <2>4, <2>5, <2>6 DEF Own
<1> QED
  BY <1>4, <1>5

----------------------------------------
(* The four kinds of step *)

\* The types of the variables the invariant says nothing else of.
TypedRest == wire \in [Slots -> Seq(Requests)] /\ session \in {"open", "closing", "closed"}

\* Jobs ask for keys of Keys.
LEMMA JobKeys ==
    ASSUME NEW q \in RequestRecords
    PROVE  q.job \in Jobs /\ q.job.key \in Keys /\ q.job.key \in KeyRecords
BY SendAssumption, PoolAssumption DEF RequestRecords, JobRecords

\* Keys that differ in the negotiated protocol only are of one kind.
LEMMA SameKind ==
    ASSUME NEW k \in KeyRecords, NEW l \in KeyRecords, ExceptAlpn(k) = ExceptAlpn(l)
    PROVE  k.kind = l.kind
BY DEF ExceptAlpn, KeyRecords

\* What a request knows of the connection it holds.
LEMMA HolderFacts ==
    ASSUME IInv, NEW r \in Requests, req[r].phase \notin Unheld
    PROVE  /\ req[r] \in RequestRecords /\ ReqOK(req[r]) /\ PoolOK(pool)
           /\ req[r].slot \in Slots /\ HeldOK(Conn(r)) /\ Conn(r).kind = req[r].job.key.kind
<1>1. req[r] \in RequestRecords /\ ReqOK(req[r]) /\ PoolOK(pool) /\ Own(pool, req)
  BY DEF IInv
<1>2. req[r].slot \in Slots
  BY <1>1, PoolAssumption DEF ReqOK, RequestRecords, Slots
<1>3. r \in Held(req, req[r].slot)
  BY DEF Held
<1>4. HeldOK(Conn(r)) /\ ExceptAlpn(Conn(r).key) = ExceptAlpn(req[r].job.key)
  BY <1>1, <1>2, <1>3 DEF Own, Conn
<1>5. SlotOK(Conn(r)) /\ Conn(r).connected
  BY <1>1, <1>2, <1>4, SlotTypes DEF Conn, SlotOK, HeldOK
<1>6. Conn(r).key \in KeyRecords /\ Conn(r).key.kind = Conn(r).kind
  BY <1>5 DEF SlotOK
<1> QED
  BY <1>1, <1>2, <1>4, <1>6, JobKeys, SameKind

\* The next record of a request that stays with its connection.
Stays(q, n) ==
    /\ n \in RequestRecords /\ ReqOK(n)
    /\ n.slot = q.slot /\ n.job = q.job /\ n.phase # "quic_connect"

\* Ownership and handshakes over a step that takes nothing from anyone.
LEMMA OwnSame ==
    ASSUME NEW p, PoolOK(p), NEW q, Keeps(p, q), NEW rq, NEW rq2, Own(p, rq), Handshakes(p, rq),
           SameHolders(rq, rq2),
           \A r \in Requests : rq2[r].phase = "quic_connect" =>
                rq[r].phase = "quic_connect" /\ rq[r].slot \in Slots
    PROVE  Own(q, rq2) /\ Handshakes(q, rq2)
<1>1. \A j \in Slots : Held(rq, j) # {} => Kept(p.slots[j], q.slots[j])
  BY DEF Own, Keeps
<1>2. Own(q, rq2)
  BY <1>1, OwnKept DEF Keeps
<1>3. Handshakes(q, rq2)
  <2> SUFFICES ASSUME NEW r \in Requests, rq2[r].phase = "quic_connect"
               PROVE  ~q.slots[rq2[r].slot].adopted
    BY DEF Handshakes
  <2>1. rq[r].slot \in Slots /\ rq2[r].slot = rq[r].slot /\ ~p.slots[rq[r].slot].adopted
    BY DEF Handshakes, SameHolders
  <2>2. r \in Held(rq, rq[r].slot)
    BY DEF Held
  <2> QED
    BY <2>1, <2>2 DEF Own, Keeps
<1> QED
  BY <1>2, <1>3

\* A request goes on with the connection it has.
LEMMA StayStep ==
    ASSUME IInv, NEW r \in Requests, NEW n, Stays(req[r], n), req' = [req EXCEPT ![r] = n],
           Keeps(pool, pool'), TypedRest'
    PROVE  IInv'
<1>1. /\ PoolOK(pool) /\ Own(pool, req) /\ Handshakes(pool, req)
      /\ req \in [Requests -> RequestRecords] /\ \A x \in Requests : ReqOK(req[x])
  BY DEF IInv
<1>2. /\ req' \in [Requests -> RequestRecords]
      /\ \A x \in Requests : req'[x] = IF x = r THEN n ELSE req[x]
  BY <1>1 DEF Stays
<1>3. SameHolders(req, req')
  BY <1>2 DEF SameHolders, Stays
<1>4. \A x \in Requests : req'[x].phase = "quic_connect" =>
                req[x].phase = "quic_connect" /\ req[x].slot \in Slots
  <2> TAKE x \in Requests
  <2> HAVE req'[x].phase = "quic_connect"
  <2>1. req[x].phase = "quic_connect"
    BY <1>2 DEF Stays
  <2> QED
    BY <2>1, HolderFacts DEF Unheld
<1>5. Own(pool', req') /\ Handshakes(pool', req')
  BY <1>1, <1>3, <1>4, OwnSame
<1>6. \A x \in Requests : ReqOK(req'[x])
  BY <1>1, <1>2 DEF Stays
<1>7. PoolOK(pool')
  BY DEF Keeps
<1> QED
  BY <1>2, <1>5, <1>6, <1>7 DEF IInv, TypedRest

\* A step of the pool's other actors.
LEMMA QuietStep ==
    ASSUME IInv, UNCHANGED req, Keeps(pool, pool'), TypedRest'
    PROVE  IInv'
BY HolderFacts, OwnSame DEF IInv, SameHolders, Unheld, TypedRest, Keeps

\* A request lets go of its connection.
LEMMA DropStep ==
    ASSUME IInv, NEW r \in Requests, req[r].phase \notin Unheld,
           NEW n \in RequestRecords, ReqOK(n), n.slot = 0, req' = [req EXCEPT ![r] = n],
           Released(pool, pool', req[r].slot), TypedRest'
    PROVE  IInv'
<1>1. /\ PoolOK(pool) /\ Own(pool, req) /\ Handshakes(pool, req)
      /\ req \in [Requests -> RequestRecords] /\ \A x \in Requests : ReqOK(req[x])
  BY DEF IInv
<1>2. /\ req' \in [Requests -> RequestRecords]
      /\ \A x \in Requests : req'[x] = IF x = r THEN n ELSE req[x]
  BY <1>1
<1>3. req[r].slot \in Slots
  BY HolderFacts
<1>4. Own(pool', req')
  BY <1>1, <1>2, <1>3, OwnDrop
<1>5. Handshakes(pool', req')
  <2> SUFFICES ASSUME NEW x \in Requests, req'[x].phase = "quic_connect"
               PROVE  ~pool'.slots[req'[x].slot].adopted
    BY DEF Handshakes
  <2>1. x # r /\ req'[x] = req[x]
    BY <1>2 DEF ReqOK, Unheld
  <2>2. req[x].slot \in Slots /\ ~pool.slots[req[x].slot].adopted
    BY <1>1, <2>1, HolderFacts DEF Handshakes, Unheld
  <2> QED
    BY <2>1, <2>2 DEF Released
<1>6. \A x \in Requests : ReqOK(req'[x])
  BY <1>1, <1>2
<1> QED
  BY <1>2, <1>4, <1>5, <1>6 DEF IInv, TypedRest, Released

\* A request gets a connection.
LEMMA TakeStep ==
    ASSUME IInv, NEW r \in Requests, req[r].slot = 0,
           NEW n \in RequestRecords, ReqOK(n), req' = [req EXCEPT ![r] = n],
           n.slot \in Slots, PoolOK(pool'), Taken(pool, pool', n.slot, n.job.key),
           n.phase = "quic_connect" => ~pool'.slots[n.slot].adopted,
           \A j \in Slots : j # n.slot /\ pool.slots[j].inUse => pool'.slots[j] = pool.slots[j],
           TypedRest'
    PROVE  IInv'
<1>1. /\ PoolOK(pool) /\ Own(pool, req) /\ Handshakes(pool, req)
      /\ req \in [Requests -> RequestRecords] /\ \A x \in Requests : ReqOK(req[x])
  BY DEF IInv
<1>2. /\ req' \in [Requests -> RequestRecords]
      /\ \A x \in Requests : req'[x] = IF x = r THEN n ELSE req[x]
  BY <1>1
<1>4. Own(pool', req')
  <2> DEFINE p == pool
             q == pool'
             rq == req
             rq2 == req'
             i == n.slot
  <2>1. /\ PoolOK(p) /\ PoolOK(q) /\ Own(p, rq) /\ rq[r].slot = 0
        /\ i \in Slots /\ n.slot = i /\ Taken(p, q, i, n.job.key)
    BY <1>1
  <2>2. \A x \in Requests : rq2[x] = IF x = r THEN n ELSE rq[x]
    BY <1>2
  <2>3. \A j \in Slots : j # i /\ p.slots[j].inUse => q.slots[j] = p.slots[j]
    OBVIOUS
  <2> HIDE DEF p, q, rq, rq2, i
  <2>4. Own(q, rq2)
    BY <2>1, <2>2, <2>3, OwnTake
  <2> QED
    BY <2>4 DEF q, rq2
<1>5. Handshakes(pool', req')
  <2> SUFFICES ASSUME NEW x \in Requests, req'[x].phase = "quic_connect", x # r
               PROVE  ~pool'.slots[req'[x].slot].adopted
    BY <1>2 DEF Handshakes
  <2>1. req'[x] = req[x]
    BY <1>2
  <2>2. /\ req[x].slot \in Slots /\ ~pool.slots[req[x].slot].adopted
        /\ pool.slots[req[x].slot].inUse
    BY <1>1, <2>1, HolderFacts DEF Handshakes, Unheld, HeldOK, Conn
  <2> QED
    BY <2>1, <2>2 DEF Taken
<1>6. \A x \in Requests : ReqOK(req'[x])
  BY <1>1, <1>2
<1> QED
  BY <1>2, <1>4, <1>5, <1>6 DEF IInv, TypedRest

----------------------------------------
(* The next state of a request *)

\* The other variables do not change.
LEMMA RestSame == ASSUME IInv, UNCHANGED <<wire, session>> PROVE TypedRest'
  BY DEF IInv, TypedRest

\* The bytes of connections that are gone are dropped.
LEMMA RestKeepWire == ASSUME IInv, NEW p, KeepWire(p), UNCHANGED session PROVE TypedRest'
BY DEF IInv, KeepWire, TypedRest

\* A change of phase keeps the record legal.
LEMMA GotoStays ==
    ASSUME NEW q \in RequestRecords, ReqOK(q), q.phase \notin Unheld, NEW x \in Phases,
           \/ x \in TcpPhases /\ q.job.key.kind = "Tcp"
           \/ x \in {"quic_bind", "quic"} /\ q.job.key.kind = "Quic"
    PROVE  Stays(q, [q EXCEPT !.phase = x])
<1> DEFINE n == [q EXCEPT !.phase = x]
<1>1. n \in RequestRecords /\ n.phase = x /\ n.slot = q.slot /\ n.job = q.job
  BY DEF RequestRecords
<1> HIDE DEF n
<1>2. x \notin Unheld /\ x # "quic_connect" /\ q.slot # 0
  BY DEF ReqOK, TcpPhases, QuicPhases, Unheld
<1>3. ReqOK(n)
  BY <1>1, <1>2 DEF ReqOK, TcpPhases, QuicPhases
<1> QED
  BY <1>1, <1>2, <1>3 DEF Stays, n

\* So does the end of SendViaTransport.
LEMMA DoneStays ==
    ASSUME NEW q \in RequestRecords, ReqOK(q), q.phase \notin Unheld, NEW st \in Statuses
    PROVE  Stays(q, [q EXCEPT !.phase = "done", !.status = st])
<1> DEFINE n == [q EXCEPT !.phase = "done", !.status = st]
<1>1. n \in RequestRecords /\ n.phase = "done" /\ n.slot = q.slot /\ n.job = q.job
  BY DEF RequestRecords, Phases
<1> HIDE DEF n
<1>2. ReqOK(n)
  BY <1>1 DEF ReqOK, QuicPhases, Unheld
<1> QED
  BY <1>1, <1>2 DEF Stays, n

\* And the return to the caller.
LEMMA NoRequestOK ==
    ASSUME NEW job \in Jobs
    PROVE  NoRequest(job) \in RequestRecords /\ ReqOK(NoRequest(job)) /\ NoRequest(job).slot = 0
  BY PoolAssumption DEF NoRequest, RequestRecords, ReqOK, Unheld, QuicPhases, Phases, Statuses

\* A request goes on with its connection.
LEMMA GotoStep ==
    ASSUME IInv, NEW r \in Requests, req[r].phase \notin Unheld, NEW x \in Phases, Goto(r, x),
           \/ x \in TcpPhases /\ req[r].job.key.kind = "Tcp"
           \/ x \in {"quic_bind", "quic"} /\ req[r].job.key.kind = "Quic",
           Keeps(pool, pool'), TypedRest'
    PROVE  IInv'
BY HolderFacts, GotoStays, StayStep DEF Goto, Become

\* SendViaTransport returns, the connection still in the request's hands.
LEMMA DoneStep ==
    ASSUME IInv, NEW r \in Requests, req[r].phase \notin Unheld, NEW st \in Statuses, Done(r, st),
           Keeps(pool, pool'), TypedRest'
    PROVE  IInv'
BY HolderFacts, DoneStays, StayStep DEF Done, Become

\* A pool left alone.
LEMMA KeepsSame == ASSUME IInv, UNCHANGED pool PROVE Keeps(pool, pool')
<1>1. Keeps(pool, pool)
  BY KeepsSelf DEF IInv
<1> QED
  BY <1>1

\* What a request in a phase of a TCP connection holds.
LEMMA TcpHolder ==
    ASSUME IInv, NEW r \in Requests, req[r].phase \in TcpPhases
    PROVE  /\ req[r].phase \notin Unheld /\ req[r].job.key.kind = "Tcp" /\ req[r] \in RequestRecords
           /\ ReqOK(req[r]) /\ PoolOK(pool) /\ req[r].slot \in Slots
           /\ HeldOK(pool.slots[req[r].slot]) /\ pool.slots[req[r].slot].kind = "Tcp"
BY HolderFacts DEF TcpPhases, IInv, ReqOK, Conn

\* What a request in a phase of a QUIC connection holds.
LEMMA QuicHolder ==
    ASSUME IInv, NEW r \in Requests, req[r].phase \in QuicPhases
    PROVE  /\ req[r].phase \notin Unheld /\ req[r].job.key.kind = "Quic" /\ req[r] \in RequestRecords
           /\ ReqOK(req[r]) /\ PoolOK(pool) /\ req[r].slot \in Slots
           /\ HeldOK(pool.slots[req[r].slot]) /\ pool.slots[req[r].slot].kind = "Quic"
BY HolderFacts DEF QuicPhases, Unheld, IInv, ReqOK, Conn

----------------------------------------
(* One lemma per action *)

\* A request begins.
LEMMA StartOK ==
    ASSUME IInv, NEW r \in Requests, NEW job \in Jobs, Start(r, job)
    PROVE  IInv'
<1> DEFINE x == IF job.pipeline THEN "join" ELSE "acquire"
           n == [NoRequest(job) EXCEPT !.phase = x]
<1>1. /\ req[r].phase = "idle" /\ req' = [req EXCEPT ![r] = n]
      /\ pool' = pool /\ UNCHANGED <<wire, session>>
  BY DEF Start, At, Become
<1>x. x \in {"join", "acquire"}
  OBVIOUS
<1> HIDE DEF x
<1>2. n \in RequestRecords /\ ReqOK(n) /\ n.slot = 0 /\ n.phase # "quic_connect"
  <2>1. n \in RequestRecords /\ n.slot = 0 /\ n.phase = x
    BY <1>x, NoRequestOK DEF RequestRecords, Phases
  <2> HIDE DEF n
  <2> QED
    BY <1>x, <2>1 DEF ReqOK, Unheld, QuicPhases
<1> HIDE DEF n
<1>3. /\ PoolOK(pool) /\ Own(pool, req) /\ Handshakes(pool, req)
      /\ req \in [Requests -> RequestRecords] /\ \A y \in Requests : ReqOK(req[y])
  BY DEF IInv
<1>4. req[r].slot = 0
  BY <1>1, <1>3 DEF ReqOK, Unheld
<1>5. /\ req' \in [Requests -> RequestRecords]
      /\ \A y \in Requests : req'[y] = IF y = r THEN n ELSE req[y]
  BY <1>1, <1>2, <1>3
<1>6. \A i \in Slots : Held(req', i) = Held(req, i) /\ r \notin Held(req, i)
  BY <1>2, <1>4, <1>5, PoolAssumption DEF Held, Slots
<1>7. Own(pool, req')
  BY <1>3, <1>5, <1>6 DEF Own, Held
<1>8. Handshakes(pool, req')
  BY <1>2, <1>3, <1>5 DEF Handshakes
<1>9. TypedRest'
  BY <1>1, RestSame
<1> QED
  BY <1>1, <1>2, <1>3, <1>5, <1>7, <1>8, <1>9 DEF IInv, TypedRest

\* A request joins a pipeline.
LEMMA JoinOK ==
    ASSUME IInv, NEW r \in Requests, Join(r)
    PROVE  IInv'
<1>0. TypedRest'
  BY RestSame DEF Join
<1>1. /\ PoolOK(pool) /\ Own(pool, req) /\ Handshakes(pool, req)
      /\ req \in [Requests -> RequestRecords] /\ \A x \in Requests : ReqOK(req[x])
      /\ req[r] \in RequestRecords /\ req[r].phase = "join" /\ req[r].slot = 0
  BY DEF IInv, Join, At, ReqOK, Unheld
<1>2. CASE Goto(r, "acquire") /\ UNCHANGED pool
  <2> DEFINE n == [req[r] EXCEPT !.phase = "acquire"]
  <2>1. n \in RequestRecords /\ n.phase = "acquire" /\ n.slot = 0 /\ n.job = req[r].job
    BY <1>1 DEF RequestRecords, Phases
  <2> HIDE DEF n
  <2>2. ReqOK(n)
    BY <2>1 DEF ReqOK, Unheld, QuicPhases
  <2>3. Stays(req[r], n)
    BY <1>1, <2>1, <2>2 DEF Stays
  <2>4. Keeps(pool, pool')
    BY <1>2, KeepsSame
  <2> QED
    BY <1>0, <1>2, <2>3, <2>4, StayStep DEF Goto, Become, n
<1>3. CASE \E i \in Slots :
              /\ IsFirst(i, Joinable(pool, req[r].job.key)) /\ pool' = JoinPipeline(pool, i)
              /\ Become(r, [req[r] EXCEPT !.phase = "open", !.slot = i, !.reused = TRUE])
  <2>1. PICK i \in Slots :
              /\ IsFirst(i, Joinable(pool, req[r].job.key)) /\ pool' = JoinPipeline(pool, i)
              /\ Become(r, [req[r] EXCEPT !.phase = "open", !.slot = i, !.reused = TRUE])
    BY <1>3
  <2>2. i \in Joinable(pool, req[r].job.key)
    BY <2>1 DEF IsFirst
  <2>3. /\ PoolOK(pool') /\ Taken(pool, pool', i, req[r].job.key)
        /\ pool.slots[i].key \in KeyRecords /\ pool.slots[i].key.kind = "Tcp"
        /\ \A j \in Slots : j # i => pool'.slots[j] = pool.slots[j]
    BY <1>1, <2>1, <2>2, JoinTaken
  <2> DEFINE n == [req[r] EXCEPT !.phase = "open", !.slot = i, !.reused = TRUE]
  <2>4. n \in RequestRecords /\ n.phase = "open" /\ n.slot = i /\ n.job = req[r].job
    <3>1. i \in 0..Capacity
      BY PoolAssumption DEF Slots
    <3> QED
      BY <1>1, <3>1 DEF RequestRecords, Phases
  <2>5. req' = [req EXCEPT ![r] = n]
    BY <2>1 DEF Become
  <2> HIDE DEF n
  <2>6. n.job.key.kind = "Tcp"
    BY <2>2, ServesSameKey, <1>1, <2>3, <2>4, JobKeys, SameKind DEF Joinable, CanShareHttp1Pipeline
  <2>7. ReqOK(n)
    BY <2>4, <2>6, PoolAssumption DEF ReqOK, Unheld, QuicPhases, Slots
  <2> QED
    BY <1>0, <1>1, <2>3, <2>4, <2>5, <2>7, TakeStep
<1> QED
  BY <1>2, <1>3 DEF Join

\* A request gets the outcome of an acquire, or returns without a connection.
LEMMA TakeConnectionOK ==
    ASSUME IInv, NEW r \in Requests, req[r].phase \in {"acquire", "reacquire"},
           NEW policy, NEW a \in Acquire(pool, req[r].job.key, policy),
           NEW retried \in BOOLEAN, TakeConnection(r, a, retried)
    PROVE  IInv'
<1>1. /\ PoolOK(pool) /\ req[r] \in RequestRecords /\ req[r].slot = 0
      /\ wire \in [Slots -> Seq(Requests)] /\ session \in {"open", "closing", "closed"}
  BY DEF IInv, ReqOK, Unheld
<1>2. Acquired(pool, a, req[r].job.key) /\ pool' = a[1]
  BY <1>1, JobKeys, AcquireOK DEF TakeConnection
<1>3. TypedRest'
  BY <1>1 DEF TakeConnection, TypedRest
<1>4. CASE a[2] = 0
  <2>1. Keeps(pool, pool')
    BY <1>1, <1>2, <1>4, KeptSelf, PoolAssumption DEF Acquired, Keeps, HeldOK, Slots
  <2> DEFINE n == NoRequest(req[r].job)
  <2>2. n \in RequestRecords /\ ReqOK(n) /\ n.slot = 0 /\ req[r].job \in Jobs
    BY <1>1, JobKeys, NoRequestOK
  <2>3. Stays(req[r], n)
    BY <1>1, <2>2 DEF Stays, NoRequest
  <2>4. req' = [req EXCEPT ![r] = n]
    BY <1>4 DEF TakeConnection, Return, Become
  <2> QED
    BY <1>3, <2>1, <2>3, <2>4, StayStep
<1>5. CASE a[2] # 0
  <2> DEFINE x == PhaseAfterAcquire(req[r].job, a[3])
             n == [req[r] EXCEPT !.phase = x, !.slot = a[2], !.reused = a[3], !.retried = retried]
  <2>1. req' = [req EXCEPT ![r] = n]
    BY <1>5 DEF TakeConnection, Become
  <2>2. /\ x \in {"open", "quic_bind", "quic_connect"}
        /\ x = "open" <=> req[r].job.key.kind = "Tcp"
        /\ x = "quic_connect" => ~a[3]
    BY DEF PhaseAfterAcquire
  <2> HIDE DEF x
  <2>3. a[2] \in Slots /\ a[2] \in 0..Capacity /\ a[3] \in BOOLEAN
    BY <1>2, <1>5 DEF Acquired, Slots
  <2>4. /\ n \in RequestRecords /\ n.phase = x /\ n.slot = a[2] /\ n.job = req[r].job
    BY <1>1, <2>2, <2>3 DEF RequestRecords, Phases
  <2> HIDE DEF n
  <2>5. req[r].job.key.kind \in {"Tcp", "Quic"}
    BY <1>1, JobKeys DEF KeyRecords
  <2>6. ReqOK(n)
    BY <1>5, <2>2, <2>4, <2>5 DEF ReqOK, Unheld, QuicPhases
  <2>7. /\ PoolOK(pool') /\ Taken(pool, pool', n.slot, n.job.key)
        /\ n.phase = "quic_connect" => ~pool'.slots[n.slot].adopted
        /\ \A j \in Slots : j # n.slot /\ pool.slots[j].inUse => pool'.slots[j] = pool.slots[j]
    BY <1>2, <1>5, <2>2, <2>4 DEF Acquired
  <2> QED
    BY <1>1, <1>3, <2>1, <2>3, <2>4, <2>6, <2>7, TakeStep
<1> QED
  BY <1>4, <1>5

\* The first acquire.
LEMMA AcquireConnectionOK ==
    ASSUME IInv, NEW r \in Requests, AcquireConnection(r)
    PROVE  IInv'
  BY TakeConnectionOK DEF AcquireConnection, At

\* The acquire of a retry.
LEMMA RetryAcquireOK ==
    ASSUME IInv, NEW r \in Requests, RetryAcquire(r)
    PROVE  IInv'
  BY TakeConnectionOK DEF RetryAcquire, At

\* EnsureSocketConnected finds a connected socket.
LEMMA OpenExistingOK ==
    ASSUME IInv, NEW r \in Requests, OpenExisting(r)
    PROVE  IInv'
BY TcpHolder, KeepsSame, RestSame, GotoStep DEF OpenExisting, At, TcpPhases, Phases, Unheld,
   QuicPhases

\* EnsureSocketConnected frees a dead transport: the pool's invariant survives, whoever
\* else uses it.
LEMMA CloseTransportResourcesOK ==
    ASSUME IInv, NEW r \in Requests, CloseTransportResources(r)
    PROVE  IInv'
<1> DEFINE i == req[r].slot
           stale(q) == req[q].stale \/ (UsesTransport(q, i) /\ Conn(r).opened)
<1>0. req[r].phase \in TcpPhases
  BY DEF CloseTransportResources, At, TcpPhases, Phases, Unheld, QuicPhases
<1>1. /\ PoolOK(pool) /\ i \in Slots /\ Own(pool, req) /\ Handshakes(pool, req)
      /\ req[r].job.key.kind = "Tcp"
      /\ req \in [Requests -> RequestRecords] /\ \A q \in Requests : ReqOK(req[q])
      /\ wire \in [Slots -> Seq(Requests)] /\ session' \in {"open", "closing", "closed"}
  BY <1>0, TcpHolder DEF IInv, CloseTransportResources
<1>2. /\ pool' = CloseTransport(pool, i) /\ wire' = [wire EXCEPT ![i] = <<>>]
      /\ req' = [q \in Requests |-> IF q = r THEN [req[r] EXCEPT !.phase = "connect"]
                                    ELSE [req[q] EXCEPT !.stale = stale(q)]]
  BY DEF CloseTransportResources
<1>3. Keeps(pool, pool')
  BY <1>1, <1>2, PlainUpdates
<1>4. \A q \in Requests : stale(q) \in BOOLEAN
  BY DEF UsesTransport
<1> HIDE DEF stale
<1>5. \A q \in Requests : /\ req'[q] \in RequestRecords
                          /\ req'[q].slot = req[q].slot /\ req'[q].job = req[q].job
                          /\ req'[q].phase = IF q = r THEN "connect" ELSE req[q].phase
  <2> TAKE q \in Requests
  <2>1. req[q] \in RequestRecords /\ stale(q) \in BOOLEAN
    BY <1>1, <1>4
  <2>2. CASE q = r
    BY <1>2, <2>1, <2>2 DEF RequestRecords, Phases
  <2>3. CASE q # r
    BY <1>2, <2>1, <2>3 DEF RequestRecords
  <2> QED
    BY <2>2, <2>3
<1>6. req' \in [Requests -> RequestRecords]
  BY <1>2, <1>5
<1>7. \A q \in Requests : ReqOK(req'[q])
  <2> TAKE q \in Requests
  <2>1. CASE q = r
    BY <1>1, <1>5, <2>1, PoolAssumption DEF ReqOK, Unheld, QuicPhases, Slots
  <2>2. CASE q # r
    BY <1>1, <1>5, <2>2 DEF ReqOK
  <2> QED
    BY <2>1, <2>2
<1>8. /\ SameHolders(req, req')
      /\ \A q \in Requests : req'[q].phase = "quic_connect" =>
            req[q].phase = "quic_connect" /\ req[q].slot \in Slots
  BY <1>5, HolderFacts DEF SameHolders, Unheld
<1>9. Own(pool', req') /\ Handshakes(pool', req')
  BY <1>1, <1>3, <1>8, OwnSame
<1>10. wire' \in [Slots -> Seq(Requests)]
  BY <1>1, <1>2
<1> QED
  BY <1>1, <1>3, <1>6, <1>7, <1>9, <1>10 DEF IInv, Keeps

\* A socket is connected and TLS agrees on a protocol.
LEMMA ConnectOK ==
    ASSUME IInv, NEW r \in Requests, Connect(r)
    PROVE  IInv'
<1>1. req[r].phase \in TcpPhases /\ "send" \in TcpPhases /\ "send" \in Phases
  BY DEF Connect, At, TcpPhases, Phases, Unheld, QuicPhases
<1>2. /\ PoolOK(pool) /\ req[r].slot \in Slots /\ HeldOK(pool.slots[req[r].slot])
      /\ req[r].phase \notin Unheld /\ req[r].job.key.kind = "Tcp"
  BY <1>1, TcpHolder
<1>3. PICK alpn \in Negotiable(Conn(r).key) : pool' = AdoptSocket(pool, req[r].slot, alpn)
  BY DEF Connect
<1>4. Conn(r).key \in KeyRecords
  BY <1>2, SlotTypes DEF SlotOK, HeldOK, Conn
<1>5. alpn \in Alpns
  BY <1>3, <1>4 DEF Negotiable, KeyRecords
<1>6. Keeps(pool, pool')
  BY <1>2, <1>3, <1>5, AdoptSocketKeeps
<1>7. TypedRest' /\ Goto(r, "send")
  BY RestSame DEF Connect
<1> QED
  BY <1>1, <1>2, <1>6, <1>7, GotoStep

\* SendViaTransport returns without a change to the pool.
LEMMA SettleOK ==
    ASSUME IInv, NEW r \in Requests, req[r].phase \notin Unheld,
           NEW st \in Statuses, Done(r, st), UNCHANGED <<pool, wire, session>>
    PROVE  IInv'
  BY KeepsSame, RestSame, DoneStep

\* The ends of an exchange that do not touch the pool.
LEMMA FailuresOK ==
    ASSUME IInv, NEW r \in Requests,
           ConnectFails(r) \/ SendFails(r) \/ Respond(r) \/ RespondFails(r)
                \/ BindStreamFails(r) \/ QuicRespond(r)
    PROVE  IInv'
<1>1. /\ req[r].phase \in {"connect", "send", "plain", "h2", "quic_bind", "quic"}
      /\ \E st \in {"ok", "close", "lost", "retry", "error"} : Done(r, st)
      /\ UNCHANGED <<pool, wire, session>>
  BY DEF ConnectFails, SendFails, Respond, RespondFails, BindStreamFails, QuicRespond, At
<1>2. PICK st \in {"ok", "close", "lost", "retry", "error"} : Done(r, st)
  BY <1>1
<1> QED
  BY <1>1, <1>2, SettleOK DEF Statuses, Unheld

\* The HTTP/2 lease is taken.
LEMMA SendHttp2OK ==
    ASSUME IInv, NEW r \in Requests, SendHttp2(r)
    PROVE  IInv'
<1> DEFINE i == req[r].slot
<1>1. req[r].phase \in TcpPhases /\ "h2" \in TcpPhases /\ "h2" \in Phases
  BY DEF SendHttp2, At, TcpPhases, Phases, Unheld, QuicPhases
<1>2. /\ PoolOK(pool) /\ i \in Slots /\ HeldOK(pool.slots[i]) /\ pool.slots[i].kind = "Tcp"
      /\ req[r].phase \notin Unheld /\ req[r].job.key.kind = "Tcp"
  BY <1>1, TcpHolder
<1>3. TypedRest'
  BY RestSame DEF SendHttp2
<1>4. Keeps(pool, AdoptHttp2(pool, i))
  BY <1>2, PlainUpdates
<1>5. \/ pool' = AdoptHttp2(pool, i) /\ Goto(r, "h2")
      \/ CanPromote(Conn(r)) /\ pool' = PromoteHttp2(AdoptHttp2(pool, i), i) /\ Goto(r, "h2")
      \/ pool' = AdoptHttp2(pool, i) /\ Done(r, "error")
  BY DEF SendHttp2
<1>6. CASE pool' = AdoptHttp2(pool, i) /\ Goto(r, "h2")
  BY <1>1, <1>2, <1>3, <1>4, <1>6, GotoStep
<1>7. CASE CanPromote(Conn(r)) /\ pool' = PromoteHttp2(AdoptHttp2(pool, i), i) /\ Goto(r, "h2")
  BY <1>2, <1>7, AdoptPromoteKeeps, <1>1, <1>3, GotoStep DEF CanPromote, Conn
<1>8. CASE pool' = AdoptHttp2(pool, i) /\ Done(r, "error")
  BY <1>2, <1>3, <1>4, <1>8, DoneStep DEF Statuses
<1> QED
  BY <1>5, <1>6, <1>7, <1>8

\* A pipelined request, or a bound stream, is marked used.
LEMMA UsedStays ==
    ASSUME NEW q \in RequestRecords, ReqOK(q), q.phase \notin Unheld, NEW x,
           \/ x = "pipe_begin" /\ q.job.key.kind = "Tcp"
           \/ x = "quic" /\ q.job.key.kind = "Quic"
    PROVE  Stays(q, [q EXCEPT !.phase = x, !.used = TRUE])
<1> DEFINE n == [q EXCEPT !.phase = x, !.used = TRUE]
<1>1. n \in RequestRecords /\ n.phase = x /\ n.slot = q.slot /\ n.job = q.job
  BY DEF RequestRecords, Phases
<1> HIDE DEF n
<1>2. ReqOK(n)
  BY <1>1 DEF ReqOK, QuicPhases, Unheld
<1> QED
  BY <1>1, <1>2 DEF Stays, n

\* The pipeline lease is taken.
LEMMA SendPipelinedOK ==
    ASSUME IInv, NEW r \in Requests, SendPipelined(r)
    PROVE  IInv'
<1> DEFINE i == req[r].slot
           n == [req[r] EXCEPT !.phase = "pipe_begin", !.used = TRUE]
<1>1. req[r].phase \in TcpPhases
  BY DEF SendPipelined, At, TcpPhases, Phases, Unheld, QuicPhases
<1>2. /\ PoolOK(pool) /\ i \in Slots /\ HeldOK(pool.slots[i]) /\ pool.slots[i].kind = "Tcp"
      /\ req[r].phase \notin Unheld /\ req[r].job.key.kind = "Tcp"
      /\ req[r] \in RequestRecords /\ ReqOK(req[r])
  BY <1>1, TcpHolder
<1>3. TypedRest'
  BY RestSame DEF SendPipelined
<1>4. Stays(req[r], n)
  BY <1>2, UsedStays
<1>5. \/ pool' = pool /\ Become(r, n)
      \/ CanPromote(Conn(r)) /\ pool' = PromoteHttp1Pipeline(pool, i) /\ Become(r, n)
      \/ pool' = pool /\ Done(r, "error")
  BY DEF SendPipelined
<1> HIDE DEF n
<1>6. CASE pool' = pool /\ Become(r, n)
  BY <1>3, <1>4, <1>6, KeepsSame, StayStep DEF Become
<1>7. CASE CanPromote(Conn(r)) /\ pool' = PromoteHttp1Pipeline(pool, i) /\ Become(r, n)
  BY <1>2, <1>7, PromoteKeeps, <1>3, <1>4, StayStep DEF CanPromote, Conn, Become
<1>8. CASE pool' = pool /\ Done(r, "error")
  BY <1>2, <1>3, <1>8, KeepsSame, DoneStep DEF Statuses
<1> QED
  BY <1>5, <1>6, <1>7, <1>8

\* The request has the connection for itself.
LEMMA SendPlainOK ==
    ASSUME IInv, NEW r \in Requests, SendPlain(r)
    PROVE  IInv'
BY TcpHolder, KeepsSame, RestSame, GotoStep DEF SendPlain, At, TcpPhases, Phases, Unheld, QuicPhases

\* An I/O is cancelled or times out.
LEMMA SocketClosesOK ==
    ASSUME IInv, NEW r \in Requests, SocketCloses(r)
    PROVE  IInv'
BY TcpHolder, PlainUpdates, RestSame, QuietStep DEF SocketCloses, TcpPhases, Phases, Unheld,
   QuicPhases

\* A sequence number is given out.
LEMMA PipelineBeginOK ==
    ASSUME IInv, NEW r \in Requests, PipelineBegin(r)
    PROVE  IInv'
<1> DEFINE i == req[r].slot
           n == [req[r] EXCEPT !.phase = "pipe_sending", !.seq = pool.slots[i].sendSeq]
<1>1. req[r].phase \in TcpPhases
  BY DEF PipelineBegin, At, TcpPhases, Phases, Unheld, QuicPhases
<1>2. /\ PoolOK(pool) /\ i \in Slots /\ HeldOK(pool.slots[i])
      /\ req[r].phase \notin Unheld /\ req[r].job.key.kind = "Tcp"
      /\ req[r] \in RequestRecords /\ ReqOK(req[r])
  BY <1>1, TcpHolder
<1>3. TypedRest'
  BY RestSame DEF PipelineBegin
<1>4. Stays(req[r], n)
  <2>1. pool.slots[i].sendSeq \in Nat
    BY <1>2, SlotTypes DEF SlotRecords
  <2>2. n \in RequestRecords /\ n.phase = "pipe_sending" /\ n.slot = i /\ n.job = req[r].job
    BY <1>2, <2>1 DEF RequestRecords, Phases
  <2> HIDE DEF n
  <2>3. ReqOK(n)
    BY <1>2, <2>2 DEF ReqOK, QuicPhases, Unheld
  <2> QED
    BY <2>2, <2>3 DEF Stays
<1>5. \/ pool' = BeginPipelineSend(pool, i) /\ Become(r, n)
      \/ Done(r, "error") /\ UNCHANGED pool
  BY DEF PipelineBegin, Conn
<1> HIDE DEF n
<1>6. CASE pool' = BeginPipelineSend(pool, i) /\ Become(r, n)
  <2>1. Keeps(pool, pool')
    BY <1>2, <1>6, PlainUpdates
  <2> QED
    BY <1>3, <1>4, <1>6, <2>1, StayStep DEF Become
<1>7. CASE Done(r, "error") /\ UNCHANGED pool
  BY <1>2, <1>3, <1>7, KeepsSame, DoneStep DEF Statuses
<1> QED
  BY <1>5, <1>6, <1>7

\* The request is on the wire.
LEMMA PipelineSendOK ==
    ASSUME IInv, NEW r \in Requests, PipelineSend(r)
    PROVE  IInv'
BY TcpHolder, KeepsSame, GotoStep DEF PipelineSend, At, TcpPhases, Phases, Unheld, QuicPhases, IInv,
   TypedRest

\* A pipelined request fails.
LEMMA PipelineGivesUpOK ==
    ASSUME IInv, NEW r \in Requests, PipelineSendFails(r) \/ PipelineReceiveFails(r)
    PROVE  IInv'
BY TcpHolder, KeepsSame, RestSame, GotoStep DEF PipelineSendFails, PipelineReceiveFails, At,
   TcpPhases, Phases, Unheld, QuicPhases

\* The turn to receive, or the pipeline's failure.
LEMMA PipelineTurnOK ==
    ASSUME IInv, NEW r \in Requests, PipelineTurn(r)
    PROVE  IInv'
BY TcpHolder, RestSame, KeepsSame, DoneStep, PlainUpdates, GotoStep DEF PipelineTurn, At, TcpPhases,
   Phases, Unheld, QuicPhases, Statuses

\* A response is read.
LEMMA PipelineReceiveOK ==
    ASSUME IInv, NEW r \in Requests, PipelineReceive(r)
    PROVE  IInv'
<1> DEFINE i == req[r].slot
<1>1. /\ req[r].phase \in TcpPhases /\ {"pipe_end", "pipe_fail"} \subseteq TcpPhases
      /\ {"pipe_end", "pipe_fail"} \subseteq Phases
  BY DEF PipelineReceive, At, TcpPhases, Phases, Unheld, QuicPhases
<1>2. /\ PoolOK(pool) /\ i \in Slots
      /\ req[r].phase \notin Unheld /\ req[r].job.key.kind = "Tcp"
  BY <1>1, TcpHolder
<1>3. /\ wire \in [Slots -> Seq(Requests)] /\ session' \in {"open", "closing", "closed"}
      /\ wire[i] # <<>> /\ wire' = [wire EXCEPT ![i] = Tail(wire[i])]
  BY DEF IInv, PipelineReceive
<1>4. wire' \in [Slots -> Seq(Requests)]
  BY <1>2, <1>3
<1>5. TypedRest'
  BY <1>3, <1>4 DEF TypedRest
<1>6. \/ pool' = pool /\ Goto(r, "pipe_end")
      \/ pool' = StoreBuffered(pool, i) /\ Goto(r, "pipe_end")
      \/ pool' = FailPipeline(pool, i) /\ Goto(r, "pipe_fail")
  BY DEF PipelineReceive
<1>7. Keeps(pool, pool')
  BY <1>2, <1>6, KeepsSame, PlainUpdates
<1>8. \E x \in {"pipe_end", "pipe_fail"} : Goto(r, x)
  BY <1>6
<1> QED
  BY <1>1, <1>2, <1>5, <1>7, <1>8, GotoStep

\* The pipeline goes on to the next response, or fails.
LEMMA PipelineEndOK ==
    ASSUME IInv, NEW r \in Requests, PipelineComplete(r) \/ PipelineFail(r)
    PROVE  IInv'
<1> DEFINE i == req[r].slot
<1>1. req[r].phase \in TcpPhases
  BY DEF PipelineComplete, PipelineFail, At, TcpPhases, Phases, Unheld, QuicPhases
<1>2. PoolOK(pool) /\ i \in Slots /\ req[r].phase \notin Unheld
  BY <1>1, TcpHolder
<1>3. TypedRest'
  BY RestSame DEF PipelineComplete, PipelineFail
<1>4. /\ \/ pool' = CompletePipelineReceive(pool, i, req[r].seq)
         \/ pool' = FailPipeline(pool, i)
      /\ \E st \in {"ok", "close", "error"} : Done(r, st)
  BY DEF PipelineComplete, PipelineFail
<1>5. Keeps(pool, pool')
  BY <1>2, <1>4, PlainUpdates
<1> QED
  BY <1>2, <1>3, <1>4, <1>5, DoneStep DEF Statuses

\* A connection with room for one holder has no other.
LEMMA Alone ==
    ASSUME IInv, NEW r \in Requests, req[r].slot \in Slots, Bound(pool.slots[req[r].slot]) = 1
    PROVE  \A x \in Requests : req[x].slot = req[r].slot => x = r
<1> DEFINE i == req[r].slot
<1>1. r \in Held(req, i) /\ Own(pool, req)
  BY DEF Held, IInv
<1>2. Cardinality(Held(req, i)) <= 1
  BY <1>1 DEF Own
<1> SUFFICES ASSUME NEW x \in Requests, req[x].slot = i, x # r
             PROVE  FALSE
  OBVIOUS
<1>3. {x, r} \subseteq Held(req, i)
  BY DEF Held
<1>4. IsFiniteSet(Held(req, i)) /\ Cardinality(Held(req, i)) \in Nat
  BY HeldType
<1>5. Cardinality({x, r}) <= Cardinality(Held(req, i))
  BY <1>3, <1>4, FS_Subset
<1>6. IsFiniteSet({r}) /\ Cardinality({r}) = 1
  BY FS_Singleton
<1>7. Cardinality({r} \cup {x}) = 2
  <2>1. x \notin {r}
    OBVIOUS
  <2>2. Cardinality({r} \cup {x}) = Cardinality({r}) + 1
    BY <1>6, <2>1, FS_AddElement
  <2> QED
    BY <1>6, <2>2
<1>8. {r} \cup {x} = {x, r}
  OBVIOUS
<1> QED
  BY <1>2, <1>4, <1>5, <1>7, <1>8

\* A connection whose handshake runs belongs to the one request that made it.
LEMMA HandshakeAlone ==
    ASSUME IInv, NEW r \in Requests, req[r].phase = "quic_connect"
    PROVE  /\ Bound(pool.slots[req[r].slot]) = 1
           /\ \A x \in Requests : req[x].slot = req[r].slot => x = r
<1> DEFINE i == req[r].slot
<1>1. req[r].phase \in QuicPhases
  BY DEF QuicPhases
<1>2. PoolOK(pool) /\ i \in Slots /\ pool.slots[i].kind = "Quic"
  BY <1>1, QuicHolder
<1>3. ~pool.slots[i].adopted
  BY DEF IInv, Handshakes
<1>4. SlotOK(pool.slots[i])
  BY <1>2, SlotTypes
<1>5. Leases(pool.slots[i]) = 0
  BY <1>2, <1>3, <1>4 DEF SlotOK, Leases
<1>6. Bound(pool.slots[i]) = 1
  BY <1>5 DEF Bound
<1> QED
  BY <1>2, <1>6, Alone

\* The handshake succeeds.
LEMMA QuicConnectOK ==
    ASSUME IInv, NEW r \in Requests, QuicConnect(r)
    PROVE  IInv'
<1> DEFINE i == req[r].slot
           n == [req[r] EXCEPT !.phase = "quic_bind"]
<1>0. req[r].phase = "quic_connect" /\ req[r].phase \in QuicPhases
  BY DEF QuicConnect, At, QuicPhases
<1>1. /\ PoolOK(pool) /\ i \in Slots /\ HeldOK(pool.slots[i]) /\ req[r] \in RequestRecords
      /\ req[r].phase \notin Unheld /\ req[r].job.key.kind = "Quic" /\ ReqOK(req[r])
  BY <1>0, QuicHolder
<1>2. /\ Own(pool, req) /\ Handshakes(pool, req)
      /\ req \in [Requests -> RequestRecords] /\ \A x \in Requests : ReqOK(req[x])
  BY DEF IInv
<1>3. Stays(req[r], n)
  BY <1>1, GotoStays DEF Phases
<1>4. pool' = AdoptQuic(pool, i) /\ req' = [req EXCEPT ![r] = n]
  BY DEF QuicConnect, Goto, Become
<1> HIDE DEF n
<1>5. /\ req' \in [Requests -> RequestRecords]
      /\ \A x \in Requests : req'[x] = IF x = r THEN n ELSE req[x]
  BY <1>2, <1>3, <1>4 DEF Stays
<1>6. /\ PoolOK(pool') /\ Kept(pool.slots[i], pool'.slots[i])
      /\ \A j \in Slots : j # i => pool'.slots[j] = pool.slots[j]
  BY <1>1, <1>4, AdoptQuicOK
<1>7. SameHolders(req, req')
  BY <1>3, <1>5 DEF SameHolders, Stays
<1>8. \A j \in Slots : Held(req, j) # {} => Kept(pool.slots[j], pool'.slots[j])
  BY <1>1, <1>2, <1>6, KeptSelf DEF Own
<1>9. Own(pool', req')
  BY <1>1, <1>2, <1>6, <1>7, <1>8, OwnKept
<1>10. Handshakes(pool', req')
  <2> SUFFICES ASSUME NEW x \in Requests, req'[x].phase = "quic_connect"
               PROVE  ~pool'.slots[req'[x].slot].adopted
    BY DEF Handshakes
  <2>1. x # r /\ req'[x] = req[x]
    BY <1>3, <1>5 DEF Stays
  <2>2. req[x].slot \in Slots /\ ~pool.slots[req[x].slot].adopted
    BY <1>2, <2>1, HolderFacts DEF Handshakes, Unheld
  <2>3. req[x].slot # i
    BY <1>0, <2>1, HandshakeAlone
  <2> QED
    BY <1>6, <2>1, <2>2, <2>3
<1>11. \A x \in Requests : ReqOK(req'[x])
  BY <1>2, <1>3, <1>5 DEF Stays
<1>12. TypedRest'
  BY RestSame DEF QuicConnect
<1> QED
  BY <1>5, <1>6, <1>9, <1>10, <1>11, <1>12 DEF IInv, TypedRest

\* ConnectionPoolAbandonQuicAcquire detaches a connection that nobody shares.
LEMMA QuicConnectFailsOK ==
    ASSUME IInv, NEW r \in Requests, QuicConnectFails(r)
    PROVE  IInv'
<1>0. req[r].phase = "quic_connect" /\ req[r].phase \in QuicPhases
  BY DEF QuicConnectFails, At, QuicPhases
<1>1. /\ PoolOK(pool) /\ req[r].slot \in Slots /\ HeldOK(pool.slots[req[r].slot])
      /\ req[r] \in RequestRecords /\ req[r].phase \notin Unheld
  BY <1>0, QuicHolder
<1>2. Released(pool, pool', req[r].slot)
  BY <1>0, <1>1, HandshakeAlone, ReleasedDetach DEF QuicConnectFails, HeldOK
<1> DEFINE n == NoRequest(req[r].job)
<1>3. n \in RequestRecords /\ ReqOK(n) /\ n.slot = 0
  BY <1>1, JobKeys, NoRequestOK
<1>4. req' = [req EXCEPT ![r] = n]
  BY DEF QuicConnectFails, Return, Become
<1>5. TypedRest'
  BY RestSame DEF QuicConnectFails
<1> HIDE DEF n
<1> QED
  BY <1>1, <1>2, <1>3, <1>4, <1>5, DropStep

\* A stream is bound.
LEMMA BindStreamOK ==
    ASSUME IInv, NEW r \in Requests, BindStream(r)
    PROVE  IInv'
<1> DEFINE n == [req[r] EXCEPT !.phase = "quic", !.used = TRUE]
<1>0. req[r].phase \in QuicPhases
  BY DEF BindStream, At, QuicPhases
<1>1. /\ PoolOK(pool) /\ req[r].slot \in Slots /\ HeldOK(pool.slots[req[r].slot])
      /\ req[r] \in RequestRecords /\ req[r].phase \notin Unheld
      /\ req[r].job.key.kind = "Quic" /\ ReqOK(req[r])
  BY <1>0, QuicHolder
<1>2. Stays(req[r], n)
  BY <1>1, UsedStays
<1>3. Keeps(pool, pool')
  BY <1>1, QuicLeaseKeeps DEF BindStream, Conn
<1>4. TypedRest' /\ req' = [req EXCEPT ![r] = n]
  BY RestSame DEF BindStream, Become
<1> HIDE DEF n
<1> QED
  BY <1>2, <1>3, <1>4, StayStep

\* The retry closes the connection it gives up.
LEMMA RetryCloseOK ==
    ASSUME IInv, NEW r \in Requests, RetryClose(r)
    PROVE  IInv'
<1> DEFINE n == [req[r] EXCEPT !.phase = "reacquire", !.slot = 0]
<1>0. req[r].phase = "done" /\ req[r].phase \notin Unheld /\ req[r].job.key.kind = "Tcp"
  BY DEF RetryClose, At, ShouldRetry, Unheld
<1>1. /\ PoolOK(pool) /\ req[r].slot \in Slots /\ HeldOK(pool.slots[req[r].slot])
      /\ req[r] \in RequestRecords /\ pool.slots[req[r].slot].kind = "Tcp"
  BY <1>0, HolderFacts DEF Conn
<1>2. Released(pool, pool', req[r].slot)
  BY <1>1, CloseOK DEF RetryClose
<1>3. n \in RequestRecords /\ n.slot = 0 /\ n.phase = "reacquire"
  <2>1. 0 \in 0..Capacity /\ "reacquire" \in Phases
    BY PoolAssumption DEF Phases
  <2> QED
    BY <1>1, <2>1 DEF RequestRecords
<1>4. TypedRest' /\ req' = [req EXCEPT ![r] = n]
  BY RestKeepWire DEF RetryClose, Become
<1> HIDE DEF n
<1>5. ReqOK(n)
  BY <1>3 DEF ReqOK, Unheld, QuicPhases
<1> QED
  BY <1>0, <1>2, <1>3, <1>4, <1>5, DropStep

\* The connection goes back to the pool or is closed.
LEMMA FinishOK ==
    ASSUME IInv, NEW r \in Requests, Finish(r)
    PROVE  IInv'
<1> DEFINE n == NoRequest(req[r].job)
           reusable == CanReturnToPool(req[r])
<1>0. req[r].phase \notin Unheld
  BY DEF Finish, At, Unheld
<1>1. /\ PoolOK(pool) /\ req[r].slot \in Slots /\ HeldOK(pool.slots[req[r].slot])
      /\ req[r] \in RequestRecords
  BY <1>0, HolderFacts DEF Conn
<1>2. reusable \in BOOLEAN
  BY DEF CanReturnToPool
<1>3. pool' = Release(pool, req[r].slot, reusable)
  BY DEF Finish
<1> HIDE DEF reusable
<1>4. Released(pool, pool', req[r].slot)
  BY <1>1, <1>2, <1>3, ReleaseOK
<1>5. n \in RequestRecords /\ ReqOK(n) /\ n.slot = 0
  BY <1>1, JobKeys, NoRequestOK
<1>6. TypedRest' /\ req' = [req EXCEPT ![r] = n]
  BY RestKeepWire DEF Finish, Return, Become
<1> HIDE DEF n
<1> QED
  BY <1>0, <1>4, <1>5, <1>6, DropStep

\* The keep-alive sweep, the QUIC worker's events and the end of its close routine.
LEMMA SlotActionsOK ==
    ASSUME IInv, NEW i \in Slots,
           KeepAliveBegin(i) \/ KeepAliveEnd(i) \/ QuicEvent(i)
                \/ QuicCloseReturns(i) \/ IdleTimeout(i)
    PROVE  IInv'
BY KeepAliveKeeps, QuicUnusableKeeps, CompleteCloseKeeps, PlainUpdates, RestSame, RestKeepWire,
   QuietStep DEF IInv, KeepAliveBegin, KeepAliveEnd, QuicEvent, QuicCloseReturns, IdleTimeout

\* The session refuses new requests.
LEMMA SessionCloseOK == ASSUME IInv, SessionClose PROVE IInv'
BY KeepsSame, QuietStep DEF SessionClose, TypedRest, IInv

\* Once every request is idle, no slot is held.
LEMMA DrainedOK ==
    ASSUME IInv, Drained, UNCHANGED req, PoolOK(pool'), TypedRest'
    PROVE  IInv'
BY DEF IInv, Drained, Busy, At, ReqOK, Unheld, Held, Slots, Own, Handshakes, TypedRest

\* ConnectionPoolShutdown takes one slot.
LEMMA ShutdownStepOK == ASSUME IInv, ShutdownStep PROVE IInv'
<1>1. PICK i \in Slots : IsFirst(i, ShutdownTargets(pool)) /\ pool' = ShutdownOne(pool, i)
  BY DEF ShutdownStep
<1>2. PoolOK(pool) /\ i \in ShutdownTargets(pool)
  BY <1>1 DEF IInv, IsFirst
<1>3. SlotOK(pool.slots[i])
  BY <1>2, SlotTypes
<1>4. CASE pool.slots[i].kind = "Tcp"
  BY <1>3, <1>4, <1>2, DetachOK, <1>1, RestKeepWire, DrainedOK DEF SlotOK, ShutdownOne, ShutdownStep
<1>5. CASE pool.slots[i].kind # "Tcp"
  BY <1>2, <1>5, BeginCloseOK, <1>1, RestKeepWire, DrainedOK DEF ShutdownTargets, ShutdownOne,
     ShutdownStep
<1> QED
  BY <1>4, <1>5

\* ConnectionPoolShutdown ends.
LEMMA ShutdownEndOK == ASSUME IInv, ShutdownEnd PROVE IInv'
BY EmptyPoolOK, DrainedOK DEF ShutdownEnd, TypedRest, IInv

----------------------------------------
(* The invariant *)

\* The invariant holds at first.
LEMMA InitOK == Init => IInv
<1> SUFFICES ASSUME Init PROVE IInv
  OBVIOUS
<1> DEFINE job == CHOOSE j \in Jobs : TRUE
<1>1. job \in Jobs
  BY SendAssumption
<1> HIDE DEF job
<1>2. req = [r \in Requests |-> NoRequest(job)]
  BY DEF Init, job
<1>3. /\ req \in [Requests -> RequestRecords]
      /\ \A r \in Requests : ReqOK(req[r]) /\ req[r].slot = 0 /\ req[r].phase = "idle"
  BY <1>1, <1>2, NoRequestOK DEF NoRequest
<1>4. \A i \in Slots : Held(req, i) = {}
  BY <1>3 DEF Held, Slots
<1>5. Own(pool, req) /\ Handshakes(pool, req)
  BY <1>3, <1>4 DEF Own, Handshakes
<1>6. wire \in [Slots -> Seq(Requests)] /\ session \in {"open", "closing", "closed"}
  BY DEF Init
<1> QED
  BY <1>3, <1>5, <1>6, EmptyPoolOK DEF IInv, Init

\* Every step of every actor preserves it.
LEMMA Inductive == IInv /\ [Next]_vars => IInv'
<1> SUFFICES ASSUME IInv, [Next]_vars PROVE IInv'
  OBVIOUS
<1>1. ASSUME NEW r \in Requests, NEW job \in Jobs, Start(r, job) PROVE IInv'
  BY <1>1, StartOK
<1>2. ASSUME NEW r \in Requests, RequestStep(r) PROVE IInv'
  BY <1>2, JoinOK, AcquireConnectionOK, OpenExistingOK, CloseTransportResourcesOK, ConnectOK,
     FailuresOK, SendHttp2OK, SendPipelinedOK, SendPlainOK, PipelineBeginOK, PipelineSendOK,
     PipelineGivesUpOK, PipelineTurnOK, PipelineReceiveOK, PipelineEndOK, QuicConnectOK,
     QuicConnectFailsOK, BindStreamOK, RetryCloseOK, RetryAcquireOK, FinishOK
  DEF RequestStep
<1>3. ASSUME NEW r \in Requests, SocketCloses(r) PROVE IInv'
  BY <1>3, SocketClosesOK
<1>4. ASSUME NEW i \in Slots,
             KeepAliveBegin(i) \/ KeepAliveEnd(i) \/ QuicEvent(i)
                \/ QuicCloseReturns(i) \/ IdleTimeout(i)
      PROVE  IInv'
  BY <1>4, SlotActionsOK
<1>5. CASE SessionClose \/ ShutdownStep \/ ShutdownEnd
  BY <1>5, SessionCloseOK, ShutdownStepOK, ShutdownEndOK
<1>6. CASE UNCHANGED vars
  BY <1>6, KeepsSame, RestSame, QuietStep DEF vars
<1> QED
  BY <1>1, <1>2, <1>3, <1>4, <1>5, <1>6 DEF Next, Closed

\* So it always holds.
LEMMA InvariantHolds == Spec => []IInv
  BY InitOK, Inductive, PTL DEF Spec

\* The variables always have their types: in particular no lease count of a slot is ever
\* decremented below zero (ConnectionPoolRelease, ConnectionPoolReleaseHttp3StreamLease).
THEOREM Typed == Spec => []TypeOK
<1>1. IInv => TypeOK
  BY DEF IInv, TypeOK, PoolOK
<1> QED
  BY <1>1, InvariantHolds, PTL

\* ActiveCount is the number of connected slots, whichever of the eleven paths of
\* ConnectionPool.cpp detached a connection; QuicCloseOutstanding, which
\* ConnectionPoolShutdown waits on, is the number of QUIC connections being closed,
\* and no close routine runs on a slot that was reused.
THEOREM CountsAreExact == Spec => []CountsExact
<1>1. IInv => CountsExact
  BY DEF IInv, PoolOK, SlotOK, Connected, Closing, CountsExact
<1> QED
  BY <1>1, InvariantHolds, PTL

\* MaxConnectionsPerHost is never exceeded (ConnectionPoolAcquire), for any number of
\* requests, hosts and slots.
THEOREM QuotaIsRespected == Spec => []QuotaRespected
<1>1. IInv => QuotaRespected
  BY DEF IInv, PoolOK, QuotaRespected
<1> QED
  BY <1>1, InvariantHolds, PTL

\* A connection that requests hold is never evicted, recycled, closed or pinged under
\* them, is the one they asked for and has a lease for each of them, over every
\* interleaving of acquires, releases, retries, keep-alives, GOAWAYs and shutdown.
THEOREM HoldersOwnTheirConnection == Spec => []HoldersOwn
<1>1. IInv => HoldersOwn
  BY DEF IInv, Own, Held, HeldOK, Holders, Leases, Bound, HoldersOwn
<1> QED
  BY <1>1, InvariantHolds, PTL

----------------------------------------
\* The state of the connections themselves, for any number of requests,
\* slots and leases: a pipelined request reads its own response, lease
\* counts keep their limits and an idle connection can serve the next
\* request.
\*
\* JInv says, slot by slot, how the connection, the requests that hold it
\* and the bytes on its wire fit together (Local).  It rests on IInv:
\* what a lone holder may do is safe because Own makes it alone.  Two
\* parts carry the weight.  WireOK: while the connection is not marked for
\* closing, what is unanswered on the wire is unanswered by its holders,
\* in the order of their sequence numbers.  SocketOK: a dead connection
\* that is not marked has a holder that will still fail, so the last
\* release cannot put it back into the pool.

\* The limits of the counts, and which marks go together.
Tidy(s) ==
    /\ s.h2Leases <= MaxH2Streams /\ s.h1Leases <= PipelineDepth
    /\ s.h3Leases <= s.h3Max /\ s.h3Max <= MaxH3Streams
    /\ s.recvSeq <= s.sendSeq
    /\ s.broken => s.closeWhenIdle
    /\ s.kind = "Tcp" /\ s.h1Leases = 0 => ~s.buffered /\ (s.h2Leases = 0 => ~s.closeWhenIdle)
    /\ s.alive => s.opened
    /\ s.kind = "Tcp" /\ (~s.inUse \/ s.keepAlive) => s.alive

\* A request that has not got its response, or never will.
Pending(q) == ~(q.phase = "pipe_end" \/ (q.phase = "done" /\ q.status = "ok"))

\* A dead connection that is not marked for closing has a holder still to fail.
SocketOK(i, s, rq) ==
    s.kind = "Tcp" /\ s.inUse /\ ~s.keepAlive /\ ~s.closeWhenIdle /\ ~s.alive
        => \E r \in Requests : rq[r].slot = i /\ Pending(rq[r])

TransportPhases == {"plain", "h2", "pipe_begin", "pipe_sending", "pipe_wait", "pipe_recv"}

\* Whoever still uses a transport that is gone knows that it is gone.
TransportOK(i, s, rq) ==
    \A r \in Requests :
        rq[r].slot = i /\ rq[r].phase \in TransportPhases /\ ~s.opened => rq[r].stale

\* The phases of a pipelined request with a sequence number, and of one whose
\* response may be outstanding.
Numbered == {"pipe_sending", "pipe_wait", "pipe_recv", "pipe_end", "pipe_fail"}

Unanswered == {"pipe_wait", "pipe_recv", "pipe_fail"}

\* Sequence numbers are distinct, lie in the window and agree with the turn.
OrderOK(i, s, rq) ==
    \A r \in Requests : rq[r].slot = i /\ rq[r].phase \in Numbered =>
        /\ s.h1Leases # 0
        /\ s.recvSeq <= rq[r].seq /\ rq[r].seq < s.sendSeq
        /\ rq[r].phase = "pipe_sending" => rq[r].seq = s.sendSeq - 1
        /\ rq[r].phase \in {"pipe_recv", "pipe_end"} => rq[r].seq = s.recvSeq
        /\ \A x \in Requests :
              x # r /\ rq[x].phase \in Numbered /\ rq[x].slot = i => rq[x].seq # rq[r].seq

\* The wire holds requests of the connection in the order of their numbers.
InOrder(i, rq, u) ==
    \A k \in 1..Len(u) :
        /\ rq[u[k]].slot = i /\ rq[u[k]].phase \in Unanswered
        /\ \A l \in 1..Len(u) : k < l => rq[u[k]].seq < rq[u[l]].seq

\* A request that waits for its response on a live connection is on the wire, at
\* its head if it is its turn.
OnWire(i, rq, u) ==
    \A r \in Requests : rq[r].slot = i /\ ~rq[r].stale =>
        /\ rq[r].phase = "pipe_wait" => \E k \in 1..Len(u) : u[k] = r
        /\ rq[r].phase = "pipe_recv" => u # <<>> /\ u[1] = r

WireOK(i, s, rq, u) ==
    /\ s.kind # "Tcp" \/ s.h1Leases = 0 => u = <<>>
    /\ ~s.closeWhenIdle => InOrder(i, rq, u)
    /\ s.alive => OnWire(i, rq, u)

\* The holders of a QUIC connection whose stream lease is counted.
Counted3(rq, i) == {r \in Requests : rq[r].slot = i /\ (rq[r].reused \/ rq[r].used)}

\* The leases are those of the holders; the first one is counted when it is bound.
StreamsOK(i, s, rq) ==
    s.kind = "Quic" =>
        /\ s.h3Leases = Cardinality(Counted3(rq, i))
        /\ \A r \in Requests : rq[r].slot = i /\ ~(rq[r].reused \/ rq[r].used) => s.h3Max = 0

\* Everything about slot i.
Local(i, s, rq, u) ==
    /\ Tidy(s) /\ SocketOK(i, s, rq) /\ TransportOK(i, s, rq)
    /\ OrderOK(i, s, rq) /\ WireOK(i, s, rq, u) /\ StreamsOK(i, s, rq)

\* A request has no lease of its own before it is bound.
FlagsOK(q) ==
    /\ q.phase \in {"join", "acquire", "reacquire", "quic_connect", "quic_bind"} => ~q.used
    /\ q.phase = "quic_connect" => ~q.reused

JInv ==
    /\ \A i \in Slots : Local(i, pool.slots[i], req, wire[i])
    /\ \A r \in Requests : FlagsOK(req[r])

----------------------------------------
(* One slot *)

\* Only request r changes, to n.
Changed(rq, rq2, r, n) == \A x \in Requests : rq2[x] = IF x = r THEN n ELSE rq[x]

\* Two states of a connection that no part of Local tells apart, but that the
\* second may be marked for closing while it has leases.
Alike(s, t) ==
    /\ t.kind = s.kind /\ t.opened = s.opened /\ t.alive = s.alive
    /\ t.h2Leases = s.h2Leases /\ t.h1Leases = s.h1Leases
    /\ t.h3Leases = s.h3Leases /\ t.h3Max = s.h3Max
    /\ t.sendSeq = s.sendSeq /\ t.recvSeq = s.recvSeq
    /\ t.buffered => s.buffered \/ t.h1Leases # 0
    /\ \/ t.closeWhenIdle = s.closeWhenIdle /\ t.broken = s.broken
       \/ t.closeWhenIdle /\ (t.kind = "Tcp" => t.h1Leases # 0 \/ t.h2Leases # 0)
    /\ t.kind = "Tcp" => t.inUse = s.inUse /\ t.keepAlive = s.keepAlive

LEMMA AlikeLocal ==
    ASSUME NEW i, NEW s, NEW t, NEW rq, NEW u, Alike(s, t), Local(i, s, rq, u)
    PROVE  Local(i, t, rq, u)
BY DEF Alike, Local, Tidy, SocketOK, TransportOK, OrderOK, WireOK, StreamsOK

\* The slot depends on its holders only.
LEMMA FrameLocal ==
    ASSUME NEW i, NEW s, NEW rq, NEW rq2, NEW u \in Seq(Requests), Local(i, s, rq, u),
           \A x \in Requests : rq[x].slot = i \/ rq2[x].slot = i => rq2[x] = rq[x]
    PROVE  Local(i, s, rq2, u)
<1>0. \A k \in 1..Len(u) : u[k] \in Requests
  OBVIOUS
<1>2. SocketOK(i, s, rq2)
  BY DEF Local, SocketOK
<1>3. TransportOK(i, s, rq2)
  BY DEF Local, TransportOK
<1>4. OrderOK(i, s, rq2)
  BY DEF Local, OrderOK
<1>5. WireOK(i, s, rq2, u)
  BY <1>0 DEF InOrder, OnWire, Local, WireOK
<1>6. StreamsOK(i, s, rq2)
  BY DEF Counted3, Local, StreamsOK
<1> QED
  BY <1>2, <1>3, <1>4, <1>5, <1>6 DEF Local

\* A slot that nobody holds.
LEMMA UnheldLocal ==
    ASSUME NEW i, NEW s, NEW rq, \A x \in Requests : rq[x].slot # i, Tidy(s),
           s.kind = "Quic" => s.h3Leases = 0,
           s.kind = "Tcp" /\ s.inUse /\ ~s.keepAlive /\ ~s.closeWhenIdle => s.alive
    PROVE  Local(i, s, rq, <<>>)
BY FS_EmptySet DEF InOrder, OnWire, Counted3, Local, SocketOK, TransportOK, OrderOK, WireOK,
   StreamsOK

\* What a change of phase must respect.
Moves(s, q, n) ==
    /\ n.slot = q.slot /\ n.seq = q.seq /\ n.stale = q.stale /\ n.reused = q.reused
    /\ s.kind = "Quic" => n.used = q.used
    /\ n.phase \notin {"pipe_sending", "pipe_wait", "pipe_recv"}
    /\ n.phase \in {"pipe_end", "pipe_fail"} => q.phase \in Numbered
    /\ n.phase = "pipe_end" => n.seq = s.recvSeq
    /\ n.phase \in {"plain", "h2", "pipe_begin"} /\ ~s.opened => n.stale
    /\ s.kind = "Tcp" /\ ~Pending(n) => s.alive \/ ~Pending(q)
    /\ q.phase \in Unanswered /\ n.phase \notin Unanswered => s.closeWhenIdle

LEMMA MoveLocal ==
    ASSUME NEW i, NEW s, NEW rq, NEW rq2, NEW u \in Seq(Requests), Local(i, s, rq, u),
           NEW r \in Requests, NEW n, Changed(rq, rq2, r, n), rq[r].slot = i, Moves(s, rq[r], n)
    PROVE  Local(i, s, rq2, u)
<1>0. \A k \in 1..Len(u) : u[k] \in Requests
  OBVIOUS
<1>1. rq2[r] = n /\ \A x \in Requests : x # r => rq2[x] = rq[x]
  BY DEF Changed
<1>2. SocketOK(i, s, rq2)
  BY <1>1 DEF Local, SocketOK, Moves
<1>3. TransportOK(i, s, rq2)
  BY <1>1 DEF Local, TransportOK, Moves, TransportPhases
<1>4. OrderOK(i, s, rq2)
  BY <1>1 DEF Local, OrderOK, Moves, Numbered
<1>5. WireOK(i, s, rq2, u)
  BY <1>0, <1>1 DEF InOrder, Moves, OnWire, Local, WireOK
<1>6. StreamsOK(i, s, rq2)
  <2>1. s.kind = "Quic" => Counted3(rq2, i) = Counted3(rq, i)
    BY <1>1 DEF Counted3, Moves
  <2> QED
    BY <1>1, <2>1 DEF Local, StreamsOK, Moves
<1> QED
  BY <1>2, <1>3, <1>4, <1>5, <1>6 DEF Local

----------------------------------------
(* Steps that stay on one slot *)

\* What a request knows of its connection.
LEMMA HolderLocal ==
    ASSUME IInv, JInv, NEW r \in Requests, req[r].phase \notin Unheld
    PROVE  LET i == req[r].slot
               s == pool.slots[i]
           IN  /\ i \in Slots /\ pool \in PoolRecords /\ s \in SlotRecords /\ SlotOK(s)
               /\ HeldOK(s) /\ s.kind = req[r].job.key.kind /\ Local(i, s, req, wire[i])
               /\ wire[i] \in Seq(Requests) /\ req[r] \in RequestRecords /\ FlagsOK(req[r])
BY HolderFacts, SlotTypes DEF Conn, JInv, IInv

\* Only slot i, its wire and requests on it or without a connection change.
LEMMA LocalStep ==
    ASSUME IInv, JInv, NEW i \in Slots,
           \A j \in Slots : j # i => pool'.slots[j] = pool.slots[j] /\ wire'[j] = wire[j],
           \A x \in Requests : \/ req'[x] = req[x]
                               \/ /\ req[x].slot \in {0, i} /\ req'[x].slot \in {0, i}
                                  /\ FlagsOK(req'[x]),
           Local(i, pool'.slots[i], req', wire'[i])
    PROVE  JInv'
<1>1. ASSUME NEW j \in Slots, j # i PROVE Local(j, pool'.slots[j], req', wire'[j])
  <2>1. Local(j, pool.slots[j], req, wire[j]) /\ wire[j] \in Seq(Requests)
    BY DEF JInv, IInv
  <2>2. \A x \in Requests : req[x].slot = j \/ req'[x].slot = j => req'[x] = req[x]
    BY <1>1, PoolAssumption DEF Slots
  <2>3. Local(j, pool.slots[j], req', wire[j])
    BY <2>1, <2>2, FrameLocal
  <2> QED
    BY <1>1, <2>3
<1>2. \A x \in Requests : FlagsOK(req'[x])
  BY DEF JInv
<1> QED
  BY <1>1, <1>2 DEF JInv

\* A request changes phase on a connection that fits the others already.
LEMMA StayFrom ==
    ASSUME IInv, JInv, NEW r \in Requests, req[r].phase \notin Unheld, NEW n,
           req' = [req EXCEPT ![r] = n], wire' = wire, NEW t, pool'.slots[req[r].slot] = t,
           Local(req[r].slot, t, req, wire[req[r].slot]),
           \A j \in Slots : j # req[r].slot => pool'.slots[j] = pool.slots[j],
           Moves(t, req[r], n), FlagsOK(n)
    PROVE  JInv'
<1> DEFINE i == req[r].slot
           rq2 == req'
<1>1. i \in Slots /\ wire[i] \in Seq(Requests)
  BY HolderLocal
<1>2. Changed(req, rq2, r, n)
  BY DEF IInv, Changed
<1>4. rq2 = req'
  OBVIOUS
<1> HIDE DEF rq2
<1>5. Local(i, t, rq2, wire[i])
  BY <1>1, <1>2, MoveLocal
<1>6. \A x \in Requests : req'[x] = req[x] \/ (x = r /\ req'[x] = n)
  BY <1>2, <1>4 DEF Changed
<1>7. n.slot = i
  BY DEF Moves
<1> QED
  BY <1>1, <1>4, <1>5, <1>6, <1>7, LocalStep

\* A request changes phase, its connection at most marked for closing.
LEMMA StayLocal ==
    ASSUME IInv, JInv, NEW r \in Requests, req[r].phase \notin Unheld, NEW n,
           req' = [req EXCEPT ![r] = n], wire' = wire,
           Alike(pool.slots[req[r].slot], pool'.slots[req[r].slot]),
           \A j \in Slots : j # req[r].slot => pool'.slots[j] = pool.slots[j],
           Moves(pool'.slots[req[r].slot], req[r], n), FlagsOK(n)
    PROVE  JInv'
<1> DEFINE i == req[r].slot
           t == pool'.slots[i]
<1>1. Local(i, pool.slots[i], req, wire[i])
  BY HolderLocal
<1>2. t = pool'.slots[i] /\ Moves(t, req[r], n) /\ Local(i, t, req, wire[i])
  BY <1>1, AlikeLocal
<1> HIDE DEF t
<1> QED
  BY <1>2, StayFrom

\* The fields of a request that goes on.
LEMMA GotoFields ==
    ASSUME NEW q \in RequestRecords, NEW x
    PROVE  LET n == [q EXCEPT !.phase = x]
           IN  /\ n.phase = x /\ n.slot = q.slot /\ n.seq = q.seq /\ n.stale = q.stale
               /\ n.reused = q.reused /\ n.used = q.used /\ n.status = q.status
  BY DEF RequestRecords

\* And of one whose SendViaTransport has returned.
LEMMA DoneFields ==
    ASSUME NEW q \in RequestRecords, NEW st
    PROVE  LET n == [q EXCEPT !.phase = "done", !.status = st]
           IN  /\ n.phase = "done" /\ n.slot = q.slot /\ n.seq = q.seq /\ n.stale = q.stale
               /\ n.reused = q.reused /\ n.used = q.used /\ n.status = st
  BY DEF RequestRecords

\* A connection is like itself.
LEMMA AlikeSelf == ASSUME NEW s PROVE Alike(s, s)
  BY DEF Alike

\* A request is done, and what it leaves unanswered is marked.
LEMMA DoneLocal ==
    ASSUME IInv, JInv, NEW r \in Requests, req[r].phase \notin Unheld, NEW st, Done(r, st),
           wire' = wire, Alike(pool.slots[req[r].slot], pool'.slots[req[r].slot]),
           \A j \in Slots : j # req[r].slot => pool'.slots[j] = pool.slots[j],
           st = "ok" => pool.slots[req[r].slot].alive \/ req[r].phase \in QuicPhases \cup {"pipe_end"},
           req[r].phase \in Unanswered => pool'.slots[req[r].slot].closeWhenIdle
    PROVE  JInv'
<1> DEFINE i == req[r].slot
           n == [req[r] EXCEPT !.phase = "done", !.status = st]
           t == pool'.slots[i]
<1>1. /\ req[r] \in RequestRecords /\ ReqOK(req[r])
      /\ req[r].phase \in QuicPhases => pool.slots[i].kind = "Quic"
  BY HolderFacts DEF Conn, ReqOK
<1>2. req' = [req EXCEPT ![r] = n]
  BY DEF Done, Become
<1>3. /\ n.phase = "done" /\ n.slot = i /\ n.seq = req[r].seq /\ n.stale = req[r].stale
      /\ n.reused = req[r].reused /\ n.used = req[r].used /\ n.status = st
  BY <1>1, DoneFields
<1> HIDE DEF n
<1>4. FlagsOK(n)
  BY <1>3 DEF FlagsOK
<1>5. Alike(pool.slots[i], t) /\ t = pool'.slots[i]
  OBVIOUS
<1> HIDE DEF t
<1>6. t.kind = "Tcp" /\ st = "ok" => t.alive \/ req[r].phase = "pipe_end"
  BY <1>1, <1>5 DEF Alike
<1>7. Moves(t, req[r], n)
  BY <1>3, <1>5, <1>6 DEF Moves, Pending
<1> QED
  BY <1>2, <1>4, <1>5, <1>7, StayLocal

\* The slots of a pool in which slot i has become t.
Put(p, q, i, t) == q.slots[i] = t /\ \A j \in Slots : j # i => q.slots[j] = p.slots[j]

\* Update puts a slot.
LEMMA PutUpdate ==
    ASSUME NEW p \in PoolRecords, NEW i \in Slots, NEW t \in SlotRecords
    PROVE  Put(p, Update(p, i, t), i, t)
  BY UpdateFields DEF Put

\* The operations that tell nothing to the holders of a connection.
LEMMA AlikeUpdates ==
    ASSUME NEW p \in PoolRecords, NEW i \in Slots
    PROVE  LET s == p.slots[i]
               Like(q) == Alike(s, q.slots[i]) /\ \A j \in Slots : j # i => q.slots[j] = p.slots[j]
           IN  /\ Like(p) /\ Like(AdoptHttp2(p, i)) /\ Like(TakeBuffered(p, i))
               /\ Like(AgeOut(p, i)) /\ Like(AdoptQuic(p, i)) /\ Like(FailPipeline(p, i))
               /\ s.h1Leases # 0 => Like(StoreBuffered(p, i))
<1> DEFINE s == p.slots[i]
           Like(q) == Alike(s, q.slots[i]) /\ \A j \in Slots : j # i => q.slots[j] = p.slots[j]
<1>1. s \in SlotRecords
  BY DEF PoolRecords
<1>0. Like(p)
  BY AlikeSelf
<1>2. Like(AdoptHttp2(p, i))
  <2> DEFINE t == [s EXCEPT !.http2 = TRUE]
  <2>1. t \in SlotRecords /\ Alike(s, t)
    BY <1>1 DEF SlotRecords, Alike
  <2> QED
    BY <2>1, PutUpdate, ZenonT(40) DEF Put, AdoptHttp2
<1>3. Like(TakeBuffered(p, i))
  <2> DEFINE t == [s EXCEPT !.buffered = FALSE]
  <2>1. t \in SlotRecords /\ Alike(s, t)
    BY <1>1 DEF SlotRecords, Alike
  <2> QED
    BY <2>1, PutUpdate, ZenonT(40) DEF Put, TakeBuffered
<1>4. Like(AgeOut(p, i))
  <2> DEFINE t == [s EXCEPT !.expired = TRUE]
  <2>1. t \in SlotRecords /\ Alike(s, t)
    BY <1>1 DEF SlotRecords, Alike
  <2> QED
    BY <2>1, PutUpdate, ZenonT(40) DEF Put, AgeOut
<1>5. Like(AdoptQuic(p, i))
  <2> DEFINE t == [s EXCEPT !.adopted = TRUE]
  <2>1. t \in SlotRecords /\ Alike(s, t)
    BY <1>1 DEF SlotRecords, Alike
  <2> QED
    BY <2>1, PutUpdate, ZenonT(40) DEF Put, AdoptQuic
<1>6. Like(FailPipeline(p, i))
  <2>1. CASE s.h1Leases # 0
    <3> DEFINE t == [s EXCEPT !.closeWhenIdle = TRUE, !.broken = TRUE]
    <3>1. t \in SlotRecords /\ Alike(s, t)
      BY <1>1, <2>1 DEF SlotRecords, Alike
    <3> QED
      BY <2>1, <3>1, PutUpdate DEF Put, FailPipeline
  <2> QED
    BY <1>0, <2>1 DEF FailPipeline
<1>7. s.h1Leases # 0 => Like(StoreBuffered(p, i))
  <2> SUFFICES ASSUME s.h1Leases # 0 PROVE Like(StoreBuffered(p, i))
    OBVIOUS
  <2> DEFINE t == [s EXCEPT !.buffered = TRUE]
  <2>1. t \in SlotRecords /\ Alike(s, t)
    BY <1>1 DEF SlotRecords, Alike
  <2> QED
    BY <2>1, PutUpdate, ZenonT(40) DEF Put, StoreBuffered
<1> QED
  BY <1>0, <1>2, <1>3, <1>4, <1>5, <1>6, <1>7

\* A request goes on to a phase that nothing on the wire depends on.
LEMMA GotoLocal ==
    ASSUME IInv, JInv, NEW r \in Requests, req[r].phase \notin Unheld, NEW x, Goto(r, x),
           wire' = wire, Alike(pool.slots[req[r].slot], pool'.slots[req[r].slot]),
           \A j \in Slots : j # req[r].slot => pool'.slots[j] = pool.slots[j],
           req[r].phase \notin Unanswered,
           x \in {"connect", "send", "plain", "h2", "quic_bind", "pipe_fail"},
           x \in {"plain", "h2"} => pool.slots[req[r].slot].opened,
           x = "pipe_fail" => req[r].phase = "pipe_sending",
           x = "quic_bind" => req[r].phase = "quic_connect"
    PROVE  JInv'
<1> DEFINE i == req[r].slot
           n == [req[r] EXCEPT !.phase = x]
           t == pool'.slots[i]
<1>1. req[r] \in RequestRecords /\ FlagsOK(req[r])
  BY HolderLocal
<1>2. req' = [req EXCEPT ![r] = n]
  BY DEF Goto, Become
<1>3. /\ n.phase = x /\ n.slot = i /\ n.seq = req[r].seq /\ n.stale = req[r].stale
      /\ n.reused = req[r].reused /\ n.used = req[r].used /\ n.status = req[r].status
  BY <1>1, GotoFields
<1> HIDE DEF n
<1>4. FlagsOK(n)
  BY <1>1, <1>3 DEF FlagsOK
<1>5. Alike(pool.slots[i], t) /\ t = pool'.slots[i]
  OBVIOUS
<1> HIDE DEF t
<1>6. Moves(t, req[r], n)
  BY <1>3, <1>5 DEF Moves, Pending, Alike, Numbered
<1> QED
  BY <1>2, <1>4, <1>5, <1>6, StayLocal

\* The pool left alone.
LEMMA AlikePool ==
    ASSUME UNCHANGED pool, NEW i
    PROVE  /\ Alike(pool.slots[i], pool'.slots[i])
           /\ \A j \in Slots : j # i => pool'.slots[j] = pool.slots[j]
  BY AlikeSelf

\* EnsureSocketConnected finds a connected socket; a request has it for itself.
LEMMA OpenedJ ==
    ASSUME IInv, JInv, NEW r \in Requests, OpenExisting(r) \/ SendPlain(r)
    PROVE  JInv'
BY AlikePool, GotoLocal DEF OpenExisting, SendPlain, At, Conn, Unheld, Unanswered

\* SendViaTransport returns; "ok" only over a live connection.
LEMMA SettleJ ==
    ASSUME IInv, JInv, NEW r \in Requests,
           ConnectFails(r) \/ SendFails(r) \/ Respond(r) \/ RespondFails(r)
                \/ BindStreamFails(r) \/ QuicRespond(r)
    PROVE  JInv'
BY AlikePool, DoneLocal DEF ConnectFails, SendFails, Respond, RespondFails, BindStreamFails,
   QuicRespond, At, Statuses, CanTransfer, Conn, QuicPhases, Unheld, Unanswered

\* A pipelined request fails: it stays on the wire if it was.
LEMMA GivesUpJ ==
    ASSUME IInv, JInv, NEW r \in Requests, PipelineSendFails(r) \/ PipelineReceiveFails(r)
    PROVE  JInv'
<1> DEFINE i == req[r].slot
           n == [req[r] EXCEPT !.phase = "pipe_fail"]
<1>1. /\ req[r].phase \in {"pipe_sending", "pipe_recv"} /\ UNCHANGED pool /\ wire' = wire
      /\ req' = [req EXCEPT ![r] = n]
  BY DEF PipelineSendFails, PipelineReceiveFails, At, Goto, Become
<1>2. req[r].phase \notin Unheld
  BY <1>1 DEF Unheld
<1>3. req[r] \in RequestRecords
  BY <1>2, HolderLocal
<1>4. /\ n.phase = "pipe_fail" /\ n.slot = i /\ n.seq = req[r].seq /\ n.stale = req[r].stale
      /\ n.reused = req[r].reused /\ n.used = req[r].used /\ n.status = req[r].status
  BY <1>3, GotoFields
<1> HIDE DEF n
<1>5. FlagsOK(n) /\ Moves(pool.slots[i], req[r], n)
  BY <1>1, <1>4 DEF FlagsOK, Moves, Pending, Unanswered, Numbered
<1> QED
  BY <1>1, <1>2, <1>5, AlikePool, StayLocal

\* A handshake succeeds.
LEMMA QuicConnectJ ==
    ASSUME IInv, JInv, NEW r \in Requests, QuicConnect(r)
    PROVE  JInv'
BY HolderLocal, AlikeUpdates, GotoLocal DEF QuicConnect, At, Unheld, Unanswered

----------------------------------------
(* Promotion, sockets *)

\* A lone holder gets the first HTTP/2 lease.
LEMMA PromoteHttp2Local ==
    ASSUME NEW i, NEW s \in SlotRecords, NEW t, NEW rq, NEW u, Local(i, s, rq, u),
           s.kind = "Tcp", s.h1Leases = 0,
           t.h2Leases = 1,
           t.kind = s.kind, t.inUse = s.inUse, t.keepAlive = s.keepAlive,
           t.opened = s.opened, t.alive = s.alive, t.h1Leases = s.h1Leases,
           t.h3Leases = s.h3Leases, t.h3Max = s.h3Max, t.sendSeq = s.sendSeq,
           t.recvSeq = s.recvSeq, t.broken = s.broken, t.buffered = s.buffered,
           t.closeWhenIdle = s.closeWhenIdle
    PROVE  Local(i, t, rq, u)
<1>1. Tidy(t)
  BY PoolAssumption DEF Local, Tidy
<1> QED
  BY <1>1 DEF Local, SocketOK, TransportOK, OrderOK, WireOK, StreamsOK

\* The HTTP/2 lease is taken.
LEMMA SendHttp2J ==
    ASSUME IInv, JInv, NEW r \in Requests, SendHttp2(r)
    PROVE  JInv'
<1> DEFINE i == req[r].slot
           s == pool.slots[i]
           n == [req[r] EXCEPT !.phase = "h2"]
<1>1. /\ req[r].phase = "send" /\ s.opened /\ wire' = wire
      /\ \/ pool' = AdoptHttp2(pool, i) /\ Goto(r, "h2")
         \/ /\ CanPromote(s) /\ pool' = PromoteHttp2(AdoptHttp2(pool, i), i)
            /\ Goto(r, "h2")
         \/ pool' = AdoptHttp2(pool, i) /\ Done(r, "error")
  BY DEF SendHttp2, At, Conn
<1>2. req[r].phase \notin Unheld /\ req[r].phase \notin Unanswered
  BY <1>1 DEF Unheld, Unanswered
<1>3. /\ i \in Slots /\ pool \in PoolRecords /\ s \in SlotRecords
      /\ s.kind = req[r].job.key.kind /\ Local(i, s, req, wire[i])
      /\ req[r] \in RequestRecords /\ FlagsOK(req[r])
  BY <1>2, HolderLocal
<1>4. s.kind = "Tcp"
  BY <1>1, <1>3 DEF IInv, ReqOK, Unheld, QuicPhases
<1>5. CASE pool' = AdoptHttp2(pool, i) /\ Goto(r, "h2")
  BY <1>1, <1>2, <1>3, <1>5, AlikeUpdates, GotoLocal
<1>6. CASE pool' = AdoptHttp2(pool, i) /\ Done(r, "error")
  BY <1>1, <1>2, <1>3, <1>6, AlikeUpdates, DoneLocal, ZenonT(40)
<1>7. CASE CanPromote(s) /\ pool' = PromoteHttp2(AdoptHttp2(pool, i), i) /\ Goto(r, "h2")
  <2> DEFINE a == [s EXCEPT !.http2 = TRUE]
             t == [a EXCEPT !.h2Leases = 1]
             p == AdoptHttp2(pool, i)
  <2>1. a \in SlotRecords /\ t \in SlotRecords
    BY <1>3 DEF SlotRecords
  <2>a. p = Update(pool, i, a)
    BY DEF AdoptHttp2
  <2>2. p \in PoolRecords /\ p.slots[i] = a /\ \A j \in Slots : j # i => p.slots[j] = pool.slots[j]
    <3>1. i \in Slots /\ pool \in PoolRecords
      BY <1>3
    <3> HIDE DEF p, a, i
    <3> QED
      BY <2>1, <2>a, <3>1, UpdateFields
  <2> HIDE DEF p
  <2>u. PromoteHttp2(p, i) = Update(p, i, t)
    BY <2>2 DEF PromoteHttp2
  <2>3. /\ Update(p, i, t).slots[i] = t
        /\ \A j \in Slots : j # i => Update(p, i, t).slots[j] = p.slots[j]
    <3> HIDE DEF t, a
    <3> QED
      BY <1>3, <2>1, <2>2, UpdateFields
  <2>4. /\ t.h2Leases = 1 /\ t.kind = s.kind /\ t.inUse = s.inUse /\ t.keepAlive = s.keepAlive
        /\ t.opened = s.opened /\ t.alive = s.alive /\ t.h1Leases = s.h1Leases
        /\ t.h3Leases = s.h3Leases /\ t.h3Max = s.h3Max /\ t.sendSeq = s.sendSeq
        /\ t.recvSeq = s.recvSeq /\ t.broken = s.broken /\ t.buffered = s.buffered
        /\ t.closeWhenIdle = s.closeWhenIdle
    BY <1>3, <2>1 DEF SlotRecords
  <2>5. s.h1Leases = 0
    BY <1>7 DEF CanPromote
  <2>6. /\ pool'.slots[i] = t /\ \A j \in Slots : j # i => pool'.slots[j] = pool.slots[j]
        /\ req' = [req EXCEPT ![r] = n]
    BY <1>7, <2>2, <2>3, <2>u DEF p, Goto, Become
  <2> HIDE DEF t, a
  <2>7. Local(i, t, req, wire[i])
    BY <1>3, <1>4, <2>4, <2>5, PromoteHttp2Local
  <2>8. /\ n.phase = "h2" /\ n.slot = i /\ n.seq = req[r].seq /\ n.stale = req[r].stale
        /\ n.reused = req[r].reused /\ n.used = req[r].used /\ n.status = req[r].status
    BY <1>3, GotoFields
  <2> HIDE DEF n, s
  <2>9. FlagsOK(n) /\ Moves(t, req[r], n)
    BY <1>1, <1>2, <1>4, <2>4, <2>8 DEF FlagsOK, Moves, Pending
  <2> QED
    BY <1>1, <1>2, <2>6, <2>7, <2>9, StayFrom
<1> QED
  BY <1>1, <1>5, <1>6, <1>7

\* A lone holder gets the first lease of a pipeline: the numbers start anew.
LEMMA PromotePipelineLocal ==
    ASSUME NEW i, NEW s \in SlotRecords, NEW t, NEW rq, NEW u, Local(i, s, rq, u),
           s.kind = "Tcp", CanPromote(s),
           t.h1Leases = 1, t.sendSeq = 1, t.recvSeq = 1, ~t.broken, ~t.buffered,
           t.kind = s.kind, t.inUse = s.inUse, t.keepAlive = s.keepAlive,
           t.opened = s.opened, t.alive = s.alive, t.h2Leases = s.h2Leases,
           t.h3Leases = s.h3Leases, t.h3Max = s.h3Max, t.closeWhenIdle = s.closeWhenIdle
    PROVE  Local(i, t, rq, u)
BY PoolAssumption DEF CanPromote, Local, Tidy, SocketOK, TransportOK, OrderOK, WireOK, StreamsOK

\* The pipeline lease is taken.
LEMMA SendPipelinedJ ==
    ASSUME IInv, JInv, NEW r \in Requests, SendPipelined(r)
    PROVE  JInv'
<1> DEFINE i == req[r].slot
           s == pool.slots[i]
           n == [req[r] EXCEPT !.phase = "pipe_begin", !.used = TRUE]
<1>1. /\ req[r].phase = "send" /\ s.opened /\ wire' = wire
      /\ \/ pool' = pool /\ Become(r, n)
         \/ CanPromote(s) /\ pool' = PromoteHttp1Pipeline(pool, i) /\ Become(r, n)
         \/ pool' = pool /\ Done(r, "error")
  BY DEF SendPipelined, At, Conn
<1>2. req[r].phase \notin Unheld /\ req[r].phase \notin Unanswered
  BY <1>1 DEF Unheld, Unanswered
<1>3. /\ i \in Slots /\ pool \in PoolRecords /\ s \in SlotRecords
      /\ s.kind = req[r].job.key.kind /\ Local(i, s, req, wire[i])
      /\ req[r] \in RequestRecords /\ FlagsOK(req[r])
  BY <1>2, HolderLocal
<1>4. s.kind = "Tcp"
  BY <1>1, <1>3 DEF IInv, ReqOK, Unheld, QuicPhases
<1>5. /\ n.phase = "pipe_begin" /\ n.slot = i /\ n.seq = req[r].seq /\ n.stale = req[r].stale
      /\ n.reused = req[r].reused
  BY <1>3 DEF RequestRecords
<1> HIDE DEF n
<1>6. FlagsOK(n)
  BY <1>5 DEF FlagsOK
<1>7. ASSUME NEW t, t.kind = "Tcp", t.opened = s.opened PROVE Moves(t, req[r], n)
  BY <1>1, <1>2, <1>5, <1>7 DEF Moves, Pending
<1>8. CASE pool' = pool /\ Become(r, n)
  BY <1>1, <1>2, <1>3, <1>4, <1>6, <1>7, <1>8, StayFrom DEF Become
<1>9. CASE pool' = pool /\ Done(r, "error")
  BY <1>1, <1>2, <1>9, AlikePool, DoneLocal
<1>10. CASE CanPromote(s) /\ pool' = PromoteHttp1Pipeline(pool, i) /\ Become(r, n)
  <2> DEFINE t == [s EXCEPT !.h1Leases = 1, !.sendSeq = 1, !.recvSeq = 1,
                            !.broken = FALSE, !.buffered = FALSE]
  <2>1. t \in SlotRecords
    BY <1>3 DEF SlotRecords
  <2>u. pool' = Update(pool, i, t)
    BY <1>10 DEF PromoteHttp1Pipeline
  <2>2. pool'.slots[i] = t /\ \A j \in Slots : j # i => pool'.slots[j] = pool.slots[j]
    <3> HIDE DEF t
    <3> QED
      BY <1>3, <2>1, <2>u, UpdateFields
  <2>3. /\ t.h1Leases = 1 /\ t.sendSeq = 1 /\ t.recvSeq = 1 /\ ~t.broken /\ ~t.buffered
        /\ t.kind = s.kind /\ t.inUse = s.inUse /\ t.keepAlive = s.keepAlive
        /\ t.opened = s.opened /\ t.alive = s.alive /\ t.h2Leases = s.h2Leases
        /\ t.h3Leases = s.h3Leases /\ t.h3Max = s.h3Max /\ t.closeWhenIdle = s.closeWhenIdle
    BY <1>3 DEF SlotRecords
  <2> HIDE DEF t
  <2>4. Local(i, t, req, wire[i])
    BY <1>3, <1>4, <1>10, <2>3, PromotePipelineLocal
  <2> QED
    BY <1>1, <1>2, <1>4, <1>6, <1>7, <1>10, <2>2, <2>3, <2>4, StayFrom, ZenonT(40) DEF Become
<1> QED
  BY <1>1, <1>8, <1>9, <1>10

\* An I/O of the request is cancelled or times out: the request will fail.
LEMMA SocketClosesJ ==
    ASSUME IInv, JInv, NEW r \in Requests, SocketCloses(r)
    PROVE  JInv'
<1> DEFINE i == req[r].slot
           s == pool.slots[i]
           t == [s EXCEPT !.alive = FALSE]
<1>1. /\ req[r].phase \in {"plain", "h2", "pipe_sending", "pipe_recv"}
      /\ pool' = DropSocket(pool, i) /\ req' = req /\ wire' = wire
  BY DEF SocketCloses
<1>2. req[r].phase \notin Unheld
  BY <1>1 DEF Unheld
<1>3. /\ i \in Slots /\ pool \in PoolRecords /\ s \in SlotRecords /\ HeldOK(s)
      /\ Local(i, s, req, wire[i])
  BY <1>2, HolderLocal
<1>u. pool' = Update(pool, i, t)
  BY <1>1 DEF DropSocket
<1>4. t \in SlotRecords
  BY <1>3 DEF SlotRecords
<1>5. /\ ~t.alive /\ t.kind = s.kind /\ t.inUse = s.inUse /\ t.keepAlive = s.keepAlive
      /\ t.opened = s.opened /\ t.h2Leases = s.h2Leases /\ t.h1Leases = s.h1Leases
      /\ t.h3Leases = s.h3Leases /\ t.h3Max = s.h3Max /\ t.sendSeq = s.sendSeq
      /\ t.recvSeq = s.recvSeq /\ t.broken = s.broken /\ t.buffered = s.buffered
      /\ t.closeWhenIdle = s.closeWhenIdle
  BY <1>3 DEF SlotRecords
<1> HIDE DEF t
<1>6. pool'.slots[i] = t /\ \A j \in Slots : j # i => pool'.slots[j] = pool.slots[j]
  BY <1>3, <1>4, <1>u, UpdateFields
<1>7. Tidy(t)
  BY <1>3, <1>5 DEF Local, Tidy, HeldOK
<1>8. SocketOK(i, t, req)
  BY <1>1 DEF SocketOK, Pending
<1>9. Local(i, t, req, wire[i])
  BY <1>3, <1>5, <1>7, <1>8, ZenonT(40) DEF Local, TransportOK, OrderOK, WireOK, StreamsOK
<1> QED
  BY <1>1, <1>3, <1>6, <1>9, LocalStep

\* A new socket: whoever used the old one knows that it is gone.
LEMMA ConnectJ ==
    ASSUME IInv, JInv, NEW r \in Requests, Connect(r)
    PROVE  JInv'
<1> DEFINE i == req[r].slot
           s == pool.slots[i]
           n == [req[r] EXCEPT !.phase = "send"]
<1>1. /\ req[r].phase = "connect" /\ ~s.opened /\ wire' = wire /\ req' = [req EXCEPT ![r] = n]
      /\ \E alpn \in Negotiable(s.key) : pool' = AdoptSocket(pool, i, alpn)
  BY DEF Connect, Conn, At, Goto, Become
<1>2. req[r].phase \notin Unheld /\ req[r].phase \notin Unanswered
  BY <1>1 DEF Unheld, Unanswered
<1>3. /\ i \in Slots /\ pool \in PoolRecords /\ s \in SlotRecords /\ HeldOK(s) /\ SlotOK(s)
      /\ Local(i, s, req, wire[i]) /\ s.kind = req[r].job.key.kind
      /\ req[r] \in RequestRecords /\ FlagsOK(req[r])
  BY <1>2, HolderLocal
<1>4. s.kind = "Tcp"
  BY <1>1, <1>3 DEF IInv, ReqOK, Unheld, QuicPhases
<1>5. PICK alpn \in Negotiable(s.key) : pool' = AdoptSocket(pool, i, alpn)
  BY <1>1
<1>6. alpn \in Alpns /\ s.key \in KeyRecords
  BY <1>3, <1>5 DEF Negotiable, KeyRecords, SlotOK, HeldOK
<1> DEFINE key == [s.key EXCEPT !.alpn = alpn]
           t == [s EXCEPT !.opened = TRUE, !.alive = TRUE, !.key = key]
<1>7. key \in KeyRecords
  BY <1>6 DEF KeyRecords
<1>u. pool' = Update(pool, i, t)
  BY <1>5 DEF AdoptSocket
<1> HIDE DEF key
<1>8. t \in SlotRecords
  BY <1>3, <1>7 DEF SlotRecords
<1>9. /\ t.opened /\ t.alive /\ t.kind = s.kind /\ t.inUse = s.inUse /\ t.keepAlive = s.keepAlive
      /\ t.h2Leases = s.h2Leases /\ t.h1Leases = s.h1Leases
      /\ t.h3Leases = s.h3Leases /\ t.h3Max = s.h3Max /\ t.sendSeq = s.sendSeq
      /\ t.recvSeq = s.recvSeq /\ t.broken = s.broken /\ t.buffered = s.buffered
      /\ t.closeWhenIdle = s.closeWhenIdle
  BY <1>3 DEF SlotRecords
<1> HIDE DEF t
<1>10. pool'.slots[i] = t /\ \A j \in Slots : j # i => pool'.slots[j] = pool.slots[j]
  BY <1>3, <1>8, <1>u, UpdateFields
<1>11. Tidy(t)
  BY <1>3, <1>9 DEF Local, Tidy
<1>12. OnWire(i, req, wire[i])
  BY <1>1, <1>3 DEF Local, TransportOK, TransportPhases, OnWire
<1>13. Local(i, t, req, wire[i])
  <2>1. SocketOK(i, t, req) /\ TransportOK(i, t, req)
    BY <1>9 DEF SocketOK, TransportOK
  <2>2. OrderOK(i, t, req) /\ WireOK(i, t, req, wire[i]) /\ StreamsOK(i, t, req)
    BY <1>3, <1>9, <1>12, ZenonT(40) DEF Local, OrderOK, WireOK, StreamsOK
  <2> QED
    BY <1>11, <2>1, <2>2 DEF Local
<1>14. /\ n.phase = "send" /\ n.slot = i /\ n.seq = req[r].seq /\ n.stale = req[r].stale
       /\ n.reused = req[r].reused /\ n.used = req[r].used /\ n.status = req[r].status
  BY <1>3, GotoFields
<1> HIDE DEF n, s
<1>15. FlagsOK(n) /\ Moves(t, req[r], n)
  BY <1>2, <1>4, <1>9, <1>14 DEF FlagsOK, Moves, Pending
<1> QED
  BY <1>1, <1>2, <1>10, <1>13, <1>15, StayFrom

\* EnsureSocketConnected frees a dead transport: what was on its wire is lost.
LEMMA CloseTransportResourcesJ ==
    ASSUME IInv, JInv, NEW r \in Requests, CloseTransportResources(r)
    PROVE  JInv'
<1> DEFINE i == req[r].slot
           s == pool.slots[i]
           t == [s EXCEPT !.opened = FALSE, !.alive = FALSE, !.http2 = FALSE]
           stale(q) == req[q].stale \/ (UsesTransport(q, i) /\ Conn(r).opened)
           rq2 == req'
<1>1. /\ req[r].phase = "open" /\ pool' = CloseTransport(pool, i)
      /\ wire' = [wire EXCEPT ![i] = <<>>]
      /\ req' = [q \in Requests |-> IF q = r THEN [req[r] EXCEPT !.phase = "connect"]
                                    ELSE [req[q] EXCEPT !.stale = stale(q)]]
  BY DEF CloseTransportResources, At
<1>2. req[r].phase \notin Unheld
  BY <1>1 DEF Unheld
<1>3. /\ i \in Slots /\ pool \in PoolRecords /\ s \in SlotRecords /\ HeldOK(s)
      /\ Local(i, s, req, wire[i]) /\ s.kind = req[r].job.key.kind
      /\ req[r] \in RequestRecords /\ FlagsOK(req[r])
  BY <1>2, HolderLocal
<1>4. s.kind = "Tcp"
  BY <1>1, <1>3 DEF IInv, ReqOK, Unheld, QuicPhases
<1>5. t \in SlotRecords
  BY <1>3 DEF SlotRecords
<1>u. pool' = Update(pool, i, t)
  BY <1>1 DEF CloseTransport
<1>6. /\ ~t.opened /\ ~t.alive /\ t.kind = s.kind /\ t.inUse = s.inUse /\ t.keepAlive = s.keepAlive
      /\ t.h2Leases = s.h2Leases /\ t.h1Leases = s.h1Leases
      /\ t.h3Leases = s.h3Leases /\ t.h3Max = s.h3Max /\ t.sendSeq = s.sendSeq
      /\ t.recvSeq = s.recvSeq /\ t.broken = s.broken /\ t.buffered = s.buffered
      /\ t.closeWhenIdle = s.closeWhenIdle
  BY <1>3 DEF SlotRecords
<1> HIDE DEF t
<1>7. pool'.slots[i] = t /\ \A j \in Slots : j # i => pool'.slots[j] = pool.slots[j]
  BY <1>3, <1>5, <1>u, UpdateFields
<1>8. ASSUME NEW q \in Requests, q # r
      PROVE  /\ rq2[q].slot = req[q].slot /\ rq2[q].phase = req[q].phase /\ rq2[q].seq = req[q].seq
             /\ rq2[q].used = req[q].used /\ rq2[q].reused = req[q].reused
             /\ rq2[q].stale = stale(q)
             /\ req[q].slot # i => rq2[q] = req[q]
  <2>1. rq2[q] = [req[q] EXCEPT !.stale = stale(q)] /\ req[q] \in RequestRecords
    BY <1>1, <1>8 DEF IInv
  <2>2. req[q].slot # i => stale(q) = req[q].stale
    BY <2>1 DEF UsesTransport, RequestRecords
  <2> HIDE DEF stale, rq2
  <2>3. req[q].slot # i => rq2[q] = req[q]
    BY <2>1, <2>2 DEF RequestRecords
  <2> QED
    BY <2>1, <2>3 DEF RequestRecords
<1>9. rq2[r] = [req[r] EXCEPT !.phase = "connect"]
  BY <1>1
<1>10. rq2[r].phase = "connect" /\ rq2[r].slot = i /\ rq2[r].used = req[r].used
  BY <1>3, <1>9, GotoFields
<1>s. \A q \in Requests : stale(q) <=>
         req[q].stale \/ (req[q].slot = i /\ req[q].phase \in TransportPhases /\ s.opened)
  BY DEF UsesTransport, TransportPhases, Conn
<1>e. rq2 = req'
  OBVIOUS
<1> HIDE DEF stale, rq2
<1>11. Tidy(t)
  BY <1>3, <1>6 DEF Local, Tidy, HeldOK
<1>12. SocketOK(i, t, rq2)
  BY <1>10 DEF SocketOK, Pending
<1>13. TransportOK(i, t, rq2)
  BY <1>3, <1>8, <1>10, <1>s DEF Local, TransportOK, TransportPhases
<1>14. OrderOK(i, t, rq2)
  <2>1. \A q \in Requests : rq2[q].phase \in Numbered =>
           rq2[q].slot = req[q].slot /\ rq2[q].phase = req[q].phase /\ rq2[q].seq = req[q].seq
    BY <1>8, <1>10 DEF Numbered
  <2>2. OrderOK(i, s, req)
    BY <1>3 DEF Local
  <2>3. t.h1Leases = s.h1Leases /\ t.recvSeq = s.recvSeq /\ t.sendSeq = s.sendSeq
    BY <1>6
  <2> HIDE DEF i, s
  <2> QED
    BY <2>1, <2>2, <2>3 DEF OrderOK
<1>15. WireOK(i, t, rq2, <<>>)
  BY <1>6 DEF WireOK, InOrder
<1>16. StreamsOK(i, t, rq2)
  BY <1>4, <1>6 DEF StreamsOK
<1>17. Local(i, t, rq2, <<>>)
  BY <1>11, <1>12, <1>13, <1>14, <1>15, <1>16 DEF Local
<1>18. wire'[i] = <<>> /\ \A j \in Slots : j # i => wire'[j] = wire[j]
  BY <1>1, <1>3 DEF IInv
<1>19. \A x \in Requests : FlagsOK(rq2[x])
  <2> TAKE x \in Requests
  <2>1. CASE x = r
    BY <1>10, <2>1 DEF FlagsOK
  <2>2. CASE x # r
    BY <1>8, <2>2 DEF FlagsOK, JInv
  <2> QED
    BY <2>1, <2>2
<1>20. \A x \in Requests : req'[x] = req[x] \/ (req[x].slot = i /\ req'[x].slot = i)
  BY <1>8, <1>10, <1>e
<1> QED
  BY <1>3, <1>7, <1>17, <1>18, <1>19, <1>20, <1>e, LocalStep

----------------------------------------
(* The pipeline *)

\* What a request on a pipelined connection knows of it.
LEMMA PipelineHolder ==
    ASSUME IInv, JInv, NEW r \in Requests,
           req[r].phase \in Numbered \cup {"pipe_begin"}
    PROVE  LET i == req[r].slot
               s == pool.slots[i]
           IN  /\ i \in Slots /\ pool \in PoolRecords /\ s \in SlotRecords /\ s.kind = "Tcp"
               /\ req[r].phase \notin Unheld /\ HeldOK(s) /\ Local(i, s, req, wire[i])
               /\ wire[i] \in Seq(Requests) /\ req[r] \in RequestRecords /\ FlagsOK(req[r])
BY TcpHolder, HolderLocal DEF Numbered, TcpPhases, Phases, Unheld, QuicPhases

\* One request of a slot changes, and the slot and its wire with it.
LEMMA OneLocal ==
    ASSUME IInv, JInv, NEW r \in Requests, NEW i \in Slots, req[r].slot = i, NEW n, n.slot = i,
           FlagsOK(n), req' = [req EXCEPT ![r] = n], NEW t, pool'.slots[i] = t, NEW v, wire'[i] = v,
           \A j \in Slots : j # i => pool'.slots[j] = pool.slots[j] /\ wire'[j] = wire[j],
           \A rq2 : Changed(req, rq2, r, n) => Local(i, t, rq2, v)
    PROVE  JInv'
<1> DEFINE rq2 == req'
<1>1. Changed(req, rq2, r, n)
  BY DEF IInv, Changed
<1>2. rq2 = req'
  OBVIOUS
<1> HIDE DEF rq2
<1>3. Local(i, t, rq2, v)
  BY <1>1
<1>4. Local(i, pool'.slots[i], req', wire'[i])
  BY <1>2, <1>3
<1>5. \A x \in Requests : \/ req'[x] = req[x]
                          \/ /\ req[x].slot \in {0, i} /\ req'[x].slot \in {0, i}
                             /\ FlagsOK(req'[x])
  BY <1>1, <1>2 DEF Changed
<1> QED
  BY <1>4, <1>5, LocalStep

\* A sequence number is given out, under the send lock.
LEMMA PipelineBeginJ ==
    ASSUME IInv, JInv, NEW r \in Requests, PipelineBegin(r)
    PROVE  JInv'
<1> DEFINE i == req[r].slot
           s == pool.slots[i]
           n == [req[r] EXCEPT !.phase = "pipe_sending", !.seq = s.sendSeq]
           m == s.sendSeq + 1
           t == [s EXCEPT !.sendSeq = m]
<1>1. /\ req[r].phase = "pipe_begin" /\ wire' = wire
      /\ \A q \in Requests : ~(req[q].phase = "pipe_sending" /\ req[q].slot = i)
      /\ \/ CanBeginPipelineSend(s) /\ pool' = BeginPipelineSend(pool, i) /\ Become(r, n)
         \/ Done(r, "error") /\ UNCHANGED pool
  BY DEF PipelineBegin, At, Conn, SendLockFree
<1>2. /\ i \in Slots /\ pool \in PoolRecords /\ s \in SlotRecords /\ s.kind = "Tcp"
      /\ req[r].phase \notin Unheld /\ Local(i, s, req, wire[i]) /\ wire[i] \in Seq(Requests)
      /\ req[r] \in RequestRecords /\ FlagsOK(req[r])
  BY <1>1, PipelineHolder
<1>3. CASE Done(r, "error") /\ UNCHANGED pool
  BY <1>1, <1>2, <1>3, AlikePool, DoneLocal DEF Unanswered
<1>4. CASE CanBeginPipelineSend(s) /\ pool' = BeginPipelineSend(pool, i) /\ Become(r, n)
  <2>1. /\ n.phase = "pipe_sending" /\ n.slot = i /\ n.seq = s.sendSeq /\ n.stale = req[r].stale
        /\ n.reused = req[r].reused /\ n.used = req[r].used
    BY <1>2 DEF RequestRecords
  <2>m. m \in Nat /\ m = s.sendSeq + 1
    BY <1>2 DEF SlotRecords
  <2>4. pool' = Update(pool, i, t) /\ req' = [req EXCEPT ![r] = n]
    BY <1>4 DEF BeginPipelineSend, Become
  <2> HIDE DEF m
  <2>2. t \in SlotRecords
    BY <1>2, <2>m DEF SlotRecords
  <2>3. /\ t.sendSeq = m /\ t.kind = s.kind /\ t.inUse = s.inUse
        /\ t.keepAlive = s.keepAlive /\ t.opened = s.opened /\ t.alive = s.alive
        /\ t.h2Leases = s.h2Leases /\ t.h1Leases = s.h1Leases /\ t.h3Leases = s.h3Leases
        /\ t.h3Max = s.h3Max /\ t.recvSeq = s.recvSeq /\ t.broken = s.broken
        /\ t.buffered = s.buffered /\ t.closeWhenIdle = s.closeWhenIdle
        /\ s.sendSeq \in Nat /\ s.recvSeq \in Nat /\ \A x \in Requests : req[x].seq \in Nat
    BY <1>2 DEF SlotRecords, IInv, RequestRecords
  <2>5. s.h1Leases # 0 /\ ~s.closeWhenIdle
    BY <1>4 DEF CanBeginPipelineSend
  <2> HIDE DEF n, t, s
  <2>6. pool'.slots[i] = t /\ \A j \in Slots : j # i => pool'.slots[j] = pool.slots[j]
    BY <1>2, <2>2, <2>4, UpdateFields
  <2>7. ASSUME NEW rq2, Changed(req, rq2, r, n) PROVE Local(i, t, rq2, wire[i])
    <3> DEFINE u == wire[i]
    <3>1. rq2[r] = n /\ \A x \in Requests : x # r => rq2[x] = req[x]
      BY <2>7 DEF Changed
    <3>0. Local(i, s, req, u) /\ \A k \in 1..Len(u) : u[k] \in Requests
      BY <1>2
    <3> HIDE DEF u
    <3>2. Tidy(t)
      BY <3>0, <2>m, <2>3 DEF Local, Tidy
    <3>3. SocketOK(i, t, rq2)
      BY <2>1, <3>1 DEF SocketOK, Pending
    <3>4. TransportOK(i, t, rq2)
      BY <1>1, <2>1, <2>3, <3>0, <3>1 DEF Local, TransportOK, TransportPhases
    <3>5. OrderOK(i, t, rq2)
      BY <3>0, <1>1, <2>1, <2>m, <2>3, <2>5, <3>1 DEF Local, Tidy, OrderOK
    <3>6. InOrder(i, rq2, u)
      BY <1>1, <2>5, <3>0, <3>1 DEF Local, WireOK, InOrder, Unanswered
    <3>7. s.alive => OnWire(i, rq2, u)
      BY <2>1, <3>0, <3>1 DEF Local, WireOK, OnWire
    <3>8. WireOK(i, t, rq2, u)
      BY <1>2, <2>3, <2>5, <3>6, <3>7 DEF WireOK
    <3>9. StreamsOK(i, t, rq2)
      BY <1>2, <2>3 DEF StreamsOK
    <3> QED
      BY <3>2, <3>3, <3>4, <3>5, <3>8, <3>9 DEF Local, u
  <2>8. FlagsOK(n)
    BY <2>1 DEF FlagsOK
  <2> QED
    BY <1>1, <1>2, <2>1, <2>4, <2>6, <2>7, <2>8, OneLocal
<1> QED
  BY <1>1, <1>3, <1>4

\* The request is on the wire, behind those with smaller numbers.
LEMMA PipelineSendJ ==
    ASSUME IInv, JInv, NEW r \in Requests, PipelineSend(r)
    PROVE  JInv'
<1> DEFINE i == req[r].slot
           s == pool.slots[i]
           n == [req[r] EXCEPT !.phase = "pipe_wait"]
           u == wire[i]
           v == Append(u, r)
<1>1. /\ req[r].phase = "pipe_sending" /\ wire' = [wire EXCEPT ![i] = v] /\ s.alive
      /\ req' = [req EXCEPT ![r] = n] /\ pool' = pool
  BY DEF PipelineSend, At, CanTransfer, Conn, Goto, Become
<1>2. /\ i \in Slots /\ pool \in PoolRecords /\ s \in SlotRecords /\ s.kind = "Tcp"
      /\ req[r].phase \notin Unheld /\ Local(i, s, req, u) /\ u \in Seq(Requests)
      /\ req[r] \in RequestRecords /\ FlagsOK(req[r])
  BY <1>1, PipelineHolder DEF Numbered
<1>3. wire'[i] = v /\ \A j \in Slots : j # i => wire'[j] = wire[j]
  BY <1>1, <1>2 DEF IInv
<1>4. /\ n.phase = "pipe_wait" /\ n.slot = i /\ n.seq = req[r].seq /\ n.stale = req[r].stale
      /\ n.reused = req[r].reused /\ n.used = req[r].used /\ n.status = req[r].status
  BY <1>2, GotoFields
<1>5. /\ Len(v) = Len(u) + 1 /\ v[Len(u) + 1] = r /\ \A k \in 1..Len(u) : v[k] = u[k]
      /\ Len(u) \in Nat /\ \A k \in 1..Len(u) : u[k] \in Requests
  BY <1>2
<1>6. s.sendSeq \in Nat /\ \A x \in Requests : req[x].seq \in Nat
  BY <1>2 DEF SlotRecords, IInv, RequestRecords
<1> HIDE DEF n, s, u, v
<1>7. ASSUME NEW rq2, Changed(req, rq2, r, n) PROVE Local(i, s, rq2, v)
  <2>1. rq2[r] = n /\ \A x \in Requests : x # r => rq2[x] = req[x]
    BY <1>7 DEF Changed
  <2>2. Tidy(s) /\ SocketOK(i, s, rq2) /\ StreamsOK(i, s, rq2)
    BY <1>1, <1>2 DEF Local, SocketOK, StreamsOK
  <2>3. TransportOK(i, s, rq2)
    BY <1>1, <1>2, <1>4, <2>1 DEF Local, TransportOK, TransportPhases
  <2>4. OrderOK(i, s, rq2)
    BY <1>1, <1>2, <1>4, <2>1 DEF Local, OrderOK, Numbered
  <2>5. s.h1Leases # 0
    BY <1>1, <1>2 DEF Local, OrderOK, Numbered
  <2>6. ASSUME ~s.closeWhenIdle PROVE InOrder(i, rq2, v)
    <3>1. InOrder(i, req, u)
      BY <1>2, <2>6 DEF Local, WireOK
    <3>2. \A k \in 1..Len(u) : u[k] # r /\ rq2[u[k]] = req[u[k]]
      BY <1>1, <1>5, <2>1, <3>1 DEF InOrder, Unanswered
    <3>3. \A k \in 1..Len(u) : req[u[k]].seq < req[r].seq
      <4> TAKE k \in 1..Len(u)
      <4>1. /\ u[k] \in Requests /\ u[k] # r /\ req[u[k]].slot = i
            /\ req[u[k]].phase \in Numbered
        BY <1>5, <3>1, <3>2 DEF InOrder, Unanswered, Numbered
      <4>2. /\ req[u[k]].seq < s.sendSeq /\ req[r].seq = s.sendSeq - 1
            /\ req[u[k]].seq # req[r].seq
        BY <1>1, <1>2, <4>1 DEF Local, OrderOK, Numbered
      <4> QED
        BY <1>6, <4>1, <4>2
    <3>4. ASSUME NEW k \in 1..Len(v)
          PROVE  /\ rq2[v[k]].slot = i /\ rq2[v[k]].phase \in Unanswered
                 /\ \A l \in 1..Len(v) : k < l => rq2[v[k]].seq < rq2[v[l]].seq
      <4>1. CASE k \in 1..Len(u)
        <5>1. rq2[v[k]].slot = i /\ rq2[v[k]].phase \in Unanswered
          BY <1>5, <3>1, <3>2, <4>1 DEF InOrder
        <5>2. ASSUME NEW l \in 1..Len(v), k < l PROVE rq2[v[k]].seq < rq2[v[l]].seq
          BY <1>5, <3>1, <3>2, <4>1, <5>2, <1>4, <2>1, <3>3 DEF InOrder
        <5> QED
          BY <5>1, <5>2
      <4>2. CASE k = Len(u) + 1
        BY <1>4, <1>5, <2>1, <4>2 DEF Unanswered
      <4> QED
        BY <1>5, <3>4, <4>1, <4>2
    <3> QED
      BY <3>4 DEF InOrder
  <2>7. OnWire(i, rq2, v)
    <3>1. OnWire(i, req, u)
      BY <1>1, <1>2 DEF Local, WireOK
    <3> SUFFICES ASSUME NEW x \in Requests, rq2[x].slot = i, ~rq2[x].stale
                 PROVE  /\ rq2[x].phase = "pipe_wait" => \E k \in 1..Len(v) : v[k] = x
                        /\ rq2[x].phase = "pipe_recv" => v # <<>> /\ v[1] = x
      BY DEF OnWire
    <3>2. CASE x = r
      BY <1>4, <1>5, <2>1, <3>2
    <3>3. CASE x # r
      <4>1. rq2[x] = req[x]
        BY <2>1, <3>3
      <4>2. req[x].phase = "pipe_wait" => \E k \in 1..Len(v) : v[k] = x
        BY <1>5, <3>1, <4>1 DEF OnWire
      <4>3. req[x].phase = "pipe_recv" => v # <<>> /\ v[1] = x
        <5> SUFFICES ASSUME req[x].phase = "pipe_recv" PROVE v # <<>> /\ v[1] = x
          OBVIOUS
        <5>1. u # <<>> /\ u[1] = x
          BY <3>1, <4>1 DEF OnWire
        <5>2. Len(u) >= 1
          BY <1>2, <5>1
        <5> QED
          BY <1>5, <5>1, <5>2
      <4> QED
        BY <4>1, <4>2, <4>3
    <3> QED
      BY <3>2, <3>3
  <2>8. WireOK(i, s, rq2, v)
    BY <1>2, <2>5, <2>6, <2>7 DEF WireOK
  <2> QED
    BY <2>2, <2>3, <2>4, <2>8 DEF Local
<1>8. FlagsOK(n)
  BY <1>4 DEF FlagsOK
<1>9. /\ pool'.slots[i] = s
      /\ \A j \in Slots : j # i => pool'.slots[j] = pool.slots[j] /\ wire'[j] = wire[j]
  BY <1>1, <1>3 DEF s
<1> HIDE DEF i
<1>10. \A rq2 : Changed(req, rq2, r, n) => Local(i, s, rq2, v)
  BY <1>7
<1> QED
  BY <1>1, <1>2, <1>3, <1>4, <1>8, <1>9, <1>10, OneLocal, ZenonT(40) DEF i

\* The turn comes: its number is the smallest, so the request is at the head.
LEMMA PipelineTurnJ ==
    ASSUME IInv, JInv, NEW r \in Requests, PipelineTurn(r)
    PROVE  JInv'
<1> DEFINE i == req[r].slot
           s == pool.slots[i]
           n == [req[r] EXCEPT !.phase = "pipe_recv"]
           u == wire[i]
           t == pool'.slots[i]
<1>1. /\ req[r].phase = "pipe_wait" /\ wire' = wire
      /\ \/ PipelineFailed(s) /\ Done(r, "error") /\ UNCHANGED pool
         \/ /\ IsReceiveTurn(s, req[r].seq) /\ req' = [req EXCEPT ![r] = n]
            /\ pool' = TakeBuffered(pool, i)
  BY DEF PipelineTurn, At, Conn, Goto, Become
<1>2. /\ i \in Slots /\ pool \in PoolRecords /\ s \in SlotRecords /\ s.kind = "Tcp"
      /\ req[r].phase \notin Unheld /\ Local(i, s, req, u) /\ u \in Seq(Requests)
      /\ req[r] \in RequestRecords /\ FlagsOK(req[r])
  BY <1>1, PipelineHolder DEF Numbered
<1>3. CASE PipelineFailed(s) /\ Done(r, "error") /\ UNCHANGED pool
  BY <1>1, <1>2, <1>3, AlikePool, DoneLocal DEF PipelineFailed, Local, Tidy, OrderOK, Numbered
<1>4. CASE /\ IsReceiveTurn(s, req[r].seq) /\ req' = [req EXCEPT ![r] = n]
           /\ pool' = TakeBuffered(pool, i)
  <2>1. /\ n.phase = "pipe_recv" /\ n.slot = i /\ n.seq = req[r].seq /\ n.stale = req[r].stale
        /\ n.reused = req[r].reused /\ n.used = req[r].used /\ n.status = req[r].status
    BY <1>2, GotoFields
  <2>2. Alike(s, t) /\ \A j \in Slots : j # i => pool'.slots[j] = pool.slots[j]
    BY <1>2, <1>4, AlikeUpdates
  <2>3. Local(i, t, req, u) /\ t.kind = "Tcp" /\ t.recvSeq = s.recvSeq
    BY <1>2, <2>2, AlikeLocal, ZenonT(40) DEF Alike
  <2>4. ~s.closeWhenIdle /\ s.recvSeq = req[r].seq
    BY <1>4 DEF IsReceiveTurn, PipelineFailed
  <2>5. /\ Len(u) \in Nat /\ \A k \in 1..Len(u) : u[k] \in Requests
        /\ s.recvSeq \in Nat /\ \A x \in Requests : req[x].seq \in Nat
    BY <1>2 DEF SlotRecords, IInv, RequestRecords
  <2>t. t = pool'.slots[i]
    OBVIOUS
  <2>u. wire'[i] = u /\ \A j \in Slots : wire'[j] = wire[j]
    BY <1>1
  <2>s. s = pool.slots[i]
    OBVIOUS
  <2> HIDE DEF n, s, t, u
  <2>6. ASSUME NEW rq2, Changed(req, rq2, r, n) PROVE Local(i, t, rq2, u)
    <3>1. rq2[r] = n /\ \A x \in Requests : x # r => rq2[x] = req[x]
      BY <2>6 DEF Changed
    <3>2. Tidy(t) /\ SocketOK(i, t, rq2) /\ StreamsOK(i, t, rq2)
      BY <1>1, <2>1, <2>3, <3>1 DEF Local, SocketOK, StreamsOK, Pending
    <3>3. TransportOK(i, t, rq2)
      BY <1>1, <2>1, <2>3, <3>1 DEF Local, TransportOK, TransportPhases
    <3>4. OrderOK(i, t, rq2)
      BY <1>1, <2>1, <2>3, <2>4, <3>1 DEF Local, OrderOK, Numbered
    <3>5. InOrder(i, req, u) => InOrder(i, rq2, u)
      BY <2>1, <2>5, <3>1 DEF InOrder, Unanswered
    <3>6. ASSUME t.alive, ~req[r].stale PROVE u # <<>> /\ u[1] = r
      <4>1. PICK k \in 1..Len(u) : u[k] = r
        BY <1>1, <2>3, <3>6 DEF Local, WireOK, OnWire
      <4>2. InOrder(i, req, u)
        BY <1>2, <2>4 DEF Local, WireOK
      <4>3. 1 \in 1..Len(u)
        BY <2>5, <4>1
      <4>4. u[1] \in Requests /\ req[u[1]].slot = i /\ req[u[1]].phase \in Numbered
        BY <2>5, <4>2, <4>3 DEF InOrder, Unanswered, Numbered
      <4>5. s.recvSeq <= req[u[1]].seq
        BY <1>2, <4>4 DEF Local, OrderOK
      <4>6. 1 < k => req[u[1]].seq < req[u[k]].seq
        BY <4>2, <4>3, <4>1 DEF InOrder
      <4>7. k = 1
        BY <2>4, <2>5, <4>1, <4>4, <4>5, <4>6
      <4> QED
        BY <1>2, <4>1, <4>3, <4>7 DEF u
    <3>7. t.alive => OnWire(i, rq2, u)
      BY <2>3, <2>1, <3>1, <3>6 DEF Local, WireOK, OnWire
    <3>8. WireOK(i, t, rq2, u)
      BY <2>3, <3>5, <3>7 DEF Local, WireOK
    <3> QED
      BY <3>2, <3>3, <3>4, <3>8 DEF Local
  <2>7. FlagsOK(n)
    BY <2>1 DEF FlagsOK
  <2> HIDE DEF i
  <2>8. \A rq2 : Changed(req, rq2, r, n) => Local(i, t, rq2, u)
    BY <2>6
  <2> QED
    BY <1>2, <1>4, <2>1, <2>2, <2>7, <2>8, <2>t, <2>u, OneLocal, ZenonT(40) DEF i, n
<1> QED
  BY <1>1, <1>3, <1>4

\* A pipeline fails: its connection is marked.
LEMMA FailPipelineMarks ==
    ASSUME IInv, JInv, NEW r \in Requests, req[r].phase \in Numbered,
           pool' = FailPipeline(pool, req[r].slot)
    PROVE  pool'.slots[req[r].slot].closeWhenIdle
<1> DEFINE i == req[r].slot
           s == pool.slots[i]
           w == [s EXCEPT !.closeWhenIdle = TRUE, !.broken = TRUE]
<1>1. i \in Slots /\ pool \in PoolRecords /\ s \in SlotRecords /\ Local(i, s, req, wire[i])
  BY PipelineHolder
<1>2. s.h1Leases # 0
  BY <1>1 DEF Local, OrderOK
<1>3. w \in SlotRecords /\ w.closeWhenIdle
  BY <1>1 DEF SlotRecords
<1>4. pool' = Update(pool, i, w)
  BY <1>2 DEF FailPipeline
<1> HIDE DEF w
<1> QED
  BY <1>1, <1>3, <1>4, UpdateFields

\* The response at the head of the wire is read: it is the request's own.
LEMMA PipelineReceiveJ ==
    ASSUME IInv, JInv, NEW r \in Requests, PipelineReceive(r)
    PROVE  JInv'
<1> DEFINE i == req[r].slot
           s == pool.slots[i]
           u == wire[i]
           v == Tail(u)
           t == pool'.slots[i]
<1>1. /\ req[r].phase = "pipe_recv" /\ s.alive /\ ~req[r].stale /\ u # <<>>
      /\ wire' = [wire EXCEPT ![i] = v]
      /\ \/ pool' = pool /\ Goto(r, "pipe_end")
         \/ CanStoreBuffered(s) /\ pool' = StoreBuffered(pool, i) /\ Goto(r, "pipe_end")
         \/ pool' = FailPipeline(pool, i) /\ Goto(r, "pipe_fail")
  BY DEF PipelineReceive, At, CanTransfer, Conn
<1>2. /\ i \in Slots /\ pool \in PoolRecords /\ s \in SlotRecords /\ s.kind = "Tcp"
      /\ req[r].phase \notin Unheld /\ Local(i, s, req, u) /\ u \in Seq(Requests)
      /\ req[r] \in RequestRecords /\ FlagsOK(req[r])
  BY <1>1, PipelineHolder DEF Numbered
<1>3. wire'[i] = v /\ \A j \in Slots : j # i => wire'[j] = wire[j]
  BY <1>1, <1>2 DEF IInv
<1>4. s.h1Leases # 0
  BY <1>1, <1>2 DEF Local, OrderOK, Numbered
<1>5. Alike(s, t) /\ \A j \in Slots : j # i => pool'.slots[j] = pool.slots[j]
  BY <1>1, <1>2, <1>4, AlikeUpdates DEF CanStoreBuffered
<1>6. Local(i, t, req, u) /\ t.kind = "Tcp" /\ t.h1Leases # 0 /\ t.alive
      /\ (~t.closeWhenIdle => ~s.closeWhenIdle)
  <2>1. Local(i, t, req, u)
    BY <1>2, <1>5, AlikeLocal
  <2> HIDE DEF s, t
  <2> QED
    BY <1>1, <1>2, <1>4, <1>5, <2>1 DEF Alike
<1>7. PICK x \in {"pipe_end", "pipe_fail"} : Goto(r, x)
  BY <1>1
<1>8. x = "pipe_fail" => t.closeWhenIdle
  <2> SUFFICES ASSUME x = "pipe_fail" PROVE t.closeWhenIdle
    OBVIOUS
  <2>1. Goto(r, "pipe_end") => FALSE
    BY <1>2, <1>7 DEF Goto, Become, RequestRecords, IInv
  <2>2. pool' = FailPipeline(pool, i)
    BY <1>1, <2>1
  <2> QED
    BY <1>1, <2>2, FailPipelineMarks DEF Numbered
<1> DEFINE n == [req[r] EXCEPT !.phase = x]
<1>9. /\ n.phase = x /\ n.slot = i /\ n.seq = req[r].seq /\ n.stale = req[r].stale
      /\ n.reused = req[r].reused /\ n.used = req[r].used /\ n.status = req[r].status
  BY <1>2, GotoFields
<1>10. req' = [req EXCEPT ![r] = n]
  BY <1>7 DEF Goto, Become
<1>11. /\ Len(u) \in Nat /\ Len(u) >= 1 /\ \A k \in 1..Len(u) : u[k] \in Requests
       /\ Len(v) = Len(u) - 1 /\ \A k \in 1..Len(v) : v[k] = u[k + 1]
       /\ s.recvSeq \in Nat /\ \A y \in Requests : req[y].seq \in Nat
  BY <1>1, <1>2, SMTT(30) DEF SlotRecords, IInv, RequestRecords
<1>12. u[1] = r
  BY <1>1, <1>2 DEF Local, WireOK, OnWire
<1>t. t = pool'.slots[i]
  OBVIOUS
<1> HIDE DEF n, s, t, u, v
<1>13. ASSUME NEW rq2, Changed(req, rq2, r, n) PROVE Local(i, t, rq2, v)
  <2>1. rq2[r] = n /\ \A y \in Requests : y # r => rq2[y] = req[y]
    BY <1>13 DEF Changed
  <2>2. Tidy(t) /\ SocketOK(i, t, rq2) /\ StreamsOK(i, t, rq2)
    BY <1>6 DEF Local, SocketOK, StreamsOK
  <2>3. TransportOK(i, t, rq2)
    BY <1>6, <1>9, <2>1 DEF Local, TransportOK, TransportPhases
  <2>4. OrderOK(i, t, rq2)
    BY <1>1, <1>6, <1>9, <2>1 DEF Local, OrderOK, Numbered
  <2>5. ASSUME ~t.closeWhenIdle PROVE InOrder(i, rq2, v)
    <3>1. InOrder(i, req, u)
      BY <1>2, <1>6, <2>5 DEF Local, WireOK
    <3>2. ASSUME NEW k \in 1..Len(v)
          PROVE  k + 1 \in 1..Len(u) /\ v[k] = u[k + 1] /\ rq2[v[k]] = req[u[k + 1]]
      <4>1. k + 1 \in 1..Len(u) /\ 1 \in 1..Len(u) /\ 1 < k + 1 /\ v[k] = u[k + 1]
        BY <1>11
      <4>2. req[u[1]].seq < req[u[k + 1]].seq
        BY <3>1, <4>1 DEF InOrder
      <4>3. u[k + 1] # r /\ u[k + 1] \in Requests
        BY <1>11, <1>12, <4>1, <4>2
      <4> QED
        BY <2>1, <4>1, <4>3
    <3>3. \A k \in 1..Len(v), l \in 1..Len(v) : k < l => k + 1 < l + 1
      BY <1>11
    <3> QED
      BY <3>1, <3>2, <3>3 DEF InOrder
  <2>6. OnWire(i, rq2, v)
    <3>1. OnWire(i, req, u)
      BY <1>6 DEF Local, WireOK
    <3> SUFFICES ASSUME NEW y \in Requests, rq2[y].slot = i, ~rq2[y].stale
                 PROVE  /\ rq2[y].phase = "pipe_wait" => \E k \in 1..Len(v) : v[k] = y
                        /\ rq2[y].phase = "pipe_recv" => v # <<>> /\ v[1] = y
      BY DEF OnWire
    <3>2. CASE y = r
      BY <1>9, <2>1, <3>2
    <3>3. CASE y # r
      <4>1. rq2[y] = req[y]
        BY <2>1, <3>3
      <4>2. req[y].phase # "pipe_recv"
        BY <1>12, <3>1, <3>3, <4>1 DEF OnWire
      <4>3. ASSUME req[y].phase = "pipe_wait" PROVE \E k \in 1..Len(v) : v[k] = y
        <5>1. PICK k \in 1..Len(u) : u[k] = y
          BY <3>1, <4>1, <4>3 DEF OnWire
        <5>2. k - 1 \in 1..Len(v) /\ (k - 1) + 1 = k
          BY <1>11, <1>12, <3>3, <5>1
        <5>3. v[k - 1] = y
          BY <1>11, <5>1, <5>2
        <5> QED
          BY <5>2, <5>3
      <4> QED
        BY <4>1, <4>2, <4>3
    <3> QED
      BY <3>2, <3>3
  <2>7. WireOK(i, t, rq2, v)
    BY <1>6, <2>5, <2>6 DEF WireOK
  <2> QED
    BY <2>2, <2>3, <2>4, <2>7 DEF Local
<1>14. FlagsOK(n)
  BY <1>9 DEF FlagsOK
<1> HIDE DEF i
<1>15. \A rq2 : Changed(req, rq2, r, n) => Local(i, t, rq2, v)
  BY <1>13
<1> QED
  BY <1>2, <1>3, <1>5, <1>9, <1>10, <1>14, <1>15, <1>t, OneLocal, ZenonT(40) DEF i

\* ConnectionPoolFailHttp1Pipeline.
LEMMA PipelineFailJ ==
    ASSUME IInv, JInv, NEW r \in Requests, PipelineFail(r)
    PROVE  JInv'
BY PipelineHolder, FailPipelineMarks, AlikeUpdates, DoneLocal DEF PipelineFail, At, Numbered

\* The turn passes to the next number, or the pipeline ends with this response.
LEMMA PipelineCompleteJ ==
    ASSUME IInv, JInv, NEW r \in Requests, PipelineComplete(r)
    PROVE  JInv'
<1> DEFINE i == req[r].slot
           s == pool.slots[i]
           u == wire[i]
           n == [req[r] EXCEPT !.phase = "done", !.status = "ok"]
           m == s.recvSeq + 1
           t == [s EXCEPT !.recvSeq = m]
<1>1. /\ req[r].phase = "pipe_end" /\ wire' = wire
      /\ \/ pool' = CompletePipelineReceive(pool, i, req[r].seq) /\ Done(r, "ok")
         \/ pool' = FailPipeline(pool, i) /\ Done(r, "close")
  BY DEF PipelineComplete, At
<1>2. /\ i \in Slots /\ pool \in PoolRecords /\ s \in SlotRecords /\ s.kind = "Tcp"
      /\ req[r].phase \notin Unheld /\ Local(i, s, req, u) /\ u \in Seq(Requests)
      /\ req[r] \in RequestRecords /\ FlagsOK(req[r])
  BY <1>1, PipelineHolder DEF Numbered
<1>3. CASE pool' = FailPipeline(pool, i) /\ Done(r, "close")
  BY <1>1, <1>2, <1>3, AlikeUpdates, DoneLocal DEF Unanswered
<1>4. CASE pool' = CompletePipelineReceive(pool, i, req[r].seq) /\ Done(r, "ok")
  <2>1. /\ n.phase = "done" /\ n.slot = i /\ n.seq = req[r].seq /\ n.stale = req[r].stale
        /\ n.reused = req[r].reused /\ n.used = req[r].used /\ n.status = "ok"
    BY <1>2, DoneFields
  <2>2. s.h1Leases # 0 /\ s.recvSeq = req[r].seq /\ req[r].seq < s.sendSeq
    BY <1>1, <1>2 DEF Local, OrderOK, Numbered
  <2>3. pool' = Update(pool, i, t) /\ req' = [req EXCEPT ![r] = n]
    BY <1>4, <2>2 DEF CompletePipelineReceive, Done, Become
  <2>4. /\ m \in Nat /\ m = s.recvSeq + 1 /\ s.recvSeq \in Nat /\ s.sendSeq \in Nat
        /\ \A x \in Requests : req[x].seq \in Nat
        /\ \A k \in 1..Len(u) : u[k] \in Requests
    BY <1>2, SMTT(30) DEF SlotRecords, IInv, RequestRecords
  <2> HIDE DEF m
  <2>5. t \in SlotRecords
    BY <1>2, <2>4 DEF SlotRecords
  <2>6. /\ t.recvSeq = m /\ t.kind = s.kind /\ t.inUse = s.inUse
        /\ t.keepAlive = s.keepAlive /\ t.opened = s.opened /\ t.alive = s.alive
        /\ t.h2Leases = s.h2Leases /\ t.h1Leases = s.h1Leases /\ t.h3Leases = s.h3Leases
        /\ t.h3Max = s.h3Max /\ t.sendSeq = s.sendSeq /\ t.broken = s.broken
        /\ t.buffered = s.buffered /\ t.closeWhenIdle = s.closeWhenIdle
    BY <1>2 DEF SlotRecords
  <2> HIDE DEF n, t, s
  <2>7. pool'.slots[i] = t /\ \A j \in Slots : j # i => pool'.slots[j] = pool.slots[j]
    BY <1>2, <2>3, <2>5, UpdateFields
  <2>u. wire'[i] = u /\ \A j \in Slots : wire'[j] = wire[j]
    BY <1>1
  <2> HIDE DEF u
  <2>8. ASSUME NEW rq2, Changed(req, rq2, r, n) PROVE Local(i, t, rq2, u)
    <3>1. rq2[r] = n /\ \A x \in Requests : x # r => rq2[x] = req[x]
      BY <2>8 DEF Changed
    <3>2. Tidy(t)
      BY <1>2, <2>2, <2>4, <2>6 DEF Local, Tidy
    <3>3. SocketOK(i, t, rq2)
      BY <1>1, <1>2, <2>6, <3>1 DEF Local, SocketOK, Pending
    <3>4. TransportOK(i, t, rq2)
      BY <1>2, <2>1, <2>6, <3>1 DEF Local, TransportOK, TransportPhases
    <3>5. OrderOK(i, t, rq2)
      <4> SUFFICES ASSUME NEW x \in Requests, rq2[x].slot = i, rq2[x].phase \in Numbered
                   PROVE  /\ t.h1Leases # 0
                          /\ t.recvSeq <= rq2[x].seq /\ rq2[x].seq < t.sendSeq
                          /\ rq2[x].phase = "pipe_sending" => rq2[x].seq = t.sendSeq - 1
                          /\ rq2[x].phase \in {"pipe_recv", "pipe_end"} => rq2[x].seq = t.recvSeq
                          /\ \A y \in Requests :
                                y # x /\ rq2[y].phase \in Numbered /\ rq2[y].slot = i
                                    => rq2[y].seq # rq2[x].seq
        BY DEF OrderOK
      <4>1. x # r /\ rq2[x] = req[x] /\ "done" \notin Numbered
        BY <2>1, <3>1 DEF Numbered
      <4>2. req[x].seq # s.recvSeq
        BY <1>1, <1>2, <2>2, <4>1 DEF Local, OrderOK, Numbered
      <4>3. s.recvSeq <= req[x].seq /\ req[x].phase \notin {"pipe_recv", "pipe_end"}
        BY <1>2, <4>1, <4>2 DEF Local, OrderOK
      <4>4. m <= req[x].seq
        BY <2>4, <4>2, <4>3
      <4> QED
        BY <1>2, <2>1, <2>6, <3>1, <4>1, <4>3, <4>4 DEF Local, OrderOK
    <3>6. InOrder(i, req, u) => InOrder(i, rq2, u)
      BY <1>1, <2>4, <3>1 DEF InOrder, Unanswered
    <3>7. OnWire(i, req, u) => OnWire(i, rq2, u)
      BY <2>1, <3>1 DEF OnWire
    <3>8. WireOK(i, t, rq2, u)
      BY <1>2, <2>6, <3>6, <3>7 DEF Local, WireOK
    <3>9. StreamsOK(i, t, rq2)
      BY <1>2, <2>6 DEF StreamsOK
    <3> QED
      BY <3>2, <3>3, <3>4, <3>5, <3>8, <3>9 DEF Local
  <2>9. FlagsOK(n)
    BY <2>1 DEF FlagsOK
  <2> HIDE DEF i
  <2>10. \A rq2 : Changed(req, rq2, r, n) => Local(i, t, rq2, u)
    BY <2>8
  <2> QED
    BY <1>2, <2>1, <2>3, <2>7, <2>9, <2>10, <2>u, OneLocal, ZenonT(40) DEF i
<1> QED
  BY <1>1, <1>3, <1>4

----------------------------------------
(* QUIC: the handshake and the first stream *)

\* A request's stream is bound to a QUIC connection.
LEMMA BoundLocal ==
    ASSUME NEW i, NEW s, NEW t, NEW rq, NEW rq2, NEW u, Local(i, s, rq, u),
           NEW r \in Requests, NEW n, Changed(rq, rq2, r, n), n.slot = i, n.phase = "quic",
           s.kind = "Quic", t.kind = s.kind, t.opened = s.opened, t.alive = s.alive,
           t.h2Leases = s.h2Leases, t.h1Leases = s.h1Leases, t.sendSeq = s.sendSeq,
           t.recvSeq = s.recvSeq, t.broken = s.broken, t.closeWhenIdle = s.closeWhenIdle,
           t.h3Leases <= t.h3Max, t.h3Max <= MaxH3Streams, StreamsOK(i, t, rq2)
    PROVE  Local(i, t, rq2, u)
BY DEF Changed, Local, Tidy, SocketOK, TransportOK, TransportPhases, OrderOK, Numbered, WireOK,
   InOrder, OnWire

\* The lease of a shared connection was counted by the acquire; that of a new one
\* is counted when its first stream is bound, by the only request that holds it.
LEMMA BindStreamJ ==
    ASSUME IInv, JInv, NEW r \in Requests, BindStream(r)
    PROVE  JInv'
<1> DEFINE i == req[r].slot
           s == pool.slots[i]
           u == wire[i]
           n == [req[r] EXCEPT !.phase = "quic", !.used = TRUE]
           m == s.h3Leases + 1
           t1 == [s EXCEPT !.h3Max = MaxH3Streams]
           t2 == [s EXCEPT !.h3Max = MaxH3Streams, !.h3Leases = m, !.inUse = TRUE]
<1>1. /\ req[r].phase = "quic_bind" /\ wire' = wire /\ req' = [req EXCEPT ![r] = n]
      /\ \/ req[r].reused /\ CanBindHttp3(s) /\ pool' = Update(pool, i, t1)
         \/ ~req[r].reused /\ pool' = Update(pool, i, t2)
  BY DEF BindStream, At, Conn, Become, BindHttp3, PromoteHttp3
<1>2. req[r].phase \notin Unheld /\ req[r].phase \in QuicPhases
  BY <1>1 DEF Unheld, QuicPhases
<1>3. /\ i \in Slots /\ pool \in PoolRecords /\ s \in SlotRecords /\ SlotOK(s)
      /\ Local(i, s, req, u) /\ req[r] \in RequestRecords /\ FlagsOK(req[r]) /\ s.kind = "Quic"
  BY <1>2, HolderLocal, QuicHolder
<1>4. /\ n.phase = "quic" /\ n.slot = i /\ n.used /\ n.reused = req[r].reused /\ ~req[r].used
  BY <1>1, <1>3 DEF RequestRecords, FlagsOK
<1>5. FlagsOK(n)
  BY <1>4 DEF FlagsOK
<1>6. /\ s.h3Leases \in Nat /\ s.h3Max \in Nat /\ MaxH3Streams \in Nat \ {0}
      /\ s.h3Leases <= s.h3Max /\ m \in Nat /\ m = s.h3Leases + 1
  BY <1>3, PoolAssumption, SMTT(30) DEF SlotRecords, Local, Tidy
<1>7. /\ \A j \in Slots : wire'[j] = wire[j]
      /\ wire'[i] = u /\ s = pool.slots[i]
  BY <1>1
<1> HIDE DEF n, s, u, m
<1>8. CASE req[r].reused /\ CanBindHttp3(s) /\ pool' = Update(pool, i, t1)
  <2>1. t1 \in SlotRecords
    BY <1>3, <1>6 DEF SlotRecords
  <2>2. /\ t1.h3Max = MaxH3Streams /\ t1.h3Leases = s.h3Leases
        /\ t1.kind = s.kind /\ t1.opened = s.opened /\ t1.alive = s.alive
        /\ t1.h2Leases = s.h2Leases /\ t1.h1Leases = s.h1Leases /\ t1.sendSeq = s.sendSeq
        /\ t1.recvSeq = s.recvSeq /\ t1.broken = s.broken
        /\ t1.closeWhenIdle = s.closeWhenIdle
    BY <1>3 DEF SlotRecords
  <2>3. s.h3Leases # 0 /\ s.h3Leases <= MaxH3Streams
    BY <1>8 DEF CanBindHttp3
  <2> HIDE DEF t1
  <2>4. pool'.slots[i] = t1 /\ \A j \in Slots : j # i => pool'.slots[j] = pool.slots[j]
    BY <1>3, <1>8, <2>1, UpdateFields
  <2>5. ASSUME NEW rq2, Changed(req, rq2, r, n) PROVE Local(i, t1, rq2, u)
    <3>1. rq2[r] = n /\ \A x \in Requests : x # r => rq2[x] = req[x]
      BY <2>5 DEF Changed
    <3>2. Counted3(rq2, i) = Counted3(req, i)
      BY <1>4, <1>8, <3>1 DEF Counted3
    <3>3. \A x \in Requests : req[x].slot = i => req[x].reused \/ req[x].used
      BY <1>3, <1>6, <2>3 DEF Local, StreamsOK
    <3>4. StreamsOK(i, t1, rq2)
      BY <1>3, <1>4, <2>2, <3>1, <3>2, <3>3 DEF Local, StreamsOK
    <3> QED
      BY <1>3, <1>4, <1>6, <2>2, <2>3, <2>5, <3>4, BoundLocal
  <2> HIDE DEF i
  <2>6. \A rq2 : Changed(req, rq2, r, n) => Local(i, t1, rq2, u)
    BY <2>5
  <2> QED
    BY <1>1, <1>3, <1>4, <1>5, <1>7, <2>4, <2>6, OneLocal DEF i
<1>9. CASE ~req[r].reused /\ pool' = Update(pool, i, t2)
  <2>1. t2 \in SlotRecords
    BY <1>3, <1>6 DEF SlotRecords
  <2>2. /\ t2.h3Max = MaxH3Streams /\ t2.h3Leases = m
        /\ t2.kind = s.kind /\ t2.opened = s.opened /\ t2.alive = s.alive
        /\ t2.h2Leases = s.h2Leases /\ t2.h1Leases = s.h1Leases /\ t2.sendSeq = s.sendSeq
        /\ t2.recvSeq = s.recvSeq /\ t2.broken = s.broken
        /\ t2.closeWhenIdle = s.closeWhenIdle
    BY <1>3 DEF SlotRecords
  <2>3. s.h3Leases = 0 /\ m = 1
    <3>1. s.h3Max = 0
      BY <1>3, <1>4, <1>9 DEF Local, StreamsOK
    <3> QED
      BY <1>6, <3>1
  <2>4. Bound(s) = 1
    BY <1>3, <2>3 DEF Bound, Leases, SlotOK
  <2>5. \A x \in Requests : req[x].slot = i => x = r
    BY <1>3, <1>7, <2>4, Alone
  <2> HIDE DEF t2
  <2>6. pool'.slots[i] = t2 /\ \A j \in Slots : j # i => pool'.slots[j] = pool.slots[j]
    BY <1>3, <1>9, <2>1, UpdateFields
  <2>7. ASSUME NEW rq2, Changed(req, rq2, r, n) PROVE Local(i, t2, rq2, u)
    <3>1. rq2[r] = n /\ \A x \in Requests : x # r => rq2[x] = req[x]
      BY <2>7 DEF Changed
    <3>2. Counted3(rq2, i) = {r} /\ \A x \in Requests : rq2[x].slot = i => x = r
      BY <1>4, <2>5, <3>1 DEF Counted3
    <3>c. Cardinality(Counted3(rq2, i)) = 1
      BY <3>2, FS_Singleton
    <3>d. \A x \in Requests : rq2[x].slot = i => rq2[x].used
      BY <1>4, <3>1, <3>2
    <3>3. StreamsOK(i, t2, rq2)
      BY <2>2, <2>3, <3>c, <3>d DEF StreamsOK
    <3> QED
      BY <1>3, <1>4, <1>6, <2>2, <2>3, <2>7, <3>3, BoundLocal
  <2> HIDE DEF i
  <2>8. \A rq2 : Changed(req, rq2, r, n) => Local(i, t2, rq2, u)
    BY <2>7
  <2> QED
    BY <1>1, <1>3, <1>4, <1>5, <1>7, <2>6, <2>8, OneLocal DEF i
<1> QED
  BY <1>1, <1>8, <1>9

\* An empty slot without holders.
LEMMA EmptyLocal ==
    ASSUME NEW i, NEW rq, \A x \in Requests : rq[x].slot # i
    PROVE  Local(i, EmptySlot, rq, <<>>)
BY PoolAssumption, UnheldLocal DEF EmptySlot, Tidy

\* What is left of a request that has returned.
LEMMA ReturnFlags == ASSUME NEW job PROVE FlagsOK(NoRequest(job)) /\ NoRequest(job).slot = 0
  BY DEF FlagsOK, NoRequest

\* ConnectionPoolAbandonQuicAcquire.
LEMMA QuicConnectFailsJ ==
    ASSUME IInv, JInv, NEW r \in Requests, QuicConnectFails(r)
    PROVE  JInv'
<1> DEFINE i == req[r].slot
           n == NoRequest(req[r].job)
           rq2 == req'
<1>1. /\ req[r].phase = "quic_connect" /\ wire' = wire /\ req' = [req EXCEPT ![r] = n]
      /\ pool' = Detach(pool, i)
  BY DEF QuicConnectFails, At, Return, Become
<1>2. req[r].phase \notin Unheld /\ req[r].phase \in QuicPhases
  BY <1>1 DEF Unheld, QuicPhases
<1>3. /\ i \in Slots /\ pool \in PoolRecords /\ Local(i, pool.slots[i], req, wire[i])
      /\ pool.slots[i].kind = "Quic"
  BY <1>2, HolderLocal, QuicHolder
<1>4. /\ pool'.slots[i] = EmptySlot
      /\ \A j \in Slots : j # i => pool'.slots[j] = pool.slots[j]
  BY <1>1, <1>3, DetachFields
<1>5. wire'[i] = <<>> /\ \A j \in Slots : wire'[j] = wire[j]
  BY <1>1, <1>3 DEF Local, WireOK
<1>6. \A x \in Requests : req[x].slot = i => x = r
  BY <1>1, HandshakeAlone
<1>7. Changed(req, rq2, r, n)
  BY <1>1 DEF IInv, Changed
<1>8. FlagsOK(n) /\ n.slot = 0 /\ i # 0 /\ rq2 = req'
  BY <1>3, ReturnFlags, PoolAssumption DEF Slots
<1> HIDE DEF rq2, n
<1>9. \A x \in Requests : rq2[x].slot # i
  BY <1>6, <1>7, <1>8 DEF Changed
<1>10. Local(i, pool'.slots[i], req', wire'[i])
  BY <1>4, <1>5, <1>8, <1>9, EmptyLocal
<1>11. \A x \in Requests : req'[x] = req[x] \/ (x = r /\ req'[x] = n)
  BY <1>7, <1>8 DEF Changed
<1> QED
  BY <1>3, <1>4, <1>5, <1>8, <1>10, <1>11, LocalStep

----------------------------------------
(* ConnectionPoolAcquire: what becomes of the slots *)

\* What an acquire may do to a slot that it does not hand out.
Passed(s, t) ==
    \/ t = s
    \/ ~s.inUse /\ t = EmptySlot
    \/ ~s.inUse /\ s.kind = "Quic" /\ s.h3Leases = 0 /\ t = Shut(s) /\ t.inUse

\* A new connection.
Fresh(t, key) ==
    /\ t.kind = key.kind /\ t.inUse /\ ~t.keepAlive /\ ~t.opened /\ ~t.alive
    /\ t.h2Leases = 0 /\ t.h1Leases = 0 /\ t.h3Leases = 0 /\ t.h3Max = 0
    /\ t.sendSeq = 1 /\ t.recvSeq = 1 /\ ~t.broken /\ ~t.buffered /\ ~t.closeWhenIdle

\* A connection is made in slot i, or none; the other slots are passed.
Makes(p, q, i, key) ==
    /\ \A j \in Slots : j # i => Passed(p.slots[j], q.slots[j])
    /\ i \in Slots => ~p.slots[i].inUse /\ Fresh(q.slots[i], key)

\* Every slot is passed.
PassesAll(p, q) == \A j \in Slots : Passed(p.slots[j], q.slots[j])

\* One step after the other passes a slot.
LEMMA PassedTrans ==
    ASSUME NEW s, NEW t, NEW w, Passed(s, t), Passed(t, w)
    PROVE  Passed(s, w)
  BY DEF Passed, EmptySlot

\* A connection is made after slots have been passed.
LEMMA MakesTrans ==
    ASSUME NEW p, NEW d, NEW q, NEW i, NEW key, PassesAll(p, d), Makes(d, q, i, key)
    PROVE  Makes(p, q, i, key)
BY PassedTrans DEF PassesAll, Makes, Passed

\* Nothing is made.
LEMMA MakesNone ==
    ASSUME NEW p, NEW q, NEW key, PassesAll(p, q)
    PROVE  Makes(p, q, 0, key)
  BY PoolAssumption DEF Makes, PassesAll, Slots

\* Detaching a connection that is not in use passes.
LEMMA DetachPasses ==
    ASSUME NEW p, PoolOK(p), NEW i \in Slots, ~p.slots[i].inUse
    PROVE  PassesAll(p, Detach(p, i))
  BY DetachFields DEF PassesAll, Passed, PoolOK

\* A free slot is occupied.
LEMMA OccupyMakes ==
    ASSUME NEW p, PoolOK(p), NEW i \in Slots, NEW key \in KeyRecords, p.slots[i].kind = "None"
    PROVE  Makes(p, Occupy(p, i, key), i, key)
<1> DEFINE s == [EmptySlot EXCEPT !.kind = key.kind, !.key = key, !.inUse = TRUE,
                                  !.connected = TRUE, !.active = key.kind = "Quic"]
<1>1. s \in SlotRecords /\ Fresh(s, key)
  BY ZenonT(30) DEF EmptySlot, SlotRecords, KeyRecords, Fresh
<1>2. p \in PoolRecords /\ SlotOK(p.slots[i])
  BY DEF PoolOK
<1>3. Occupy(p, i, key) = Counted(p, i, s, p.activeCount + 1) /\ p.activeCount + 1 \in Int
  BY <1>2 DEF Occupy, Counted, PoolRecords
<1> HIDE DEF s
<1>4. /\ Occupy(p, i, key).slots[i] = s
      /\ \A j \in Slots : j # i => Occupy(p, i, key).slots[j] = p.slots[j]
  BY <1>1, <1>2, <1>3, CountedUpdate
<1>5. ~p.slots[i].inUse
  BY <1>2 DEF SlotOK
<1> QED
  BY <1>1, <1>4, <1>5 DEF Makes, Passed

\* The search for a slot, with an eviction from a full pool.
LEMMA PlaceMakes ==
    ASSUME NEW p, PoolOK(p), NEW key \in KeyRecords, NEW policy, NEW freed,
           NEW c \in Place(p, key, policy, freed)
    PROVE  Makes(p, c[1], c[2], key)
<1>1. CASE \E i \in FreeSlots(p) : c = <<Occupy(p, i, key), i>>
  BY <1>1, OccupyMakes DEF FreeSlots
<1>2. CASE c = <<p, 0>>
  BY <1>2, MakesNone DEF PassesAll, Passed
<1>3. CASE \E i \in IdleTcpSlots(p) : c = <<Occupy(Detach(p, i), i, key), i>>
  <2>1. PICK i \in IdleTcpSlots(p) : c = <<Occupy(Detach(p, i), i, key), i>>
    BY <1>3
  <2>2. i \in Slots /\ ~p.slots[i].inUse
    BY DEF IdleTcpSlots, IsIdleTcp
  <2>3. /\ PoolOK(Detach(p, i)) /\ Detach(p, i).slots[i].kind = "None"
        /\ PassesAll(p, Detach(p, i))
    BY <2>2, DetachIdle, DetachPasses DEF EmptySlot
  <2>4. Makes(Detach(p, i), Occupy(Detach(p, i), i, key), i, key)
    BY <2>2, <2>3, OccupyMakes
  <2> QED
    BY <2>1, <2>3, <2>4, MakesTrans
<1>4. \/ \E i \in FreeSlots(p) : c = <<Occupy(p, i, key), i>>
      \/ c = <<p, 0>>
      \/ \E i \in IdleTcpSlots(p) : c = <<Occupy(Detach(p, i), i, key), i>>
  BY DEF Place, IsFirst
<1> QED
  BY <1>1, <1>2, <1>3, <1>4

\* The eviction at a full quota.
LEMMA CreateMakes ==
    ASSUME NEW p, PoolOK(p), NEW key \in KeyRecords, NEW policy, NEW freed,
           NEW c \in Create(p, key, policy, freed)
    PROVE  Makes(p, c[1], c[2], key)
<1>1. CASE c = <<p, 0>>
  BY <1>1, MakesNone DEF PassesAll, Passed
<1>2. CASE c \in Place(p, key, policy, freed)
  BY <1>2, PlaceMakes
<1>3. CASE \E i \in IdleTcpOfHost(p, key) :
                c = <<Detach(p, i), 0>> \/ c \in Place(Detach(p, i), key, policy, TRUE)
  <2>1. PICK i \in IdleTcpOfHost(p, key) :
                c = <<Detach(p, i), 0>> \/ c \in Place(Detach(p, i), key, policy, TRUE)
    BY <1>3
  <2>2. i \in Slots /\ ~p.slots[i].inUse
    BY DEF IdleTcpOfHost, IsIdleTcp
  <2>3. PoolOK(Detach(p, i)) /\ PassesAll(p, Detach(p, i))
    BY <2>2, DetachIdle, DetachPasses
  <2>4. CASE c = <<Detach(p, i), 0>>
    BY <2>3, <2>4, MakesNone
  <2>5. CASE c \in Place(Detach(p, i), key, policy, TRUE)
    BY <2>3, <2>5, PlaceMakes, MakesTrans
  <2> QED
    BY <2>1, <2>4, <2>5
<1> QED
  BY <1>1, <1>2, <1>3 DEF Create, IsFirst

\* The close of an idle QUIC connection passes.
LEMMA ShutPasses ==
    ASSUME NEW s \in SlotRecords, IsIdleQuic(s)
    PROVE  Passed(s, Shut(s))
<1>1. Shut(s).inUse
  BY DEF Shut, SlotRecords
<1> QED
  BY <1>1 DEF Passed, IsIdleQuic

\* The outcome a of an acquire: what it makes of the slots.
Shapes(p, a, key) ==
    \/ a[3] = FALSE /\ Makes(p, a[1], a[2], key)
    \/ /\ a[3] = TRUE /\ a[2] \in Slots /\ IsHit(p.slots[a[2]], key)
       /\ a[1].slots[a[2]] = Shared(p.slots[a[2]])
       /\ \A j \in Slots : j # a[2] => Passed(p.slots[j], a[1].slots[j])

\* ConnectionPoolAcquire with ForceNew or NoPool.
LEMMA AcquireNewShapes ==
    ASSUME NEW p, PoolOK(p), NEW key \in KeyRecords, NEW policy,
           NEW a \in AcquireNew(p, key, policy)
    PROVE  Shapes(p, a, key)
<1> DEFINE idle == IdleQuicOfHost(p, key)
<1>1. PICK q : /\ \E c \in Create(q, key, policy, FALSE) : a = <<c[1], c[2], FALSE>>
               /\ q = p \/ \E i \in idle : q = TryBeginClose(p, i)
  BY ZenonT(40) DEF AcquireNew, IsFirst
<1>c. PICK c \in Create(q, key, policy, FALSE) : a = <<c[1], c[2], FALSE>>
  BY <1>1
<1>s. \A j \in Slots : p.slots[j] \in SlotRecords
  BY SlotTypes
<1>2. PoolOK(q) /\ PassesAll(p, q)
  <2>1. CASE q = p
    BY <2>1 DEF PassesAll, Passed
  <2>2. CASE \E i \in idle : q = TryBeginClose(p, i)
    <3>1. PICK i \in idle : q = TryBeginClose(p, i)
      BY <2>2
    <3>2. i \in Slots /\ ~p.slots[i].inUse /\ IsIdleQuic(p.slots[i])
      BY DEF IdleQuicOfHost, IsIdleQuic
    <3>3. PoolOK(q)
      BY <3>1, <3>2, TryBeginCloseIdle
    <3>4. CASE CanBeginClose(p.slots[i])
      BY <3>1, <3>2, <3>4, BeginCloseOK, <1>s, ShutPasses, <3>3 DEF TryBeginClose, PassesAll, Passed
    <3>5. CASE ~CanBeginClose(p.slots[i])
      BY <3>1, <3>3, <3>5 DEF TryBeginClose, PassesAll, Passed
    <3> QED
      BY <3>4, <3>5
  <2> QED
    BY <1>1, <2>1, <2>2
<1>3. Makes(p, c[1], c[2], key)
  BY <1>2, CreateMakes, MakesTrans
<1> QED
  BY <1>c, <1>3 DEF Shapes

\* ConnectionPoolAcquire with ReuseOrCreate.
LEMMA AcquireReuseShapes ==
    ASSUME NEW p, PoolOK(p), NEW key \in KeyRecords, NEW a \in AcquireReuse(p, key)
    PROVE  Shapes(p, a, key)
<1> DEFINE hits == Hits(p, key)
           S == ExpiredBefore(p, hits)
           q == CloseExpired(p, S)
<1>1. /\ S \subseteq Slots /\ \A i \in S : CanBeginClose(p.slots[i]) /\ IsIdleQuic(p.slots[i])
  BY DEF ExpiredBefore
<1>2. /\ PoolOK(q) /\ q \in PoolRecords
      /\ \A i \in Slots : q.slots[i] = IF i \in S THEN Shut(p.slots[i]) ELSE p.slots[i]
  BY <1>1, CloseExpiredOK DEF PoolOK
<1>s. \A j \in Slots : p.slots[j] \in SlotRecords /\ SlotOK(p.slots[j])
  BY SlotTypes
<1>3. PassesAll(p, q)
  <2> SUFFICES ASSUME NEW j \in Slots PROVE Passed(p.slots[j], q.slots[j])
    BY DEF PassesAll
  <2>1. CASE j \in S
    BY <1>1, <1>2, <1>s, <2>1, ShutPasses
  <2>2. CASE j \notin S
    BY <1>2, <2>2 DEF Passed
  <2> QED
    BY <2>1, <2>2
<1>4. \A i \in hits : i \in Slots /\ i \notin S
  BY PoolAssumption DEF Hits, ExpiredBefore, Slots
<1>5. CASE hits = {}
  <2>1. PICK c \in Create(q, key, "ReuseOrCreate", FALSE) : a = <<c[1], c[2], FALSE>>
    BY <1>5 DEF AcquireReuse
  <2>2. Makes(p, c[1], c[2], key)
    BY <1>2, <1>3, CreateMakes, MakesTrans
  <2> QED
    BY <2>1, <2>2 DEF Shapes
<1>6. CASE hits # {}
  <2>1. PICK i \in hits :
          IF IsIdleTcp(q.slots[i]) /\ q.slots[i].expired
            THEN \E c \in Create(Detach(q, i), key, "ReuseOrCreate", TRUE) : a = <<c[1], c[2], FALSE>>
            ELSE a = <<Update(q, i, Shared(q.slots[i])), i, TRUE>>
    BY <1>6 DEF AcquireReuse, IsFirst
  <2>2. i \in Slots /\ q.slots[i] = p.slots[i]
    BY <1>2, <1>4
  <2>3. CASE IsIdleTcp(q.slots[i]) /\ q.slots[i].expired
    <3>1. PICK c \in Create(Detach(q, i), key, "ReuseOrCreate", TRUE) : a = <<c[1], c[2], FALSE>>
      BY <2>1, <2>3
    <3>2. PoolOK(Detach(q, i)) /\ PassesAll(q, Detach(q, i))
      BY <1>2, <2>2, <2>3, DetachIdle, DetachPasses DEF IsIdleTcp
    <3>3. Makes(q, c[1], c[2], key)
      BY <3>2, CreateMakes, MakesTrans
    <3>4. Makes(p, c[1], c[2], key)
      BY <1>3, <3>3, MakesTrans
    <3> QED
      BY <3>1, <3>4 DEF Shapes
  <2>4. CASE ~(IsIdleTcp(q.slots[i]) /\ q.slots[i].expired)
    <3> DEFINE t == Shared(p.slots[i])
    <3>1. IsHit(p.slots[i], key)
      BY <2>2, <2>4 DEF Hits, IsHit
    <3>2. t \in SlotRecords
      BY <1>s, <2>2, <3>1, SharedOK
    <3>3. a = <<Update(q, i, t), i, TRUE>>
      BY <2>1, <2>2, <2>4
    <3> HIDE DEF t
    <3>4. /\ Update(q, i, t).slots[i] = t
          /\ \A j \in Slots : j # i => Update(q, i, t).slots[j] = q.slots[j]
      BY <1>2, <2>2, <3>2, UpdateFields
    <3> HIDE DEF q, S, hits
    <3>5. a[1] = Update(q, i, t) /\ a[2] = i /\ a[3] = TRUE
      BY <3>3
    <3> QED
      BY <1>3, <2>2, <3>1, <3>4, <3>5 DEF Shapes, PassesAll, t
  <2> QED
    BY <2>3, <2>4
<1> QED
  BY <1>5, <1>6

\* Whatever the policy.
LEMMA AcquireShapes ==
    ASSUME NEW p, PoolOK(p), NEW key \in KeyRecords, NEW policy, NEW a \in Acquire(p, key, policy)
    PROVE  Shapes(p, a, key)
  BY AcquireReuseShapes, AcquireNewShapes DEF Acquire

----------------------------------------
(* ConnectionPoolAcquire: the slots and their holders *)

\* Nobody holds a slot that is not fit to be held.
LEMMA NotHeld ==
    ASSUME IInv, NEW j \in Slots, ~HeldOK(pool.slots[j])
    PROVE  \A x \in Requests : req[x].slot # j
  BY DEF IInv, Own, Held

\* The invariant speaks of legal slots and of sequences of requests.
LEMMA SlotLocal ==
    ASSUME IInv, JInv, NEW j \in Slots
    PROVE  /\ pool \in PoolRecords /\ pool.slots[j] \in SlotRecords /\ SlotOK(pool.slots[j])
           /\ Local(j, pool.slots[j], req, wire[j]) /\ wire[j] \in Seq(Requests)
  BY SlotTypes DEF IInv, JInv

\* A slot that an acquire passes.
LEMMA PassedLocal ==
    ASSUME NEW j, NEW s \in SlotRecords, NEW t, NEW rq, NEW u, NEW v, Local(j, s, rq, u),
           Passed(s, t), ~s.inUse => \A x \in Requests : rq[x].slot # j,
           v = IF t.kind # "Tcp" THEN <<>> ELSE u
    PROVE  Local(j, t, rq, v)
<1>1. CASE t = s
  BY <1>1 DEF Local, WireOK
<1>2. CASE ~s.inUse /\ t = EmptySlot
  <2>1. v = <<>>
    BY <1>2 DEF EmptySlot
  <2> QED
    BY <1>2, <2>1, EmptyLocal
<1>3. CASE ~s.inUse /\ s.kind = "Quic" /\ s.h3Leases = 0 /\ t = Shut(s)
  <2>1. /\ t.kind = s.kind /\ t.h2Leases = s.h2Leases /\ t.h1Leases = s.h1Leases
        /\ t.h3Leases = s.h3Leases /\ t.h3Max = s.h3Max /\ t.sendSeq = s.sendSeq
        /\ t.recvSeq = s.recvSeq /\ t.closeWhenIdle /\ t.alive = s.alive /\ t.opened = s.opened
    BY <1>3 DEF Shut, SlotRecords
  <2>2. Tidy(t)
    BY <1>3, <2>1 DEF Local, Tidy
  <2> QED
    BY <1>3, <2>1, <2>2, UnheldLocal
<1> QED
  BY <1>1, <1>2, <1>3 DEF Passed

\* A new connection has one holder, and no leases.
LEMMA FreshLocal ==
    ASSUME NEW i, NEW t, NEW key, Fresh(t, key), NEW rq, NEW r \in Requests,
           \A x \in Requests : rq[x].slot = i => x = r,
           rq[r].phase \in {"open", "quic_connect"}, rq[r].slot = i, ~rq[r].reused, ~rq[r].used
    PROVE  Local(i, t, rq, <<>>)
<1>1. Tidy(t)
  BY PoolAssumption DEF Tidy, Fresh
<1>2. SocketOK(i, t, rq) /\ TransportOK(i, t, rq) /\ OrderOK(i, t, rq)
  BY DEF SocketOK, TransportOK, OrderOK, Pending, TransportPhases, Numbered
<1>3. WireOK(i, t, rq, <<>>)
  BY DEF WireOK, InOrder, Fresh
<1>4. Counted3(rq, i) = {}
  BY DEF Counted3
<1>5. StreamsOK(i, t, rq)
  BY <1>4, FS_EmptySet DEF StreamsOK, Fresh
<1> QED
  BY <1>1, <1>2, <1>3, <1>5 DEF Local

\* A request joins those of a connection, on the way to its first I/O.
LEMMA JoinedLocal ==
    ASSUME NEW i, NEW s, NEW t, NEW rq, NEW rq2, NEW u \in Seq(Requests), Local(i, s, rq, u),
           NEW r \in Requests, NEW n, Changed(rq, rq2, r, n), rq[r].slot # i, n.slot = i,
           n.phase \in {"open", "quic_bind"}, Tidy(t), StreamsOK(i, t, rq2),
           t.kind = s.kind, t.opened = s.opened, t.alive = s.alive,
           s.h1Leases # 0 <=> t.h1Leases # 0, t.sendSeq = s.sendSeq,
           t.recvSeq = s.recvSeq, t.closeWhenIdle = s.closeWhenIdle
    PROVE  Local(i, t, rq2, u)
BY DEF Changed, SocketOK, Pending, Local, TransportOK, TransportPhases, OrderOK, Numbered, InOrder,
   OnWire, WireOK

\* A connection that the reuse loop hands out gets one more holder, and a lease for it.
LEMMA SharedLocal ==
    ASSUME NEW i, NEW s \in SlotRecords, SlotOK(s), NEW key, IsHit(s, key), NEW rq, NEW rq2,
           NEW u \in Seq(Requests), Local(i, s, rq, u),
           NEW r \in Requests, NEW n, Changed(rq, rq2, r, n), rq[r].slot # i, n.slot = i,
           n.phase \in {"open", "quic_bind"}, n.reused
    PROVE  Local(i, Shared(s), rq2, u) /\ u = <<>>
<1>0. rq2[r] = n /\ \A x \in Requests : x # r => rq2[x] = rq[x]
  BY DEF Changed
<1>1. CASE CanShareQuic(s, key)
  <2> DEFINE m == s.h3Leases + 1
             t == [s EXCEPT !.h3Leases = m, !.active = TRUE, !.inUse = TRUE]
  <2>1. Shared(s) = t
    BY <1>1 DEF Shared, CanShareQuic, QuicUsable
  <2>2. s.h3Leases \in Nat /\ s.h3Max \in Nat /\ m = s.h3Leases + 1
    BY DEF SlotRecords
  <2> HIDE DEF m
  <2>3. /\ t.kind = s.kind /\ t.opened = s.opened /\ t.alive = s.alive /\ t.h3Leases = m
        /\ t.h3Max = s.h3Max /\ t.h2Leases = s.h2Leases /\ t.h1Leases = s.h1Leases
        /\ t.sendSeq = s.sendSeq /\ t.recvSeq = s.recvSeq
        /\ t.closeWhenIdle = s.closeWhenIdle /\ t.broken = s.broken
    BY DEF SlotRecords
  <2> HIDE DEF t
  <2>4. s.kind = "Quic" /\ s.h3Leases < s.h3Max
    BY <1>1 DEF CanShareQuic, QuicUsable
  <2>5. Tidy(t) /\ u = <<>>
    BY <2>2, <2>3, <2>4 DEF Local, Tidy, WireOK
  <2>6. StreamsOK(i, t, rq2)
    <3>1. Counted3(rq2, i) = Counted3(rq, i) \cup {r} /\ r \notin Counted3(rq, i)
      BY <1>0 DEF Counted3
    <3>2. IsFiniteSet(Counted3(rq, i))
      BY SendAssumption, FS_Subset DEF Counted3
    <3>3. Cardinality(Counted3(rq, i) \cup {r}) = Cardinality(Counted3(rq, i)) + 1
      BY <3>1, <3>2, FS_AddElement, Zenon
    <3>4. Cardinality(Counted3(rq2, i)) = m
      BY <2>2, <2>4, <3>1, <3>3 DEF Local, StreamsOK
    <3> QED
      BY <1>0, <2>3, <2>4, <3>4 DEF Local, StreamsOK
  <2>7. Local(i, t, rq2, u)
    BY <2>3, <2>5, <2>6, JoinedLocal
  <2> QED
    BY <2>1, <2>5, <2>7
<1>2. CASE CanShareHttp2(s, key)
  <2> DEFINE m == s.h2Leases + 1
             t == [s EXCEPT !.h2Leases = m]
  <2>1. Shared(s) = t
    BY <1>2 DEF Shared, CanShareHttp2
  <2>2. s.h2Leases \in Nat /\ m = s.h2Leases + 1
    BY DEF SlotRecords
  <2> HIDE DEF m
  <2>3. /\ t.kind = s.kind /\ t.opened = s.opened /\ t.alive = s.alive /\ t.h2Leases = m
        /\ t.h3Leases = s.h3Leases /\ t.h3Max = s.h3Max /\ t.h1Leases = s.h1Leases
        /\ t.sendSeq = s.sendSeq /\ t.recvSeq = s.recvSeq /\ t.buffered = s.buffered
        /\ t.closeWhenIdle = s.closeWhenIdle /\ t.broken = s.broken
        /\ t.inUse = s.inUse /\ t.keepAlive = s.keepAlive
    BY DEF SlotRecords
  <2> HIDE DEF t
  <2>4. s.kind = "Tcp" /\ s.h2Leases \in 1..(MaxH2Streams - 1)
    BY <1>2 DEF CanShareHttp2
  <2>5. s.h1Leases = 0
    BY <2>4 DEF SlotOK
  <2>6. Tidy(t) /\ u = <<>>
    BY <2>2, <2>3, <2>4, <2>5, PoolAssumption DEF Local, Tidy, WireOK
  <2>7. StreamsOK(i, t, rq2)
    BY <2>3, <2>4 DEF StreamsOK
  <2>8. Local(i, t, rq2, u)
    BY <2>3, <2>6, <2>7, JoinedLocal
  <2> QED
    BY <2>1, <2>6, <2>8
<1>3. CASE IsIdleTcp(s)
  <2> DEFINE t == [s EXCEPT !.inUse = TRUE]
  <2>1. Shared(s) = t
    BY <1>3 DEF Shared, IsIdleTcp
  <2>3. /\ t.kind = s.kind /\ t.opened = s.opened /\ t.alive = s.alive /\ t.h2Leases = s.h2Leases
        /\ t.h3Leases = s.h3Leases /\ t.h3Max = s.h3Max /\ t.h1Leases = s.h1Leases
        /\ t.sendSeq = s.sendSeq /\ t.recvSeq = s.recvSeq /\ t.buffered = s.buffered
        /\ t.closeWhenIdle = s.closeWhenIdle /\ t.broken = s.broken
    BY DEF SlotRecords
  <2> HIDE DEF t
  <2>4. s.kind = "Tcp" /\ ~s.inUse /\ s.h2Leases = 0 /\ s.h1Leases = 0
    BY <1>3 DEF IsIdleTcp
  <2>6. Tidy(t) /\ u = <<>>
    BY <2>3, <2>4 DEF Local, Tidy, WireOK
  <2>7. StreamsOK(i, t, rq2)
    BY <2>3, <2>4 DEF StreamsOK
  <2>8. Local(i, t, rq2, u)
    BY <2>3, <2>6, <2>7, JoinedLocal
  <2> QED
    BY <2>1, <2>6, <2>8
<1> QED
  BY <1>1, <1>2, <1>3 DEF IsHit

----------------------------------------
(* Requests that come and go *)

\* Requests take or leave slot i, or have none before and after (i = 0).
LEMMA TakesJ ==
    ASSUME IInv, JInv, NEW i,
           \A x \in Requests : \/ req'[x] = req[x]
                               \/ /\ req[x].slot \in {0, i} /\ req'[x].slot \in {0, i}
                                  /\ FlagsOK(req'[x]),
           \A j \in Slots : j # i => /\ Local(j, pool'.slots[j], req, wire'[j])
                                     /\ wire'[j] \in Seq(Requests),
           i \in Slots => Local(i, pool'.slots[i], req', wire'[i])
    PROVE  JInv'
<1>2. ASSUME NEW j \in Slots, j # i PROVE Local(j, pool'.slots[j], req', wire'[j])
  BY <1>2, PoolAssumption, FrameLocal DEF Slots
<1>3. \A x \in Requests : FlagsOK(req'[x])
  BY DEF JInv
<1> QED
  BY <1>2, <1>3 DEF JInv

\* A request without a connection goes on without one, and no slot changes.
LEMMA WaitsJ ==
    ASSUME IInv, JInv, NEW r \in Requests, req[r].slot = 0, NEW n, n.slot = 0, FlagsOK(n),
           req' = [req EXCEPT ![r] = n], UNCHANGED pool, wire' = wire
    PROVE  JInv'
<1>1. \A j \in Slots : Local(j, pool'.slots[j], req, wire'[j]) /\ wire'[j] \in Seq(Requests)
  BY DEF JInv, IInv
<1>2. 0 \notin Slots
  BY PoolAssumption DEF Slots
<1>3. \A x \in Requests : req'[x] = IF x = r THEN n ELSE req[x]
  BY DEF IInv
<1> QED
  BY <1>1, <1>2, <1>3, TakesJ

\* A call begins.
LEMMA StartJ ==
    ASSUME IInv, JInv, NEW r \in Requests, NEW job \in Jobs, Start(r, job)
    PROVE  JInv'
<1> DEFINE x == IF job.pipeline THEN "join" ELSE "acquire"
           n == [NoRequest(job) EXCEPT !.phase = x]
<1>1. /\ req[r].phase = "idle" /\ req' = [req EXCEPT ![r] = n]
      /\ UNCHANGED pool /\ wire' = wire
  BY DEF Start, At, Become
<1>2. n.slot = 0 /\ ~n.used /\ ~n.reused
  BY DEF NoRequest
<1>3. FlagsOK(n)
  BY <1>2 DEF FlagsOK
<1>4. req[r].slot = 0
  BY <1>1 DEF IInv, ReqOK, Unheld
<1> HIDE DEF n
<1> QED
  BY <1>1, <1>2, <1>3, <1>4, WaitsJ

\* A request joins a pipeline that takes one more; its transport and its numbers are
\* left alone.
LEMMA JoinJ ==
    ASSUME IInv, JInv, NEW r \in Requests, Join(r)
    PROVE  JInv'
<1>1. /\ req[r].phase = "join" /\ req[r].slot = 0 /\ req[r] \in RequestRecords
      /\ FlagsOK(req[r]) /\ wire' = wire
  BY DEF Join, At, IInv, ReqOK, Unheld, JInv
<1>2. CASE Goto(r, "acquire") /\ UNCHANGED pool
  <2> DEFINE n == [req[r] EXCEPT !.phase = "acquire"]
  <2>1. n.phase = "acquire" /\ n.slot = 0 /\ n.used = req[r].used
    BY <1>1 DEF RequestRecords
  <2>2. FlagsOK(n) /\ req' = [req EXCEPT ![r] = n]
    BY <1>1, <1>2, <2>1 DEF FlagsOK, Goto, Become
  <2> HIDE DEF n
  <2> QED
    BY <1>1, <1>2, <2>1, <2>2, WaitsJ
<1>3. CASE \E i \in Slots :
              /\ IsFirst(i, Joinable(pool, req[r].job.key)) /\ pool' = JoinPipeline(pool, i)
              /\ Become(r, [req[r] EXCEPT !.phase = "open", !.slot = i, !.reused = TRUE])
  <2>1. PICK i \in Slots :
              /\ IsFirst(i, Joinable(pool, req[r].job.key)) /\ pool' = JoinPipeline(pool, i)
              /\ Become(r, [req[r] EXCEPT !.phase = "open", !.slot = i, !.reused = TRUE])
    BY <1>3
  <2> DEFINE s == pool.slots[i]
             u == wire[i]
             n == [req[r] EXCEPT !.phase = "open", !.slot = i, !.reused = TRUE]
             m == s.h1Leases + 1
             t == [s EXCEPT !.h1Leases = m]
             rq2 == req'
  <2>2. /\ pool \in PoolRecords /\ s \in SlotRecords /\ SlotOK(s)
        /\ Local(i, s, req, u) /\ u \in Seq(Requests)
    BY SlotLocal
  <2>3. CanShareHttp1Pipeline(s, req[r].job.key)
    BY <2>1 DEF IsFirst, Joinable
  <2>4. /\ s.kind = "Tcp" /\ s.h1Leases \in Nat \ {0} /\ m \in Nat \ {0} /\ m = s.h1Leases + 1
        /\ m <= PipelineDepth
    BY <2>2, <2>3, PoolAssumption, SMTT(30) DEF CanShareHttp1Pipeline, SlotRecords
  <2>5. pool' = Update(pool, i, t) /\ req' = [req EXCEPT ![r] = n]
    BY <2>1 DEF JoinPipeline, Become
  <2>6. n.phase = "open" /\ n.slot = i
    BY <1>1 DEF RequestRecords
  <2> HIDE DEF n, m
  <2>7. /\ t \in SlotRecords /\ t.h1Leases = m /\ t.kind = s.kind /\ t.inUse = s.inUse
        /\ t.keepAlive = s.keepAlive /\ t.opened = s.opened /\ t.alive = s.alive
        /\ t.h2Leases = s.h2Leases /\ t.h3Leases = s.h3Leases /\ t.h3Max = s.h3Max
        /\ t.sendSeq = s.sendSeq /\ t.recvSeq = s.recvSeq /\ t.broken = s.broken
        /\ t.buffered = s.buffered /\ t.closeWhenIdle = s.closeWhenIdle
    BY <2>2, <2>4 DEF SlotRecords
  <2> HIDE DEF t
  <2>8. pool'.slots[i] = t /\ \A j \in Slots : j # i => pool'.slots[j] = pool.slots[j]
    BY <2>2, <2>5, <2>7, UpdateFields
  <2>9. Changed(req, rq2, r, n) /\ rq2 = req' /\ wire'[i] = u
    BY <1>1, <2>5 DEF IInv, Changed
  <2>s. s = pool.slots[i]
    OBVIOUS
  <2> HIDE DEF rq2, s, u
  <2>10. Tidy(t) /\ StreamsOK(i, t, rq2)
    BY <2>2, <2>4, <2>7 DEF Local, Tidy, StreamsOK
  <2>0. req[r].slot # i
    BY <1>1, PoolAssumption DEF Slots
  <2>11. Local(i, t, rq2, u)
    BY <2>0, <2>2, <2>4, <2>6, <2>7, <2>9, <2>10, JoinedLocal
  <2>12. FlagsOK(n)
    BY <2>6 DEF FlagsOK
  <2>13. \A j \in Slots : j # i => /\ Local(j, pool'.slots[j], req, wire'[j])
                                   /\ wire'[j] \in Seq(Requests)
    BY <1>1, <2>8 DEF JInv, IInv
  <2>14. Local(i, pool'.slots[i], req', wire'[i])
    BY <2>8, <2>9, <2>11
  <2>15. \A x \in Requests : \/ req'[x] = req[x]
                             \/ /\ req[x].slot \in {0, i} /\ req'[x].slot \in {0, i}
                                /\ FlagsOK(req'[x])
    BY <1>1, <2>6, <2>9, <2>12 DEF Changed
  <2> QED
    BY <2>13, <2>14, <2>15, TakesJ
<1> QED
  BY <1>2, <1>3 DEF Join

\* A request gets the outcome of an acquire: a connection of its own, a share of one, or
\* none; what the acquire closes or evicts on the way nobody holds.
LEMMA TakeConnectionJ ==
    ASSUME IInv, JInv, NEW r \in Requests, req[r].phase \in {"acquire", "reacquire"},
           NEW policy, NEW a \in Acquire(pool, req[r].job.key, policy),
           NEW retried \in BOOLEAN, TakeConnection(r, a, retried)
    PROVE  JInv'
<1> DEFINE key == req[r].job.key
           i == a[2]
<1>1. /\ req[r] \in RequestRecords /\ req[r].slot = 0 /\ FlagsOK(req[r]) /\ ~req[r].used
      /\ PoolOK(pool) /\ key \in KeyRecords /\ req \in [Requests -> RequestRecords]
  BY JobKeys DEF IInv, JInv, ReqOK, Unheld, FlagsOK
<1>2. Shapes(pool, a, key) /\ Acquired(pool, a, key) /\ pool' = a[1]
  BY <1>1, JobKeys, AcquireOK, AcquireShapes DEF TakeConnection
<1>w. \A j \in Slots : wire'[j] = IF pool'.slots[j].kind # "Tcp" \/ j = i THEN <<>> ELSE wire[j]
  BY DEF TakeConnection
<1>3. ASSUME NEW j \in Slots, j # i
      PROVE  Local(j, pool'.slots[j], req, wire'[j]) /\ wire'[j] \in Seq(Requests)
  <2>1. Passed(pool.slots[j], pool'.slots[j])
    BY <1>2, <1>3 DEF Shapes, Makes
  <2>2. /\ pool.slots[j] \in SlotRecords /\ Local(j, pool.slots[j], req, wire[j])
        /\ wire[j] \in Seq(Requests)
    BY SlotLocal
  <2>3. ~pool.slots[j].inUse => \A x \in Requests : req[x].slot # j
    BY NotHeld DEF HeldOK
  <2>4. wire'[j] = IF pool'.slots[j].kind # "Tcp" THEN <<>> ELSE wire[j]
    BY <1>3, <1>w
  <2>5. Local(j, pool'.slots[j], req, wire'[j])
    BY <2>1, <2>2, <2>3, <2>4, PassedLocal
  <2> QED
    BY <2>2, <2>4, <2>5
<1>4. CASE i = 0
  <2> DEFINE n == NoRequest(req[r].job)
  <2>1. req' = [req EXCEPT ![r] = n]
    BY <1>4 DEF TakeConnection, Return, Become
  <2>2. n.slot = 0 /\ FlagsOK(n) /\ 0 \notin Slots
    BY ReturnFlags, PoolAssumption DEF Slots
  <2> HIDE DEF n
  <2>3. \A x \in Requests : req'[x] = IF x = r THEN n ELSE req[x]
    BY <1>1, <2>1
  <2> QED
    BY <1>1, <1>3, <1>4, <2>2, <2>3, TakesJ
<1>5. CASE i # 0
  <2> DEFINE x == PhaseAfterAcquire(req[r].job, a[3])
             n == [req[r] EXCEPT !.phase = x, !.slot = i, !.reused = a[3], !.retried = retried]
             rq2 == req'
  <2>1. req' = [req EXCEPT ![r] = n]
    BY <1>5 DEF TakeConnection, Become
  <2>2. /\ x \in {"open", "quic_bind", "quic_connect"}
        /\ a[3] = TRUE => x # "quic_connect"
        /\ a[3] = FALSE => x # "quic_bind"
    BY DEF PhaseAfterAcquire
  <2> HIDE DEF x
  <2>3. i \in Slots /\ a[3] \in BOOLEAN
    BY <1>2, <1>5 DEF Acquired, Slots
  <2>4. n.phase = x /\ n.slot = i /\ n.reused = a[3] /\ n.used = req[r].used
    BY <1>1 DEF RequestRecords
  <2>5. Changed(req, rq2, r, n) /\ rq2 = req'
    BY <1>1, <2>1 DEF Changed
  <2> HIDE DEF n, rq2
  <2>6. FlagsOK(n)
    BY <1>1, <2>2, <2>3, <2>4 DEF FlagsOK
  <2>7. wire'[i] = <<>>
    BY <1>w, <2>3
  <2>8. req[r].slot # i
    BY <1>1, <1>5
  <2>9. Local(i, pool'.slots[i], rq2, <<>>)
    <3>1. CASE a[3] = FALSE /\ Makes(pool, a[1], i, key)
      BY <1>2, <2>3, <3>1, NotHeld, <2>5, <1>1, <2>2, <2>4, FreshLocal DEF Makes, HeldOK, Changed
    <3>2. CASE /\ a[3] = TRUE /\ IsHit(pool.slots[i], key)
               /\ a[1].slots[i] = Shared(pool.slots[i])
      BY <2>3, SlotLocal, <2>2, <2>4, <3>2, <2>5, <2>8, SharedLocal, <1>2
    <3> QED
      BY <1>2, <3>1, <3>2 DEF Shapes
  <2>10. Local(i, pool'.slots[i], req', wire'[i])
    BY <2>5, <2>7, <2>9
  <2>11. \A y \in Requests : \/ req'[y] = req[y]
                             \/ /\ req[y].slot \in {0, i} /\ req'[y].slot \in {0, i}
                                /\ FlagsOK(req'[y])
    BY <1>1, <2>4, <2>5, <2>6 DEF Changed
  <2> HIDE DEF i
  <2> QED
    BY <1>3, <2>10, <2>11, TakesJ
<1> QED
  BY <1>4, <1>5

\* The first acquire, and that of a retry.
LEMMA AcquiresJ ==
    ASSUME IInv, JInv, NEW r \in Requests, AcquireConnection(r) \/ RetryAcquire(r)
    PROVE  JInv'
  BY TakeConnectionJ DEF AcquireConnection, RetryAcquire, At

----------------------------------------
(* Release and close *)

\* What is left in slot i when request r has gone to n.
Left(i, r, n, t) ==
    \A rq2 : Changed(req, rq2, r, n) =>
        Local(i, t, rq2, IF t.kind = "Tcp" THEN wire[i] ELSE <<>>)

\* A slot that is still of its kind has the wire it had.
LEMMA WireKept ==
    ASSUME IInv, JInv, KeepWire(pool'), NEW j \in Slots,
           pool'.slots[j].kind = pool.slots[j].kind
    PROVE  wire'[j] = wire[j]
BY DEF KeepWire, JInv, Local, WireOK

\* A request leaves its connection.
LEMMA LeaveJ ==
    ASSUME IInv, JInv, NEW r \in Requests, NEW i \in Slots, req[r].slot = i, NEW n, n.slot = 0,
           FlagsOK(n), req' = [req EXCEPT ![r] = n], KeepWire(pool'),
           \A j \in Slots : j # i => pool'.slots[j] = pool.slots[j],
           NEW t, pool'.slots[i] = t, Left(i, r, n, t)
    PROVE  JInv'
<1> DEFINE rq2 == req'
<1>1. Changed(req, rq2, r, n) /\ rq2 = req'
  BY DEF IInv, Changed
<1> HIDE DEF rq2
<1>2. wire'[i] = IF t.kind = "Tcp" THEN wire[i] ELSE <<>>
  BY DEF KeepWire
<1>3. Local(i, t, rq2, wire'[i])
  BY <1>1, <1>2 DEF Left
<1>4. Local(i, pool'.slots[i], req', wire'[i])
  BY <1>1, <1>3
<1>5. \A j \in Slots : j # i => pool'.slots[j] = pool.slots[j] /\ wire'[j] = wire[j]
  BY WireKept
<1>6. \A x \in Requests : \/ req'[x] = req[x]
                          \/ /\ req[x].slot \in {0, i} /\ req'[x].slot \in {0, i}
                             /\ FlagsOK(req'[x])
  BY <1>1 DEF Changed
<1> QED
  BY <1>4, <1>5, <1>6, LocalStep

\* The only holder leaves, and the slot is empty.
LEMMA EmptyLeft ==
    ASSUME IInv, JInv, NEW r \in Requests, req[r].slot \in Slots,
           Bound(pool.slots[req[r].slot]) = 1, NEW n, n.slot = 0
    PROVE  Left(req[r].slot, r, n, EmptySlot)
<1> DEFINE i == req[r].slot
<1>1. \A x \in Requests : req[x].slot = i => x = r
  BY Alone
<1>2. i # 0 /\ EmptySlot.kind = "None"
  BY PoolAssumption DEF Slots, EmptySlot
<1>3. ASSUME NEW rq2, Changed(req, rq2, r, n) PROVE Local(i, EmptySlot, rq2, <<>>)
  BY <1>1, <1>2, <1>3, EmptyLocal DEF Changed
<1> HIDE DEF i
<1>4. Left(i, r, n, EmptySlot)
  BY <1>2, <1>3 DEF Left
<1> QED
  BY <1>4 DEF i

\* The only holder leaves a TCP connection that its exchange left in order: the socket is
\* alive, because no one is left to fail, and nothing is on the wire.
LEMMA LastLeft ==
    ASSUME IInv, JInv, NEW r \in Requests, req[r].phase = "done", req[r].status = "ok",
           NEW s, s = pool.slots[req[r].slot], s.kind = "Tcp", ~s.closeWhenIdle, Bound(s) = 1,
           NEW n, n.slot = 0, NEW t, t.kind = "Tcp", ~t.inUse, t.alive = s.alive,
           t.opened = s.opened, t.h1Leases = 0, t.h2Leases = 0, t.h3Leases = s.h3Leases,
           t.h3Max = s.h3Max, ~t.buffered, ~t.broken, ~t.closeWhenIdle, t.recvSeq <= t.sendSeq
    PROVE  Left(req[r].slot, r, n, t)
<1> DEFINE i == req[r].slot
           u == wire[i]
<1>1. req[r].phase \notin Unheld
  BY DEF Unheld
<1>2. i \in Slots /\ HeldOK(s) /\ Local(i, s, req, u) /\ u \in Seq(Requests)
  BY <1>1, HolderLocal
<1>3. \A x \in Requests : req[x].slot = i => x = r
  BY <1>2, Alone
<1>4. s.alive
  <2>1. ~Pending(req[r])
    BY DEF Pending
  <2> QED
    BY <1>2, <1>3, <2>1 DEF Local, SocketOK, HeldOK
<1>5. u = <<>>
  <2> SUFFICES ASSUME u # <<>> PROVE FALSE
    OBVIOUS
  <2>1. 1 \in 1..Len(u) /\ u[1] \in Requests
    BY <1>2
  <2>2. req[u[1]].slot = i /\ req[u[1]].phase \in Unanswered
    BY <1>2, <2>1 DEF Local, WireOK, InOrder
  <2> QED
    BY <1>3, <2>1, <2>2 DEF Unanswered
<1>6. Tidy(t)
  BY <1>2, <1>4, PoolAssumption, SMTT(30) DEF Local, Tidy
<1>i. i # 0
  BY <1>2, PoolAssumption DEF Slots
<1>7. ASSUME NEW rq2, Changed(req, rq2, r, n) PROVE Local(i, t, rq2, u)
  BY <1>3, <1>i, <1>7, <1>4, <1>5, <1>6, UnheldLocal DEF Changed
<1> HIDE DEF i
<1>8. Left(i, r, n, t)
  BY <1>7 DEF Left, u
<1> QED
  BY <1>8 DEF i

\* A request leaves, its connection stays in use or begins to close.
LEMMA DropLocal ==
    ASSUME NEW i, NEW s, NEW t, NEW rq, NEW rq2, NEW u \in Seq(Requests), Local(i, s, rq, u),
           NEW r \in Requests, NEW n, Changed(rq, rq2, r, n), rq[r].phase = "done", n.slot # i,
           Tidy(t), StreamsOK(i, t, rq2),
           t.kind = s.kind, t.opened = s.opened, t.alive = s.alive,
           t.sendSeq = s.sendSeq, t.recvSeq = s.recvSeq,
           t.h1Leases = 0 => s.h1Leases = 0, s.closeWhenIdle => t.closeWhenIdle,
           t.kind = "Tcp" => /\ t.inUse = s.inUse /\ t.keepAlive = s.keepAlive
                             /\ t.closeWhenIdle \/ rq[r].status = "ok"
    PROVE  Local(i, t, rq2, u)
<1>0. \A k \in 1..Len(u) : u[k] \in Requests
  OBVIOUS
<1>1. rq2[r] = n /\ \A x \in Requests : x # r => rq2[x] = rq[x]
  BY DEF Changed
<1>2. SocketOK(i, t, rq2)
  <2> SUFFICES ASSUME t.kind = "Tcp", t.inUse, ~t.keepAlive, ~t.closeWhenIdle, ~t.alive
               PROVE  \E x \in Requests : rq2[x].slot = i /\ Pending(rq2[x])
    BY DEF SocketOK
  <2>1. PICK x \in Requests : rq[x].slot = i /\ Pending(rq[x])
    BY DEF Local, SocketOK
  <2>2. x # r
    BY <2>1 DEF Pending
  <2> QED
    BY <1>1, <2>1, <2>2
<1>3. TransportOK(i, t, rq2)
  BY <1>1 DEF Local, TransportOK
<1>4. OrderOK(i, t, rq2)
  BY <1>1 DEF Local, OrderOK
<1>5. WireOK(i, t, rq2, u)
  BY <1>0, <1>1 DEF InOrder, Unanswered, OnWire, Local, WireOK
<1> QED
  BY <1>2, <1>3, <1>4, <1>5 DEF Local

\* The same, for the request and the wire of slot i.
LEMMA DropLeft ==
    ASSUME IInv, JInv, NEW r \in Requests, req[r].phase = "done",
           NEW s, s = pool.slots[req[r].slot], NEW n, n.slot = 0, NEW t, Tidy(t),
           \A rq2 : Changed(req, rq2, r, n) => StreamsOK(req[r].slot, t, rq2),
           t.kind = s.kind, t.opened = s.opened, t.alive = s.alive,
           t.sendSeq = s.sendSeq, t.recvSeq = s.recvSeq,
           t.h1Leases = 0 => s.h1Leases = 0, s.closeWhenIdle => t.closeWhenIdle,
           t.kind = "Tcp" => /\ t.inUse = s.inUse /\ t.keepAlive = s.keepAlive
                             /\ t.closeWhenIdle \/ req[r].status = "ok"
    PROVE  Left(req[r].slot, r, n, t)
<1> DEFINE i == req[r].slot
           u == wire[i]
<1>1. req[r].phase \notin Unheld
  BY DEF Unheld
<1>2. i \in Slots /\ Local(i, s, req, u) /\ u \in Seq(Requests)
  BY <1>1, HolderLocal
<1>3. i # 0 /\ (t.kind # "Tcp" => u = <<>>)
  BY <1>2, PoolAssumption, SMTT(30) DEF Slots, Local, WireOK
<1>4. ASSUME NEW rq2, Changed(req, rq2, r, n) PROVE Local(i, t, rq2, u)
  BY <1>2, <1>3, <1>4, DropLocal
<1> HIDE DEF i
<1>5. Left(i, r, n, t)
  BY <1>3, <1>4 DEF Left, u
<1> QED
  BY <1>5 DEF i

\* The facts that every release starts from.
LEMMA DoneHolder ==
    ASSUME IInv, JInv, NEW r \in Requests, req[r].phase = "done"
    PROVE  LET i == req[r].slot
               s == pool.slots[i]
           IN  /\ i \in Slots /\ pool \in PoolRecords /\ s \in SlotRecords /\ SlotOK(s) /\ HeldOK(s)
               /\ Tidy(s) /\ s.kind = req[r].job.key.kind /\ req[r] \in RequestRecords
               /\ Local(i, s, req, wire[i])
<1>1. req[r].phase \notin Unheld
  BY DEF Unheld
<1> QED
  BY <1>1, HolderLocal DEF Local

\* ConnectionPoolRelease of an HTTP/2 stream lease.
LEMMA ReleaseHttp2Left ==
    ASSUME IInv, JInv, NEW r \in Requests, req[r].phase = "done", NEW i, i = req[r].slot,
           pool.slots[i].h2Leases # 0, NEW reusable \in BOOLEAN,
           reusable => req[r].status = "ok", NEW n, n.slot = 0
    PROVE  Left(i, r, n, ReleaseHttp2(pool, i, reusable).slots[i])
<1> DEFINE s == pool.slots[i]
           m == s.h2Leases - 1
           b == s.closeWhenIdle \/ ~reusable
           t == [s EXCEPT !.h2Leases = m, !.closeWhenIdle = b]
           u == [t EXCEPT !.inUse = FALSE, !.expired = FALSE]
<1>1. /\ i \in Slots /\ pool \in PoolRecords /\ s \in SlotRecords /\ SlotOK(s) /\ HeldOK(s)
      /\ Tidy(s) /\ s.h2Leases \in Nat \ {0} /\ m \in Nat /\ m = s.h2Leases - 1 /\ b \in BOOLEAN
      /\ s = pool.slots[req[r].slot]
  BY DoneHolder DEF SlotRecords
<1>h. s \in SlotRecords /\ m \in Nat /\ b \in BOOLEAN
  BY <1>1
<1>2. /\ s.kind = "Tcp" /\ s.h1Leases = 0 /\ s.h3Leases = 0
      /\ Bound(s) = IF m = 0 THEN 1 ELSE m + 1
  <2>1. s.kind = "Tcp" /\ s.h1Leases = 0 /\ s.h3Leases = 0
    BY <1>1 DEF SlotOK
  <2>2. Bound(s) = s.h2Leases
    BY <1>1, <2>1 DEF Bound, Leases
  <2> QED
    BY <1>1, <2>1, <2>2
<1>b. (s.closeWhenIdle => b) /\ (b \/ (~s.closeWhenIdle /\ req[r].status = "ok"))
  BY <1>1
<1>3. ReleaseHttp2(pool, i, reusable) = IF t.h2Leases # 0 THEN Update(pool, i, t)
                                        ELSE IF t.closeWhenIdle THEN Detach(pool, i)
                                        ELSE Update(pool, i, u)
  BY DEF ReleaseHttp2
<1> HIDE DEF s, m, b
<1>4. /\ t \in SlotRecords /\ t.h2Leases = m /\ t.closeWhenIdle = b /\ t.kind = s.kind
      /\ t.opened = s.opened /\ t.alive = s.alive /\ t.inUse = s.inUse
      /\ t.keepAlive = s.keepAlive /\ t.h1Leases = s.h1Leases /\ t.h3Leases = s.h3Leases
      /\ t.h3Max = s.h3Max /\ t.sendSeq = s.sendSeq /\ t.recvSeq = s.recvSeq
      /\ t.broken = s.broken /\ t.buffered = s.buffered
  BY <1>h DEF SlotRecords
<1> HIDE DEF t
<1>5. /\ u \in SlotRecords /\ u.h2Leases = m /\ u.closeWhenIdle = b /\ u.kind = s.kind
      /\ u.opened = s.opened /\ u.alive = s.alive /\ ~u.inUse
      /\ u.h1Leases = s.h1Leases /\ u.h3Leases = s.h3Leases
      /\ u.h3Max = s.h3Max /\ u.sendSeq = s.sendSeq /\ u.recvSeq = s.recvSeq
      /\ u.broken = s.broken /\ u.buffered = s.buffered
  BY <1>4 DEF SlotRecords
<1> HIDE DEF u
<1>6. CASE m # 0
  <2>1. Tidy(t)
    BY <1>1, <1>2, <1>b, <1>4, <1>6, PoolAssumption, SMTT(30) DEF Tidy
  <2>2. \A rq2 : StreamsOK(req[r].slot, t, rq2)
    BY <1>2, <1>4 DEF StreamsOK
  <2>3. t.kind = "Tcp" => /\ t.inUse = s.inUse /\ t.keepAlive = s.keepAlive
                          /\ t.closeWhenIdle \/ req[r].status = "ok"
    BY <1>b, <1>4
  <2>4. Left(req[r].slot, r, n, t)
    BY <1>1, <1>b, <1>4, <2>1, <2>2, <2>3, DropLeft, ZenonT(40)
  <2>5. Update(pool, i, t).slots[i] = t
    BY <1>1, <1>4, UpdateFields
  <2> QED
    BY <1>3, <1>4, <1>6, <2>4, <2>5
<1>7. CASE m = 0 /\ b
  BY <1>1, <1>2, <1>7, EmptyLeft, DetachFields, <1>3, <1>4
<1>8. CASE m = 0 /\ ~b
  <2>1. ~s.closeWhenIdle /\ req[r].status = "ok"
    BY <1>b, <1>8
  <2>2. ~u.buffered /\ ~u.broken /\ u.recvSeq <= u.sendSeq
    BY <1>1, <1>2, <1>5, <2>1 DEF Tidy
  <2>3. Left(req[r].slot, r, n, u)
    BY <1>1, <1>2, <1>5, <1>8, <2>1, <2>2, LastLeft
  <2>4. Update(pool, i, u).slots[i] = u
    BY <1>1, <1>5, UpdateFields
  <2> QED
    BY <1>3, <1>4, <1>8, <2>3, <2>4
<1> QED
  BY <1>1, <1>6, <1>7, <1>8

\* ConnectionPoolRelease of a pipeline lease.
LEMMA ReleaseHttp1PipelineLeft ==
    ASSUME IInv, JInv, NEW r \in Requests, req[r].phase = "done", NEW i, i = req[r].slot,
           pool.slots[i].h1Leases # 0, NEW reusable \in BOOLEAN,
           reusable => req[r].status = "ok", NEW n, n.slot = 0
    PROVE  Left(i, r, n, ReleaseHttp1Pipeline(pool, i, reusable).slots[i])
<1> DEFINE s == pool.slots[i]
           m == s.h1Leases - 1
           b == s.closeWhenIdle \/ ~reusable
           c == s.broken \/ ~reusable
           t == [s EXCEPT !.h1Leases = m, !.closeWhenIdle = b, !.broken = c]
           u == [t EXCEPT !.sendSeq = 1, !.recvSeq = 1, !.broken = FALSE,
                          !.inUse = FALSE, !.expired = FALSE]
<1>1. /\ i \in Slots /\ pool \in PoolRecords /\ s \in SlotRecords /\ SlotOK(s) /\ HeldOK(s)
      /\ Tidy(s) /\ s.h1Leases \in Nat \ {0} /\ m \in Nat /\ m = s.h1Leases - 1
      /\ b \in BOOLEAN /\ c \in BOOLEAN /\ s = pool.slots[req[r].slot]
  BY DoneHolder DEF SlotRecords
<1>h. s \in SlotRecords /\ m \in Nat /\ b \in BOOLEAN /\ c \in BOOLEAN
  BY <1>1
<1>2. /\ s.kind = "Tcp" /\ s.h2Leases = 0 /\ s.h3Leases = 0
      /\ Bound(s) = IF m = 0 THEN 1 ELSE m + 1
  <2>1. s.kind = "Tcp" /\ s.h2Leases = 0 /\ s.h3Leases = 0
    BY <1>1 DEF SlotOK
  <2>2. Bound(s) = s.h1Leases
    BY <1>1, <2>1 DEF Bound, Leases
  <2> QED
    BY <1>1, <2>1, <2>2
<1>b. /\ s.closeWhenIdle => b
      /\ b \/ (~s.closeWhenIdle /\ req[r].status = "ok")
      /\ c => b
  BY <1>1 DEF Tidy
<1>3. ReleaseHttp1Pipeline(pool, i, reusable) =
          IF t.h1Leases # 0 THEN Update(pool, i, t)
          ELSE IF t.closeWhenIdle \/ t.buffered THEN Detach(pool, i)
          ELSE Update(pool, i, u)
  BY DEF ReleaseHttp1Pipeline
<1> HIDE DEF s, m, b, c
<1>4. /\ t \in SlotRecords /\ t.h1Leases = m /\ t.closeWhenIdle = b /\ t.broken = c
      /\ t.kind = s.kind /\ t.opened = s.opened /\ t.alive = s.alive /\ t.inUse = s.inUse
      /\ t.keepAlive = s.keepAlive /\ t.h2Leases = s.h2Leases /\ t.h3Leases = s.h3Leases
      /\ t.h3Max = s.h3Max /\ t.sendSeq = s.sendSeq /\ t.recvSeq = s.recvSeq
      /\ t.buffered = s.buffered
  BY <1>h, ZenonT(40) DEF SlotRecords
<1> HIDE DEF t
<1>5. /\ u \in SlotRecords /\ u.h1Leases = m /\ u.closeWhenIdle = b /\ ~u.broken
      /\ u.kind = s.kind /\ u.opened = s.opened /\ u.alive = s.alive /\ ~u.inUse
      /\ u.h2Leases = s.h2Leases /\ u.h3Leases = s.h3Leases /\ u.h3Max = s.h3Max
      /\ u.sendSeq = 1 /\ u.recvSeq = 1 /\ u.buffered = s.buffered
  BY <1>4, ZenonT(40) DEF SlotRecords
<1> HIDE DEF u
<1>6. CASE m # 0
  <2>1. Tidy(t)
    BY <1>1, <1>2, <1>b, <1>4, <1>6, PoolAssumption, SMTT(30) DEF Tidy
  <2>2. \A rq2 : StreamsOK(req[r].slot, t, rq2)
    BY <1>2, <1>4 DEF StreamsOK
  <2>3. t.kind = "Tcp" => /\ t.inUse = s.inUse /\ t.keepAlive = s.keepAlive
                          /\ t.closeWhenIdle \/ req[r].status = "ok"
    BY <1>b, <1>4
  <2>4. Left(req[r].slot, r, n, t)
    BY <1>1, <1>b, <1>4, <1>6, <2>1, <2>2, <2>3, DropLeft
  <2>5. Update(pool, i, t).slots[i] = t
    BY <1>1, <1>4, UpdateFields
  <2> QED
    BY <1>3, <1>4, <1>6, <2>4, <2>5
<1>7. CASE m = 0 /\ (b \/ s.buffered)
  <2>1. Left(req[r].slot, r, n, EmptySlot)
    BY <1>1, <1>2, <1>7, EmptyLeft
  <2>2. Detach(pool, i).slots[i] = EmptySlot
    BY <1>1, DetachFields
  <2> QED
    BY <1>3, <1>4, <1>7, <2>1, <2>2
<1>8. CASE m = 0 /\ ~b /\ ~s.buffered
  <2>1. ~s.closeWhenIdle /\ req[r].status = "ok" /\ u.recvSeq <= u.sendSeq
    BY <1>b, <1>5, <1>8
  <2>3. Left(req[r].slot, r, n, u)
    BY <1>1, <1>2, <1>5, <1>8, <2>1, LastLeft, ZenonT(40)
  <2>4. Update(pool, i, u).slots[i] = u
    BY <1>1, <1>5, UpdateFields
  <2> QED
    BY <1>3, <1>4, <1>8, <2>3, <2>4
<1> QED
  BY <1>1, <1>6, <1>7, <1>8

\* ConnectionPoolRelease of an exclusive connection.
LEMMA ReleaseExclusiveLeft ==
    ASSUME IInv, JInv, NEW r \in Requests, req[r].phase = "done", NEW i, i = req[r].slot,
           pool.slots[i].kind = "Tcp", pool.slots[i].h2Leases = 0, pool.slots[i].h1Leases = 0,
           NEW reusable \in BOOLEAN, reusable => req[r].status = "ok", NEW n, n.slot = 0
    PROVE  Left(i, r, n, ReleaseExclusive(pool, i, reusable).slots[i])
<1> DEFINE s == pool.slots[i]
           u == [s EXCEPT !.inUse = FALSE, !.expired = FALSE]
<1>1. /\ i \in Slots /\ pool \in PoolRecords /\ s \in SlotRecords /\ SlotOK(s) /\ HeldOK(s)
      /\ Tidy(s) /\ s = pool.slots[req[r].slot]
      /\ s.kind = "Tcp" /\ s.h2Leases = 0 /\ s.h1Leases = 0
  BY DoneHolder
<1>2. s.h3Leases = 0 /\ Bound(s) = 1
  BY <1>1, SMTT(30) DEF SlotOK, Bound, Leases
<1>3. ReleaseExclusive(pool, i, reusable) = IF reusable THEN Update(pool, i, u)
                                                        ELSE Detach(pool, i)
  BY DEF ReleaseExclusive
<1> HIDE DEF s
<1>5. /\ u \in SlotRecords /\ u.closeWhenIdle = s.closeWhenIdle /\ u.broken = s.broken
      /\ u.kind = s.kind /\ u.opened = s.opened /\ u.alive = s.alive /\ ~u.inUse
      /\ u.h1Leases = s.h1Leases /\ u.h2Leases = s.h2Leases /\ u.h3Leases = s.h3Leases
      /\ u.h3Max = s.h3Max /\ u.sendSeq = s.sendSeq /\ u.recvSeq = s.recvSeq
      /\ u.buffered = s.buffered
  BY <1>1, ZenonT(40) DEF SlotRecords
<1> HIDE DEF u
<1>6. CASE reusable
  <2>1. /\ ~s.closeWhenIdle /\ req[r].status = "ok" /\ ~u.buffered /\ ~u.broken
        /\ u.recvSeq <= u.sendSeq
    BY <1>1, <1>5, <1>6 DEF Tidy
  <2>2. Left(req[r].slot, r, n, u)
    BY <1>1, <1>2, <1>5, <2>1, LastLeft
  <2>3. Update(pool, i, u).slots[i] = u
    BY <1>1, <1>5, UpdateFields
  <2> QED
    BY <1>3, <1>6, <2>2, <2>3
<1>7. CASE ~reusable
  BY <1>1, <1>2, EmptyLeft, DetachFields, <1>3, <1>7
<1> QED
  BY <1>6, <1>7

\* A lease of a QUIC connection is given back: it was its holder's own, or there was none.
LEMMA StreamsDrop ==
    ASSUME NEW i, NEW s \in SlotRecords, NEW t, NEW rq, NEW rq2, StreamsOK(i, s, rq),
           NEW r \in Requests, NEW n, Changed(rq, rq2, r, n), rq[r].slot = i, n.slot # i,
           s.kind = "Quic", s.h3Leases <= s.h3Max, t.h3Max = s.h3Max,
           t.h3Leases = IF s.h3Leases = 0 THEN 0 ELSE s.h3Leases - 1
    PROVE  StreamsOK(i, t, rq2)
<1>0. rq2[r] = n /\ \A x \in Requests : x # r => rq2[x] = rq[x]
  BY DEF Changed
<1>1. s.h3Leases \in Nat /\ s.h3Max \in Nat
  BY DEF SlotRecords
<1>2. Counted3(rq2, i) = Counted3(rq, i) \ {r}
  BY <1>0 DEF Counted3
<1>3. IsFiniteSet(Counted3(rq, i)) /\ s.h3Leases = Cardinality(Counted3(rq, i))
  BY SendAssumption, FS_Subset DEF Counted3, StreamsOK
<1>4. t.h3Leases = Cardinality(Counted3(rq2, i))
  <2>1. CASE r \in Counted3(rq, i)
    BY <1>3, <2>1, FS_RemoveElement, FS_EmptySet, <1>1, <1>2
  <2>2. CASE r \notin Counted3(rq, i)
    <3>1. s.h3Leases = 0
      BY <1>1, <2>2 DEF StreamsOK, Counted3
    <3>2. Counted3(rq2, i) = Counted3(rq, i)
      BY <1>2, <2>2
    <3> QED
      BY <1>3, <3>1, <3>2
  <2> QED
    BY <2>1, <2>2
<1>5. \A x \in Requests : rq2[x].slot = i /\ ~(rq2[x].reused \/ rq2[x].used) => t.h3Max = 0
  BY <1>0 DEF StreamsOK
<1> QED
  BY <1>4, <1>5 DEF StreamsOK

\* ConnectionPoolReleaseHttp3StreamLease: the connection stays, idle, shared or closing.
LEMMA ReleaseHttp3Left ==
    ASSUME IInv, JInv, NEW r \in Requests, req[r].phase = "done", NEW i, i = req[r].slot,
           pool.slots[i].kind = "Quic", NEW reusable \in BOOLEAN, NEW n, n.slot = 0
    PROVE  Left(i, r, n, ReleaseHttp3(pool, i, reusable).slots[i])
<1> DEFINE s == pool.slots[i]
           m == IF s.h3Leases = 0 THEN 0 ELSE s.h3Leases - 1
           a == m # 0
           b == s.closeWhenIdle \/ ~reusable
           t == [s EXCEPT !.h3Leases = m, !.active = a, !.closeWhenIdle = b]
           u == [t EXCEPT !.inUse = FALSE, !.expired = FALSE]
           d == Update(pool, i, t)
           w == ReleaseHttp3(pool, i, reusable).slots[i]
<1>1. /\ i \in Slots /\ pool \in PoolRecords /\ s \in SlotRecords /\ PoolOK(pool) /\ HeldOK(s)
      /\ Tidy(s) /\ StreamsOK(i, s, req) /\ s.kind = "Quic" /\ s = pool.slots[req[r].slot]
  BY DoneHolder DEF Local, IInv
<1>h. /\ m = (IF s.h3Leases = 0 THEN 0 ELSE s.h3Leases - 1)
      /\ s.h3Leases \in Nat /\ s.h3Max \in Nat
  BY <1>1 DEF SlotRecords
<1>m. m \in Nat
  BY <1>h
<1>t. s \in SlotRecords /\ m \in Nat /\ a \in BOOLEAN /\ b \in BOOLEAN
  BY <1>1, <1>m DEF SlotRecords
<1>b. s.closeWhenIdle => b
  BY <1>1
<1>2. ReleaseHttp3(pool, i, reusable) = IF m # 0 THEN d
                                        ELSE IF t.closeWhenIdle \/ t.unusable THEN TryBeginClose(d, i)
                                        ELSE Update(pool, i, u)
  BY DEF ReleaseHttp3
<1> HIDE DEF s, m, a, b
<1>3. /\ t \in SlotRecords /\ t.h3Leases = m /\ t.closeWhenIdle = b /\ t.kind = s.kind
      /\ t.opened = s.opened /\ t.alive = s.alive /\ t.h2Leases = s.h2Leases
      /\ t.h1Leases = s.h1Leases /\ t.h3Max = s.h3Max /\ t.sendSeq = s.sendSeq
      /\ t.recvSeq = s.recvSeq /\ t.broken = s.broken
  BY <1>t, ZenonT(40) DEF SlotRecords
<1> HIDE DEF t
<1>4. /\ u \in SlotRecords /\ u.h3Leases = m /\ u.closeWhenIdle = b /\ u.kind = s.kind
      /\ u.opened = s.opened /\ u.alive = s.alive /\ u.h2Leases = s.h2Leases
      /\ u.h1Leases = s.h1Leases /\ u.h3Max = s.h3Max /\ u.sendSeq = s.sendSeq
      /\ u.recvSeq = s.recvSeq /\ u.broken = s.broken
  BY <1>3 DEF SlotRecords
<1> HIDE DEF u
<1>5. d.slots[i] = t /\ Update(pool, i, u).slots[i] = u
  BY <1>1, <1>3, <1>4, UpdateFields
<1>6. TryBeginClose(d, i).slots[i] = t \/ TryBeginClose(d, i).slots[i] = Shut(t)
  <2>1. d \in PoolRecords
    BY <1>1, <1>3, UpdateFields
  <2> HIDE DEF d
  <2>2. BeginClose(d, i).slots[i] = Shut(t)
    BY <1>1, <1>5, <2>1 DEF BeginClose, Shut, PoolRecords
  <2> QED
    BY <1>5, <2>2 DEF TryBeginClose
<1>7. w = t \/ w = u \/ w = Shut(t)
  <2> HIDE DEF d
  <2> QED
    BY <1>2, <1>5, <1>6
<1>8. /\ w.h3Leases = m /\ (b => w.closeWhenIdle) /\ w.kind = s.kind
      /\ w.opened = s.opened /\ w.alive = s.alive /\ w.h2Leases = s.h2Leases
      /\ w.h1Leases = s.h1Leases /\ w.h3Max = s.h3Max /\ w.sendSeq = s.sendSeq
      /\ w.recvSeq = s.recvSeq /\ w.broken = s.broken
  <2>1. /\ Shut(t).h3Leases = m /\ Shut(t).closeWhenIdle /\ Shut(t).kind = s.kind
        /\ Shut(t).opened = s.opened /\ Shut(t).alive = s.alive /\ Shut(t).h2Leases = s.h2Leases
        /\ Shut(t).h1Leases = s.h1Leases /\ Shut(t).h3Max = s.h3Max
        /\ Shut(t).sendSeq = s.sendSeq /\ Shut(t).recvSeq = s.recvSeq
        /\ Shut(t).broken = s.broken
    BY <1>3 DEF Shut, SlotRecords
  <2> HIDE DEF w
  <2> QED
    BY <1>3, <1>4, <1>7, <2>1
<1> HIDE DEF w
<1>9. Tidy(w)
  BY <1>1, <1>h, <1>b, <1>8, SMTT(30) DEF Tidy
<1>10. i # 0 /\ s.h3Leases <= s.h3Max
  BY <1>1, PoolAssumption DEF Slots, Tidy
<1>11. ASSUME NEW rq2, Changed(req, rq2, r, n) PROVE StreamsOK(i, w, rq2)
  BY <1>1, <1>h, <1>8, <1>10, <1>11, StreamsDrop
<1>12. \A rq2 : Changed(req, rq2, r, n) => StreamsOK(req[r].slot, w, rq2)
  BY <1>11
<1>13. Left(req[r].slot, r, n, w)
  BY <1>1, <1>b, <1>8, <1>9, <1>12, DropLeft
<1> QED
  BY <1>13 DEF w

\* SendSingleHttpRequest gives its connection back: "ok" only is reusable.
LEMMA FinishJ ==
    ASSUME IInv, JInv, NEW r \in Requests, Finish(r)
    PROVE  JInv'
<1> DEFINE i == req[r].slot
           n == NoRequest(req[r].job)
           reusable == CanReturnToPool(req[r])
           t == pool'.slots[i]
<1>1. /\ req[r].phase = "done" /\ pool' = Release(pool, i, reusable) /\ KeepWire(pool')
      /\ req' = [req EXCEPT ![r] = n]
  BY DEF Finish, At, Return, Become
<1>2. reusable \in BOOLEAN /\ (reusable => req[r].status = "ok")
  BY DEF CanReturnToPool
<1>3. /\ i \in Slots /\ HeldOK(pool.slots[i]) /\ PoolOK(pool) /\ pool.slots[i].kind \in {"Tcp", "Quic"}
  BY <1>1, DoneHolder DEF IInv, SlotRecords, SlotOK, HeldOK
<1>4. n.slot = 0 /\ FlagsOK(n)
  BY ReturnFlags
<1> HIDE DEF n, reusable
<1>5. \A j \in Slots : j # i => pool'.slots[j] = pool.slots[j]
  BY <1>1, <1>2, <1>3, ReleaseOK DEF Released
<1>6. Left(i, r, n, Release(pool, i, reusable).slots[i])
  BY <1>1, <1>2, <1>4, ReleaseHttp3Left, ReleaseHttp2Left, ReleaseHttp1PipelineLeft,
     ReleaseExclusiveLeft, <1>3 DEF Release
<1>7. Left(i, r, n, t) /\ t = pool'.slots[i]
  BY <1>1, <1>6
<1> HIDE DEF t, i
<1>8. i = req[r].slot /\ i \in Slots
  BY <1>3 DEF i
<1> QED
  BY <1>1, <1>4, <1>5, <1>7, <1>8, LeaveJ

\* The retry closes the connection it gives up, or marks it for those who share it.
LEMMA RetryCloseJ ==
    ASSUME IInv, JInv, NEW r \in Requests, RetryClose(r)
    PROVE  JInv'
<1> DEFINE i == req[r].slot
           n == [req[r] EXCEPT !.phase = "reacquire", !.slot = 0]
           s == pool.slots[i]
           b == s.broken \/ s.h1Leases # 0
           t == [s EXCEPT !.closeWhenIdle = TRUE, !.broken = b]
           w == pool'.slots[i]
<1>1. /\ req[r].phase = "done" /\ pool' = Close(pool, i) /\ KeepWire(pool')
      /\ req' = [req EXCEPT ![r] = n] /\ req[r].job.key.kind = "Tcp" /\ ~req[r].used
  BY DEF RetryClose, At, Become, ShouldRetry
<1>2. /\ i \in Slots /\ pool \in PoolRecords /\ s \in SlotRecords /\ SlotOK(s) /\ HeldOK(s)
      /\ Tidy(s) /\ s.kind = "Tcp" /\ req[r] \in RequestRecords /\ b \in BOOLEAN
      /\ s = pool.slots[req[r].slot]
  BY <1>1, DoneHolder
<1>3. n.slot = 0 /\ n.phase = "reacquire" /\ n.used = req[r].used
  BY <1>2 DEF RequestRecords
<1>4. FlagsOK(n)
  BY <1>1, <1>3 DEF FlagsOK
<1> HIDE DEF n
<1>5. CASE s.h1Leases # 0 \/ s.h2Leases # 0
  <2>1. pool' = Update(pool, i, t)
    BY <1>1, <1>5 DEF Close
  <2> HIDE DEF b
  <2>2. /\ t \in SlotRecords /\ t.closeWhenIdle /\ t.kind = s.kind /\ t.inUse = s.inUse
        /\ t.keepAlive = s.keepAlive /\ t.opened = s.opened /\ t.alive = s.alive
        /\ t.h2Leases = s.h2Leases /\ t.h1Leases = s.h1Leases /\ t.h3Leases = s.h3Leases
        /\ t.h3Max = s.h3Max /\ t.sendSeq = s.sendSeq /\ t.recvSeq = s.recvSeq
        /\ t.buffered = s.buffered
    BY <1>2 DEF SlotRecords
  <2> HIDE DEF t, s
  <2>3. Tidy(t)
    BY <1>2, <1>5, <2>2 DEF Tidy
  <2>4. \A rq2 : StreamsOK(req[r].slot, t, rq2)
    BY <1>2, <2>2 DEF StreamsOK
  <2>5. Left(req[r].slot, r, n, t)
    BY <1>1, <1>2, <1>3, <2>2, <2>3, <2>4, DropLeft
  <2>6. pool'.slots[i] = t /\ \A j \in Slots : j # i => pool'.slots[j] = pool.slots[j]
    BY <1>2, <2>1, <2>2, UpdateFields
  <2> QED
    BY <1>1, <1>2, <1>3, <1>4, <2>5, <2>6, LeaveJ
<1>6. CASE ~(s.h1Leases # 0 \/ s.h2Leases # 0)
  <2>1. pool' = Detach(pool, i)
    BY <1>1, <1>6 DEF Close
  <2>2. Bound(s) = 1
    BY <1>2, <1>6, SMTT(30) DEF SlotOK, Bound, Leases
  <2>3. Left(req[r].slot, r, n, EmptySlot)
    BY <1>2, <1>3, <2>2, EmptyLeft
  <2>4. pool'.slots[i] = EmptySlot /\ \A j \in Slots : j # i => pool'.slots[j] = pool.slots[j]
    BY <1>2, <2>1, DetachFields
  <2> QED
    BY <1>1, <1>2, <1>3, <1>4, <2>3, <2>4, LeaveJ
<1> QED
  BY <1>5, <1>6

----------------------------------------
(* The pool's other actors *)

\* A slot without holders and without anything on its wire changes.
LEMMA UnheldStep ==
    ASSUME IInv, JInv, NEW i \in Slots, \A x \in Requests : req[x].slot # i, req' = req,
           wire' = wire \/ KeepWire(pool'), wire[i] = <<>>,
           \A j \in Slots : j # i => pool'.slots[j] = pool.slots[j],
           NEW t, pool'.slots[i] = t, Local(i, t, req, <<>>)
    PROVE  JInv'
BY WireKept, LocalStep DEF KeepWire

\* The requests stay, and slot i is one that they cannot tell from the one it was.
LEMMA AlikeStep ==
    ASSUME IInv, JInv, NEW i \in Slots, req' = req, wire' = wire \/ KeepWire(pool'),
           \A j \in Slots : j # i => pool'.slots[j] = pool.slots[j],
           Alike(pool.slots[i], pool'.slots[i])
    PROVE  JInv'
<1> DEFINE t == pool'.slots[i]
<1>1. t = pool'.slots[i] /\ Alike(pool.slots[i], t)
  OBVIOUS
<1> HIDE DEF t
<1>2. Local(i, t, req, wire[i])
  BY <1>1, SlotLocal, AlikeLocal
<1>3. wire'[i] = wire[i] /\ \A j \in Slots : j # i => wire'[j] = wire[j]
  BY <1>1, WireKept DEF Alike
<1>4. Local(i, pool'.slots[i], req', wire'[i])
  BY <1>1, <1>2, <1>3
<1> QED
  BY <1>3, <1>4, LocalStep

\* BeginQuicCloseLocked: no holder of a QUIC connection can tell.
LEMMA ShutAlike ==
    ASSUME NEW s \in SlotRecords, s.kind = "Quic"
    PROVE  Alike(s, Shut(s))
BY DEF Shut, SlotRecords, Alike

\* The keep-alive sweep takes an idle connection, which is live, and gives it back.
LEMMA KeepAliveJ ==
    ASSUME IInv, JInv, NEW i \in Slots, KeepAliveBegin(i) \/ KeepAliveEnd(i)
    PROVE  JInv'
<1> DEFINE s == pool.slots[i]
           t == [s EXCEPT !.inUse = TRUE, !.keepAlive = TRUE]
           u == [s EXCEPT !.keepAlive = FALSE, !.inUse = FALSE, !.expired = FALSE]
<1>1. /\ pool \in PoolRecords /\ s \in SlotRecords /\ SlotOK(s) /\ Local(i, s, req, wire[i])
  BY SlotLocal
<1>2. /\ KeepAliveBegin(i) => KeepAliveDue(s) /\ pool' = Update(pool, i, t)
      /\ KeepAliveEnd(i) => s.keepAlive /\ (pool' = Update(pool, i, u) \/ pool' = Detach(pool, i))
      /\ req' = req /\ (wire' = wire \/ KeepWire(pool'))
  BY DEF KeepAliveBegin, KeepAliveEnd, BeginKeepAlive, EndKeepAlive
<1>3. ~HeldOK(s) /\ s.kind = "Tcp" /\ s.h2Leases = 0 /\ s.h1Leases = 0 /\ s.h3Leases = 0
  <2>1. CASE KeepAliveDue(s)
    BY <1>1, <2>1 DEF KeepAliveDue, IsIdleTcp, HeldOK, SlotOK
  <2>2. CASE s.keepAlive
    <3>1. s.kind = "Tcp" /\ Leases(s) = 0 /\ ~HeldOK(s)
      BY <1>1, <2>2 DEF HeldOK, SlotOK
    <3>2. s.h2Leases \in Nat /\ s.h1Leases \in Nat /\ s.h3Leases \in Nat
      BY <1>1 DEF SlotRecords
    <3>3. s.h2Leases + s.h1Leases + s.h3Leases = 0
      BY <3>1 DEF Leases
    <3> HIDE DEF s
    <3>4. s.h2Leases = 0 /\ s.h1Leases = 0 /\ s.h3Leases = 0
      BY <3>2, <3>3
    <3> QED
      BY <3>1, <3>4
  <2> QED
    BY <1>2, <2>1, <2>2
<1>4. Tidy(s) /\ wire[i] = <<>> /\ \A x \in Requests : req[x].slot # i
  BY <1>1, <1>3, NotHeld DEF Local, WireOK
<1>5. s.alive
  BY <1>2, <1>3, <1>4 DEF KeepAliveDue, IsIdleTcp, Tidy
<1> HIDE DEF s
<1>6. /\ t \in SlotRecords /\ t.kind = s.kind /\ t.opened = s.opened /\ t.alive = s.alive
      /\ t.h2Leases = s.h2Leases /\ t.h1Leases = s.h1Leases /\ t.h3Leases = s.h3Leases
      /\ t.h3Max = s.h3Max /\ t.sendSeq = s.sendSeq /\ t.recvSeq = s.recvSeq
      /\ t.buffered = s.buffered /\ t.closeWhenIdle = s.closeWhenIdle /\ t.broken = s.broken
  BY <1>1 DEF SlotRecords
<1>7. /\ u \in SlotRecords /\ u.kind = s.kind /\ u.opened = s.opened /\ u.alive = s.alive
      /\ u.h2Leases = s.h2Leases /\ u.h1Leases = s.h1Leases /\ u.h3Leases = s.h3Leases
      /\ u.h3Max = s.h3Max /\ u.sendSeq = s.sendSeq /\ u.recvSeq = s.recvSeq
      /\ u.buffered = s.buffered /\ u.closeWhenIdle = s.closeWhenIdle /\ u.broken = s.broken
  BY <1>1 DEF SlotRecords
<1> HIDE DEF t, u
<1>8. Tidy(t) /\ Tidy(u)
  BY <1>3, <1>4, <1>5, <1>6, <1>7 DEF Tidy
<1>9. Local(i, t, req, <<>>) /\ Local(i, u, req, <<>>) /\ Local(i, EmptySlot, req, <<>>)
  BY <1>3, <1>4, <1>5, <1>6, <1>7, <1>8, UnheldLocal, EmptyLocal
<1>10. PICK v \in {t, u, EmptySlot} :
          pool'.slots[i] = v /\ \A j \in Slots : j # i => pool'.slots[j] = pool.slots[j]
  <2>1. pool' = Update(pool, i, t) \/ pool' = Update(pool, i, u) \/ pool' = Detach(pool, i)
    BY <1>2
  <2>2. CASE pool' = Update(pool, i, t)
    BY <1>1, <1>6, <2>2, UpdateFields
  <2>3. CASE pool' = Update(pool, i, u)
    BY <1>1, <1>7, <2>3, UpdateFields
  <2>4. CASE pool' = Detach(pool, i)
    BY <1>1, <2>4, DetachFields
  <2> QED
    BY <2>1, <2>2, <2>3, <2>4
<1> QED
  BY <1>2, <1>4, <1>9, <1>10, UnheldStep

\* A GOAWAY or a connection error marks the connection, and may begin its close.
LEMMA QuicEventJ ==
    ASSUME IInv, JInv, NEW i \in Slots, QuicEvent(i)
    PROVE  JInv'
<1> DEFINE s == pool.slots[i]
           t == [s EXCEPT !.unusable = TRUE, !.closeWhenIdle = TRUE]
           d == Update(pool, i, t)
<1>1. pool \in PoolRecords /\ s \in SlotRecords /\ s.kind = "Quic"
  BY SlotLocal DEF QuicEvent
<1>2. pool' = d \/ pool' = BeginClose(d, i)
  BY DEF QuicEvent, QuicUnusable, TryBeginClose
<1> HIDE DEF s
<1>3. /\ t \in SlotRecords /\ t.kind = s.kind /\ t.opened = s.opened /\ t.alive = s.alive
      /\ t.h2Leases = s.h2Leases /\ t.h1Leases = s.h1Leases /\ t.h3Leases = s.h3Leases
      /\ t.h3Max = s.h3Max /\ t.sendSeq = s.sendSeq /\ t.recvSeq = s.recvSeq
      /\ t.buffered = s.buffered /\ t.closeWhenIdle
  BY <1>1 DEF SlotRecords
<1> HIDE DEF t
<1>4. Alike(s, t) /\ Alike(t, Shut(t))
  BY <1>1, <1>3, ShutAlike DEF Alike
<1>5. Alike(s, Shut(t))
  BY <1>1, <1>3, <1>4 DEF Alike
<1>6. /\ d \in PoolRecords /\ d.slots[i] = t
      /\ \A j \in Slots : j # i => d.slots[j] = pool.slots[j]
  BY <1>1, <1>3, UpdateFields
<1> HIDE DEF d
<1>7. /\ BeginClose(d, i).slots[i] = Shut(t)
      /\ \A j \in Slots : j # i => BeginClose(d, i).slots[j] = d.slots[j]
  BY <1>6 DEF BeginClose, Shut, PoolRecords
<1>8. /\ Alike(s, pool'.slots[i]) /\ \A j \in Slots : j # i => pool'.slots[j] = pool.slots[j]
  BY <1>2, <1>4, <1>5, <1>6, <1>7
<1> QED
  BY <1>8, AlikeStep DEF QuicEvent, s

\* The end of a close routine: the slot was nobody's.
LEMMA QuicCloseReturnsJ ==
    ASSUME IInv, JInv, NEW i \in Slots, QuicCloseReturns(i)
    PROVE  JInv'
<1>1. /\ i \in pool.started /\ pool' = CompleteQuicClose(pool, i) /\ req' = req /\ wire' = wire
  BY DEF QuicCloseReturns
<1>2. pool.slots[i].closing /\ pool \in PoolRecords /\ SlotOK(pool.slots[i])
  BY <1>1, SlotLocal DEF IInv, PoolOK, Closing
<1>3. pool.slots[i].kind = "Quic" /\ ~HeldOK(pool.slots[i])
  BY <1>2 DEF SlotOK, HeldOK
<1>4. wire[i] = <<>> /\ \A x \in Requests : req[x].slot # i
  BY <1>3, SlotLocal, NotHeld DEF Local, WireOK
<1>5. /\ pool'.slots[i] = EmptySlot
      /\ \A j \in Slots : j # i => pool'.slots[j] = pool.slots[j]
  BY <1>1, <1>2 DEF CompleteQuicClose, PoolRecords
<1> QED
  BY <1>1, <1>4, <1>5, EmptyLocal, UnheldStep

\* An idle connection ages.
LEMMA IdleTimeoutJ ==
    ASSUME IInv, JInv, NEW i \in Slots, IdleTimeout(i)
    PROVE  JInv'
<1>1. pool \in PoolRecords
  BY SlotLocal
<1> QED
  BY <1>1, AlikeUpdates, AlikeStep DEF IdleTimeout

\* Once every request is idle, nobody holds a slot.
LEMMA DrainedNone ==
    ASSUME IInv, Drained, NEW i \in Slots
    PROVE  \A x \in Requests : req[x].slot # i
<1>1. \A x \in Requests : req[x].phase = "idle" /\ ReqOK(req[x])
  BY DEF IInv, Drained, Busy, At
<1>2. i # 0
  BY PoolAssumption DEF Slots
<1> QED
  BY <1>1, <1>2 DEF ReqOK, Unheld

\* ConnectionPoolShutdown takes one slot.
LEMMA ShutdownStepJ ==
    ASSUME IInv, JInv, ShutdownStep
    PROVE  JInv'
<1>1. PICK i \in Slots : i \in ShutdownTargets(pool) /\ pool' = ShutdownOne(pool, i)
  BY DEF ShutdownStep, IsFirst
<1>2. req' = req /\ KeepWire(pool') /\ \A x \in Requests : req[x].slot # i
  BY DrainedNone DEF ShutdownStep
<1>3. pool \in PoolRecords /\ pool.slots[i] \in SlotRecords
  BY SlotLocal
<1>4. CASE pool.slots[i].kind = "Tcp"
  <2> DEFINE rq == req'
             v == wire'[i]
  <2>1. /\ pool'.slots[i] = EmptySlot
        /\ \A j \in Slots : j # i => pool'.slots[j] = pool.slots[j]
    BY <1>1, <1>3, <1>4, DetachFields DEF ShutdownOne
  <2>2. wire'[i] = <<>>
    BY <1>2, <2>1 DEF KeepWire, EmptySlot
  <2>3. Local(i, pool'.slots[i], req', wire'[i])
    BY <1>2, <2>1, <2>2, EmptyLocal
  <2>4. \A j \in Slots : j # i => wire'[j] = wire[j]
    BY <1>2, <2>1, WireKept
  <2> QED
    BY <1>2, <2>1, <2>3, <2>4, LocalStep
<1>5. CASE pool.slots[i].kind # "Tcp"
  BY <1>1, <1>5, <1>3, ShutAlike, <1>2, AlikeStep DEF ShutdownTargets, ShutdownOne, BeginClose,
     Shut, PoolRecords
<1> QED
  BY <1>4, <1>5

\* ConnectionPoolShutdown ends: with the last TCP connection went the last byte.
LEMMA ShutdownEndJ ==
    ASSUME IInv, JInv, ShutdownEnd
    PROVE  JInv'
<1>1. /\ ShutdownTargets(pool) = {} /\ Drained /\ pool' = EmptyPool /\ req' = req /\ wire' = wire
  BY DEF ShutdownEnd
<1>2. ASSUME NEW i \in Slots PROVE Local(i, pool'.slots[i], req', wire'[i])
  BY <1>1, SlotLocal, DrainedNone, EmptyLocal DEF ShutdownTargets, Local, WireOK, EmptyPool
<1>3. \A x \in Requests : FlagsOK(req'[x])
  BY <1>1 DEF JInv
<1> QED
  BY <1>2, <1>3 DEF JInv

----------------------------------------
(* The invariant *)

\* The session closes, or nothing happens.
LEMMA SameJ ==
    ASSUME JInv, UNCHANGED <<pool, req, wire>>
    PROVE  JInv'
<1>1. ASSUME NEW i \in Slots PROVE Local(i, pool'.slots[i], req', wire'[i])
  BY DEF JInv
<1>2. \A x \in Requests : FlagsOK(req'[x])
  BY DEF JInv
<1> QED
  BY <1>1, <1>2 DEF JInv

\* The connections are in order at first.
LEMMA InitJ == Init => JInv
<1> SUFFICES ASSUME Init PROVE JInv
  OBVIOUS
<1>1. ASSUME NEW x \in Requests PROVE req[x].slot = 0 /\ FlagsOK(req[x])
  BY ReturnFlags DEF Init
<1>2. ASSUME NEW i \in Slots PROVE Local(i, pool.slots[i], req, wire[i])
  <2>1. \A x \in Requests : req[x].slot # i
    BY <1>1, PoolAssumption DEF Slots
  <2>2. pool.slots[i] = EmptySlot /\ wire[i] = <<>>
    BY DEF Init, EmptyPool
  <2> QED
    BY <2>1, <2>2, EmptyLocal
<1> QED
  BY <1>1, <1>2 DEF JInv

\* Every step of every actor keeps them so.
LEMMA InductiveJ == IInv /\ JInv /\ [Next]_vars => JInv'
<1> SUFFICES ASSUME IInv, JInv, [Next]_vars PROVE JInv'
  OBVIOUS
<1>1. ASSUME NEW r \in Requests, NEW job \in Jobs, Start(r, job) PROVE JInv'
  BY <1>1, StartJ
<1>2. ASSUME NEW r \in Requests, RequestStep(r) PROVE JInv'
  BY <1>2, JoinJ, AcquiresJ, OpenedJ, CloseTransportResourcesJ, ConnectJ, SettleJ, SendHttp2J,
     SendPipelinedJ, PipelineBeginJ, PipelineSendJ, GivesUpJ, PipelineTurnJ, PipelineReceiveJ,
     PipelineCompleteJ, PipelineFailJ, QuicConnectJ, QuicConnectFailsJ, BindStreamJ,
     RetryCloseJ, FinishJ
  DEF RequestStep
<1>3. ASSUME NEW r \in Requests, SocketCloses(r) PROVE JInv'
  BY <1>3, SocketClosesJ
<1>4. ASSUME NEW i \in Slots,
             KeepAliveBegin(i) \/ KeepAliveEnd(i) \/ QuicEvent(i)
                \/ QuicCloseReturns(i) \/ IdleTimeout(i)
      PROVE  JInv'
  BY <1>4, KeepAliveJ, QuicEventJ, QuicCloseReturnsJ, IdleTimeoutJ
<1>5. CASE SessionClose
  BY <1>5, SameJ DEF SessionClose
<1>6. CASE ShutdownStep \/ ShutdownEnd
  BY <1>6, ShutdownStepJ, ShutdownEndJ
<1>7. CASE UNCHANGED vars
  BY <1>7, SameJ DEF vars
<1> QED
  BY <1>1, <1>2, <1>3, <1>4, <1>5, <1>6, <1>7 DEF Next, Closed

\* So both invariants always hold.
LEMMA BothHold == Spec => [](IInv /\ JInv)
  BY InitOK, InitJ, Inductive, InductiveJ, PTL DEF Spec

\* A pipelined request whose turn it is reads its own response: for any number of
\* requests and any depth, the order in which HttpSend.cpp hands out sequence numbers
\* is the order of the requests on the wire, and a failure that breaks it marks the
\* connection before anyone's turn comes.
THEOREM PipelineIsInOrder == Spec => []PipelineInOrder
<1>1. IInv /\ JInv => PipelineInOrder
  <2> SUFFICES ASSUME IInv, JInv, NEW r \in Requests, At(r, "pipe_recv"), CanTransfer(r)
               PROVE  wire[req[r].slot] # <<>> /\ Head(wire[req[r].slot]) = r
    BY DEF PipelineInOrder
  <2>1. /\ req[r].phase = "pipe_recv" /\ ~req[r].stale /\ pool.slots[req[r].slot].alive
        /\ req[r].phase \notin Unheld
    BY DEF At, CanTransfer, Conn, Unheld
  <2>2. /\ Local(req[r].slot, pool.slots[req[r].slot], req, wire[req[r].slot])
        /\ wire[req[r].slot] \in Seq(Requests)
    BY <2>1, HolderLocal
  <2>3. wire[req[r].slot] # <<>> /\ wire[req[r].slot][1] = r
    BY <2>1, <2>2 DEF Local, WireOK, OnWire
  <2> QED
    BY <2>2, <2>3
<1> QED
  BY <1>1, BothHold, PTL

\* A connection belongs to those who hold leases on it, within its limits, every HTTP/3
\* lease is some request's, and a connection comes back to the pool alive, unmarked and
\* with nothing of its last exchange left (ConnectionPoolRelease, ConnectionPoolClose).
THEOREM ConnectionsAreSound == Spec => []ConnectionsAreSafe
<1>1. IInv => HoldersOwn
  BY DEF IInv, Own, Held, HeldOK, Holders, Leases, Bound, HoldersOwn
<1>2. IInv /\ JInv => IdleIsClean
  <2> SUFFICES ASSUME IInv, JInv, NEW i \in Slots, IsIdleTcp(pool.slots[i])
               PROVE  /\ wire[i] = <<>> /\ ~pool.slots[i].buffered
                      /\ ~pool.slots[i].broken /\ ~pool.slots[i].closeWhenIdle
                      /\ pool.slots[i].opened /\ pool.slots[i].alive
    BY DEF IdleIsClean
  <2> QED
    BY SlotLocal DEF Local, Tidy, WireOK, IsIdleTcp
<1>3. IInv /\ JInv => LeasesWithinLimits
  <2> SUFFICES ASSUME IInv, JInv, NEW i \in Slots
               PROVE  /\ pool.slots[i].h2Leases <= MaxH2Streams
                      /\ pool.slots[i].h1Leases <= PipelineDepth
                      /\ pool.slots[i].h3Leases <= MaxH3Streams
    BY DEF LeasesWithinLimits
  <2>1. Tidy(pool.slots[i]) /\ pool.slots[i] \in SlotRecords
    BY SlotLocal DEF Local
  <2>2. pool.slots[i].h3Leases \in Nat /\ pool.slots[i].h3Max \in Nat /\ MaxH3Streams \in Nat
    BY <2>1, PoolAssumption DEF SlotRecords
  <2> QED
    BY <2>1, <2>2 DEF Tidy
<1>4. IInv /\ JInv => QuicLeasesExact
  <2> SUFFICES ASSUME IInv, JInv, NEW i \in Slots, pool.slots[i].kind = "Quic"
               PROVE  pool.slots[i].h3Leases =
                        Cardinality({r \in Holders(i) : req[r].reused \/ req[r].used})
    BY DEF QuicLeasesExact
  <2>1. Counted3(req, i) = {r \in Holders(i) : req[r].reused \/ req[r].used}
    BY DEF Counted3, Holders
  <2> QED
    BY <2>1, SlotLocal DEF Local, StreamsOK
<1>5. IInv /\ JInv => ConnectionsAreSafe
  BY <1>1, <1>2, <1>3, <1>4 DEF ConnectionsAreSafe
<1> QED
  BY <1>5, BothHold, PTL
=============================================================================
