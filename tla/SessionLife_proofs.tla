------------------------- MODULE SessionLife_proofs -------------------------
(* A handle outlives its operations (HandlesOutliveUse of SessionLife), for   *)
(* any finite number of threads, any sessions and any WebSockets.             *)
EXTENDS SessionLife, Integers, TLAPS, FiniteSetTheorems, SequenceTheorems

Kinds == {"Session", "WebSocket"}
Parts == {"workspace", "provider", "altSvc", "subscription", "pool", "keepAlive"}

\* The parts of a session that an operation on it may use.
Core == {"workspace", "provider", "altSvc", "pool"}

\* The first k entries of an order, and those behind them.
Done(order, k) == {order[i] : i \in 1..k}
Rest(order, k) == {order[i] : i \in (k + 1)..Len(order)}

\* The threads that have pinned a handle.
Pins(h) == {t \in Actors : thread[t].at = "operating" /\ thread[t].h = h}

\* Who builds a session or takes a handle apart.
Owns(t, h) == thread[t].at \in {"creating", "rollback", "closing"} /\ thread[t].h = h

SessionTypeOK ==
    /\ phase \in [Handles -> {"absent", "creating", "active", "draining", "freed"}]
    /\ inFlight \in [Handles -> Int]
    /\ held \in [Sessions -> SUBSET Parts]
    /\ table \in [Kinds -> Seq(Handles)]
    /\ thread \in [Actors -> [at : {"idle", "operating", "signal", "creating", "rollback",
                                    "closing", "close", "check", "failed"},
                              h : Handles \cup {"none"}, step : Nat]]

MonitorTypeOK ==
    monitor \in [state : {"down", "up", "stopping"}, event : BOOLEAN, pending : Nat, sent : Nat,
                 subscribers : SUBSET Sessions, worker : {"wait", "check", "snapshot", "call", "exited"},
                 snapshot : SUBSET Sessions, inCall : Sessions \cup {"none"}]

\* The counter is the number of threads inside an operation.
PinsCounted == \A h \in Handles : inFlight[h] = Cardinality(Pins(h))

\* A handle in the table is active, and there once.
TableOK ==
    \A k \in Kinds : \A i \in DOMAIN table[k] :
        /\ KindOf(table[k][i]) = k
        /\ phase[table[k][i]] = "active"
        /\ \A j \in DOMAIN table[k] : table[k][i] = table[k][j] => i = j

\* What a thread relies on at each point of its job.
ThreadOK(t) ==
    LET at == thread[t].at
        h == thread[t].h
        n == thread[t].step
    IN /\ at # "idle" => h \in Handles
       /\ at = "operating" => phase[h] \in {"active", "draining"}
       /\ at = "creating" => /\ h \in Sessions /\ phase[h] = "creating"
                             /\ n <= Len(CreateOrder) /\ Done(CreateOrder, n) \subseteq held[h]
       /\ at = "rollback" => /\ h \in Sessions /\ phase[h] = "creating"
                             /\ n <= Len(RollbackOrder) /\ held[h] \subseteq Rest(RollbackOrder, n)
       /\ at = "closing" => /\ phase[h] = "draining"
                            /\ h \in Sessions =>
                                  /\ n <= Len(CloseOrder) /\ held[h] \subseteq Rest(CloseOrder, n)
                                  /\ n >= 2 => inFlight[h] = 0

ThreadsOK == \A t \in Actors : ThreadOK(t)

\* Nobody builds or takes apart what another thread is building or taking apart.
OneOwner == \A t, u \in Actors : \A h \in Handles : Owns(t, h) /\ Owns(u, h) => t = u

\* What a session has in each phase of its life.
HeldOK ==
    \A s \in Sessions :
        /\ phase[s] = "active" => Core \subseteq held[s]
        /\ phase[s] = "draining" /\ inFlight[s] # 0 => Core \subseteq held[s]
        /\ phase[s] = "freed" => held[s] = {}
        /\ s \in monitor.subscribers => "subscription" \in held[s]

SessionInv ==
    /\ SessionTypeOK /\ MonitorTypeOK
    /\ PinsCounted /\ TableOK /\ ThreadsOK /\ OneOwner /\ HeldOK

----------------------------------------
(* Facts about the orders, the threads and the table.                        *)

\* The literal orders: their lengths, and what they run through.
LEMMA OrderFacts ==
    /\ Len(CreateOrder) = 6 /\ Len(RollbackOrder) = 6 /\ Len(CloseOrder) = 7
    /\ Core \subseteq Done(CreateOrder, 6)
    /\ Parts \subseteq Rest(RollbackOrder, 0) /\ Parts \subseteq Rest(CloseOrder, 0)
    /\ \A n \in 1..6 : CreateOrder[n] \in Parts
    /\ CloseOrder[1] \notin Core /\ CloseOrder[2] \notin Core
    /\ CloseOrder[2] = "drain"
<1>1. /\ Len(CreateOrder) = 6 /\ Len(RollbackOrder) = 6 /\ Len(CloseOrder) = 7
      /\ CloseOrder[1] = "subscription" /\ CloseOrder[2] = "drain"
  BY DEF CreateOrder, RollbackOrder, CloseOrder
<1>2. Core \subseteq Done(CreateOrder, 6)
  <2>1. /\ CreateOrder[1] = "workspace" /\ CreateOrder[2] = "provider"
        /\ CreateOrder[3] = "altSvc" /\ CreateOrder[5] = "pool"
    BY DEF CreateOrder
  <2> QED  BY <2>1 DEF Core, Done
<1>3. Parts \subseteq Rest(RollbackOrder, 0)
  <2>1. /\ RollbackOrder[1] = "keepAlive" /\ RollbackOrder[2] = "pool"
        /\ RollbackOrder[3] = "subscription" /\ RollbackOrder[4] = "altSvc"
        /\ RollbackOrder[5] = "provider" /\ RollbackOrder[6] = "workspace"
    BY DEF RollbackOrder
  <2> QED  BY <1>1, <2>1 DEF Parts, Rest
<1>4. Parts \subseteq Rest(CloseOrder, 0)
  <2>1. /\ CloseOrder[1] = "subscription" /\ CloseOrder[3] = "keepAlive"
        /\ CloseOrder[4] = "pool" /\ CloseOrder[5] = "altSvc"
        /\ CloseOrder[6] = "provider" /\ CloseOrder[7] = "workspace"
    BY DEF CloseOrder
  <2> QED  BY <1>1, <2>1 DEF Parts, Rest
<1>5. \A n \in 1..6 : CreateOrder[n] \in Parts
  BY DEF CreateOrder, Parts
<1> QED  BY <1>1, <1>2, <1>3, <1>4, <1>5 DEF Core

\* One entry further in an order.
LEMMA OneFurther ==
    ASSUME NEW order, NEW n \in Nat
    PROVE  /\ Done(order, n + 1) = Done(order, n) \cup {order[n + 1]}
           /\ Len(order) \in Nat /\ n + 1 <= Len(order) =>
                  Rest(order, n) \ {order[n + 1]} \subseteq Rest(order, n + 1)
           /\ Rest(order, Len(order)) = {} \/ Len(order) \notin Nat
           /\ Done(order, 0) = {}
BY DEF Done, Rest

\* There are finitely many actors, so pins can be counted.
LEMMA PinsFinite == \A h : IsFiniteSet(Pins(h)) /\ Cardinality(Pins(h)) \in Nat
<1>1. IsFiniteSet(Actors)
  BY SessionLifeConstants, FS_AddElement DEF Actors
<1> QED
  BY <1>1, FS_Subset, FS_CardinalityType DEF Pins

\* A handle that is in the table of its kind is active.
LEMMA ActiveIsActive ==
    ASSUME SessionInv, NEW h \in Handles, IsActiveHandle(h)
    PROVE  phase[h] = "active"
BY DEF SessionInv, TableOK, IsActiveHandle, KindOf, Kinds

\* A counter that is zero says that nobody operates on the handle.
LEMMA NobodyInside ==
    ASSUME SessionInv, NEW h \in Handles, inFlight[h] = 0, NEW t \in Actors,
           thread[t].at = "operating"
    PROVE  thread[t].h # h
<1>1. Cardinality(Pins(h)) = 0
  BY DEF SessionInv, PinsCounted
<1>2. Pins(h) = {}
  BY <1>1, PinsFinite, FS_EmptySet
<1> QED  BY <1>2 DEF Pins

----------------------------------------
(* Initially, and the steps one by one.                                      *)

\* In the initial state nobody works, nothing is held and no handle exists.
LEMMA InvInit == SessionInit => SessionInv
<1> SUFFICES ASSUME SessionInit PROVE SessionInv
  OBVIOUS
<1>1. SessionTypeOK /\ TableOK /\ ThreadsOK /\ OneOwner /\ HeldOK
  BY DEF SessionInit, SessionTypeOK, TableOK, ThreadsOK, ThreadOK, OneOwner, Owns, HeldOK, Idle,
         Kinds, Handles
<1>2. MonitorTypeOK
  BY Zenon DEF SessionInit, MonitorTypeOK
<1>3. PinsCounted
  <2>1. \A h : Pins(h) = {}
    BY DEF Pins, SessionInit, Idle
  <2> QED  BY <2>1, FS_EmptySet DEF PinsCounted, SessionInit
<1> QED  BY <1>1, <1>2, <1>3 DEF SessionInv

\* The monitor's own steps, which subscribe nobody.
LEMMA MonitorStep ==
    ASSUME SessionInv, MonitorTypeOK', monitor'.subscribers \subseteq monitor.subscribers,
           UNCHANGED <<phase, inFlight, held, table, thread>>
    PROVE  SessionInv'
BY DEF SessionInv, SessionTypeOK, PinsCounted, Pins, TableOK, ThreadsOK, ThreadOK, OneOwner, Owns,
       HeldOK

\* The monitor starts (NetworkChangeMonitor::Initialize).
LEMMA InvMonitorInitialize == SessionInv /\ MonitorInitialize => SessionInv'
<1> SUFFICES ASSUME SessionInv, MonitorInitialize PROVE SessionInv'
  OBVIOUS
<1>1. MonitorTypeOK' /\ monitor'.subscribers = monitor.subscribers
  BY DEF SessionInv, MonitorTypeOK, MonitorInitialize
<1> QED  BY <1>1, MonitorStep DEF MonitorInitialize

\* The interface callback counts a change.
LEMMA InvNotify == SessionInv /\ Notify => SessionInv'
<1> SUFFICES ASSUME SessionInv, Notify PROVE SessionInv'
  OBVIOUS
<1>1. monitor.pending + 1 \in Nat /\ monitor.sent + 1 \in Nat
  BY DEF SessionInv, MonitorTypeOK
<1>2. MonitorTypeOK' /\ monitor'.subscribers = monitor.subscribers
  BY <1>1, Zenon DEF SessionInv, MonitorTypeOK, Notify
<1> QED  BY <1>2, MonitorStep DEF Notify

\* The monitor's worker copies the subscribers and calls them back.
LEMMA InvWorkerStep == SessionInv /\ WorkerStep => SessionInv'
<1> SUFFICES ASSUME SessionInv, WorkerStep PROVE SessionInv'
  OBVIOUS
<1>1. CASE WorkerWakes
  <2>1. MonitorTypeOK' /\ monitor'.subscribers = monitor.subscribers
    BY <1>1 DEF SessionInv, MonitorTypeOK, WorkerWakes
  <2> QED  BY <1>1, <2>1, MonitorStep DEF WorkerWakes
<1>2. CASE TakeNotifications
  <2>1. MonitorTypeOK' /\ monitor'.subscribers = monitor.subscribers
    <3>1. CASE monitor.worker = "check"
      <4>1. CASE monitor.pending = 0
        BY <1>2, <3>1, <4>1 DEF SessionInv, MonitorTypeOK, TakeNotifications
      <4>2. CASE monitor.pending # 0
        <5>1. monitor' = [monitor EXCEPT !.pending = 0, !.worker = "snapshot"]
          BY <1>2, <3>1, <4>2 DEF TakeNotifications
        <5>2. 0 \in Nat
          OBVIOUS
        <5> QED  BY <5>1, <5>2, Zenon DEF SessionInv, MonitorTypeOK
      <4> QED  BY <4>1, <4>2
    <3>2. CASE monitor.worker = "snapshot"
      BY <1>2, <3>2 DEF SessionInv, MonitorTypeOK, TakeNotifications
    <3> QED  BY <1>2, <3>1, <3>2 DEF TakeNotifications
  <2> QED  BY <1>2, <2>1, MonitorStep DEF TakeNotifications
<1>3. CASE CallSubscriber
  <2>1. MonitorTypeOK' /\ monitor'.subscribers = monitor.subscribers
    <3>1. CASE monitor.snapshot = {}
      BY <1>3, <3>1 DEF SessionInv, MonitorTypeOK, CallSubscriber
    <3>2. CASE monitor.snapshot # {}
      <4>1. PICK s \in monitor.snapshot :
               monitor' = [monitor EXCEPT !.inCall = s, !.snapshot = @ \ {s}]
        BY <1>3, <3>2 DEF CallSubscriber
      <4>2. s \in Sessions /\ monitor.snapshot \ {s} \in SUBSET Sessions
        BY DEF SessionInv, MonitorTypeOK
      <4> QED  BY <4>1, <4>2 DEF SessionInv, MonitorTypeOK
    <3> QED  BY <3>1, <3>2
  <2> QED  BY <1>3, <2>1, MonitorStep DEF CallSubscriber
<1>4. CASE CallbackReturns
  <2>1. MonitorTypeOK' /\ monitor'.subscribers = monitor.subscribers
    BY <1>4 DEF SessionInv, MonitorTypeOK, CallbackReturns
  <2> QED  BY <1>4, <2>1, MonitorStep DEF CallbackReturns
<1> QED  BY <1>1, <1>2, <1>3, <1>4 DEF WorkerStep

\* The monitor stops and forgets its subscribers.
LEMMA InvMonitorShutdown == SessionInv /\ MonitorShutdown => SessionInv'
<1> SUFFICES ASSUME SessionInv, MonitorShutdown PROVE SessionInv'
  OBVIOUS
<1>1. MonitorTypeOK' /\ monitor'.subscribers \subseteq monitor.subscribers
  <2>1. CASE monitor.state = "up"
    BY <2>1 DEF SessionInv, MonitorTypeOK, MonitorShutdown
  <2>2. CASE monitor.state = "stopping"
    <3>1. monitor' = [monitor EXCEPT !.state = "down", !.subscribers = {}, !.pending = 0]
      BY <2>2 DEF MonitorShutdown
    <3>2. 0 \in Nat /\ {} \in SUBSET Sessions
      OBVIOUS
    <3> QED  BY <3>1, <3>2, Zenon DEF SessionInv, MonitorTypeOK
  <2>3. CASE monitor.state = "down"
    BY <2>3 DEF SessionInv, MonitorTypeOK, MonitorShutdown
  <2> QED  BY <2>1, <2>2, <2>3 DEF MonitorShutdown
<1> QED  BY <1>1, MonitorStep DEF MonitorShutdown

----------------------------------------
(* The threads' steps.                                                       *)

\* A thread that goes from one place outside operations to another leaves the pins.
LEMMA PinsKept ==
    ASSUME SessionInv, NEW t \in Actors, thread[t].at # "operating",
           NEW d, d.at # "operating", thread' = [thread EXCEPT ![t] = d], UNCHANGED inFlight
    PROVE  PinsCounted'
<1>1. ASSUME NEW u \in Actors PROVE thread'[u] = IF u = t THEN d ELSE thread[u]
  BY DEF SessionInv, SessionTypeOK
<1>2. \A h : Pins(h)' = Pins(h)
  BY <1>1 DEF Pins
<1> QED  BY <1>2 DEF SessionInv, PinsCounted

\* A call pins its handle: one more thread inside, one more counted.
LEMMA InvBegin ==
    ASSUME SessionInv, NEW t \in Threads, NEW h \in Handles, BeginHandleOperation(t, h)
    PROVE  SessionInv'
<1>1. t \in Actors /\ thread[t] = Idle /\ phase[h] = "active"
  BY DEF BeginHandleOperation, Actors
<1>2. SessionTypeOK' /\ TableOK' /\ MonitorTypeOK'
  BY <1>1 DEF BeginHandleOperation, SessionInv, SessionTypeOK, TableOK, MonitorTypeOK, Doing
<1>3. /\ \A u \in Actors : thread'[u] = IF u = t THEN Doing("operating", h, 0) ELSE thread[u]
      /\ \A g \in Handles : inFlight'[g] = IF g = h THEN inFlight[g] + 1 ELSE inFlight[g]
      /\ UNCHANGED <<phase, held, monitor>>
  BY <1>1 DEF BeginHandleOperation, SessionInv, SessionTypeOK
<1>4. PinsCounted'
  <2> SUFFICES ASSUME NEW g \in Handles PROVE inFlight'[g] = Cardinality(Pins(g)')
    BY DEF PinsCounted
  <2>1. inFlight[g] = Cardinality(Pins(g))
    BY DEF SessionInv, PinsCounted
  <2>2. CASE g = h
    <3>1. t \notin Pins(h) /\ Pins(h)' = Pins(h) \cup {t}
      BY <1>1, <1>3 DEF Pins, Idle, Doing
    <3>2. Cardinality(Pins(h) \cup {t}) = Cardinality(Pins(h)) + 1
      BY <3>1, PinsFinite, FS_AddElement
    <3> QED  BY <1>3, <2>1, <2>2, <3>1, <3>2
  <2>3. CASE g # h
    <3>1. Pins(g)' = Pins(g)
      BY <1>1, <1>3, <2>3 DEF Pins, Idle, Doing
    <3> QED  BY <1>3, <2>1, <2>3, <3>1
  <2> QED  BY <2>2, <2>3
<1>5. ThreadsOK'
  <2> SUFFICES ASSUME NEW u \in Actors PROVE ThreadOK(u)'
    BY DEF ThreadsOK
  <2>1. CASE u = t
    BY <1>1, <1>3, <2>1 DEF ThreadOK, Doing
  <2>2. CASE u # t
    <3>1. ThreadOK(u) /\ thread'[u] = thread[u]
      BY <1>3, <2>2 DEF SessionInv, ThreadsOK
    <3> QED  BY <1>1, <1>3, <3>1 DEF ThreadOK, Handles
  <2> QED  BY <2>1, <2>2
<1>6. OneOwner'
  BY <1>1, <1>3 DEF SessionInv, OneOwner, Owns, Idle, Doing
<1>7. HeldOK'
  BY <1>1, <1>3 DEF SessionInv, HeldOK, Handles
<1> QED  BY <1>2, <1>4, <1>5, <1>6, <1>7 DEF SessionInv

\* A call lets its handle go: one thread less inside, one less counted.
LEMMA InvEnd ==
    ASSUME SessionInv, NEW t \in Actors, EndHandleOperation(t)
    PROVE  SessionInv'
<1> DEFINE h == thread[t].h
           d == IF inFlight[h] = 1 THEN Doing("signal", h, 0) ELSE Idle
<1>1. thread[t].at = "operating" /\ h \in Handles
  BY DEF EndHandleOperation, SessionInv, ThreadsOK, ThreadOK
<1>2. SessionTypeOK' /\ TableOK' /\ MonitorTypeOK'
  BY <1>1 DEF EndHandleOperation, SessionInv, SessionTypeOK, TableOK, MonitorTypeOK, Doing, Idle
<1>3. /\ \A u \in Actors : thread'[u] = IF u = t THEN d ELSE thread[u]
      /\ \A g \in Handles : inFlight'[g] = IF g = h THEN inFlight[g] - 1 ELSE inFlight[g]
      /\ UNCHANGED <<phase, held, monitor>>
  BY <1>1 DEF EndHandleOperation, SessionInv, SessionTypeOK
<1>4. d.at \in {"signal", "idle"} /\ (d.at = "signal" => d.h = h)
  BY DEF Doing, Idle
<1>5. PICK g0 : g0 = h
  OBVIOUS
<1>6. Cardinality(Pins(g0)) # 0 /\ inFlight[g0] = Cardinality(Pins(g0))
  <2>1. t \in Pins(g0)
    BY <1>1, <1>5 DEF Pins
  <2> QED  BY <1>1, <1>5, <2>1, PinsFinite, FS_EmptySet DEF SessionInv, PinsCounted
<1> HIDE DEF d, h
<1>7. PinsCounted'
  <2> SUFFICES ASSUME NEW g \in Handles PROVE inFlight'[g] = Cardinality(Pins(g)')
    BY DEF PinsCounted
  <2>1. inFlight[g] = Cardinality(Pins(g))
    BY DEF SessionInv, PinsCounted
  <2>2. CASE g = g0
    <3>1. t \in Pins(g) /\ Pins(g)' = Pins(g) \ {t}
      BY <1>1, <1>3, <1>4, <1>5, <2>2 DEF Pins, h
    <3>2. Cardinality(Pins(g) \ {t}) = Cardinality(Pins(g)) - 1
      BY <3>1, PinsFinite, FS_RemoveElement
    <3> QED  BY <1>3, <1>5, <2>1, <2>2, <3>1, <3>2
  <2>3. CASE g # g0
    <3>1. Pins(g)' = Pins(g)
      BY <1>1, <1>3, <1>4, <1>5, <2>3 DEF Pins, h
    <3> QED  BY <1>3, <1>5, <2>1, <2>3, <3>1
  <2> QED  BY <2>2, <2>3
<1>8. ThreadsOK'
  BY <1>1, <1>3, <1>4, <1>5, <1>6, ZenonT(40) DEF SessionInv, ThreadsOK, ThreadOK, Handles
<1>9. OneOwner'
  BY <1>1, <1>3, <1>4 DEF SessionInv, OneOwner, Owns
<1>10. HeldOK'
  BY <1>1, <1>3, <1>5, <1>6 DEF SessionInv, HeldOK, Handles
<1> QED  BY <1>2, <1>7, <1>8, <1>9, <1>10 DEF SessionInv

\* The drain event is set; nothing the invariant speaks of changes.
LEMMA InvSetDrainEvent ==
    ASSUME SessionInv, NEW t \in Actors, SetDrainEvent(t)
    PROVE  SessionInv'
<1>1. thread[t].at = "signal" /\ thread' = [thread EXCEPT ![t] = Idle] /\ Idle.at = "idle"
      /\ UNCHANGED <<phase, inFlight, held, table, loop, monitor>>
  BY DEF SetDrainEvent, Idle
<1>2. SessionTypeOK' /\ TableOK' /\ MonitorTypeOK' /\ HeldOK'
  BY <1>1 DEF SessionInv, SessionTypeOK, TableOK, MonitorTypeOK, HeldOK, Idle
<1>3. \A u \in Actors : thread'[u] = IF u = t THEN Idle ELSE thread[u]
  BY <1>1 DEF SessionInv, SessionTypeOK
<1>4. PinsCounted'
  BY <1>1, PinsKept
<1>5. ThreadsOK'
  <2> SUFFICES ASSUME NEW u \in Actors PROVE ThreadOK(u)'
    BY DEF ThreadsOK
  <2>1. ThreadOK(u) /\ (u = t \/ thread'[u] = thread[u])
    BY <1>3 DEF SessionInv, ThreadsOK
  <2> QED  BY <1>1, <1>3, <2>1 DEF ThreadOK
<1>6. OneOwner'
  BY <1>1, <1>3 DEF SessionInv, OneOwner, Owns
<1> QED  BY <1>2, <1>4, <1>5, <1>6 DEF SessionInv

\* SessionCreate allocates a session that nobody else knows.
LEMMA InvSessionCreate ==
    ASSUME SessionInv, NEW t \in Threads, NEW s \in Sessions, SessionCreate(t, s)
    PROVE  SessionInv'
<1> DEFINE d == Doing("creating", s, 0)
<1>1. /\ t \in Actors /\ s \in Handles /\ thread[t] = Idle /\ phase[s] = "absent"
      /\ phase' = [phase EXCEPT ![s] = "creating"] /\ thread' = [thread EXCEPT ![t] = d]
      /\ UNCHANGED <<inFlight, held, table, loop, monitor>>
  BY DEF SessionCreate, Actors, Handles
<1>2. d = [at |-> "creating", h |-> s, step |-> 0]
  BY DEF Doing
<1>3. SessionTypeOK' /\ MonitorTypeOK'
  BY <1>1, <1>2 DEF SessionInv, SessionTypeOK, MonitorTypeOK
<1> HIDE DEF d
<1>4. /\ \A u \in Actors : thread'[u] = IF u = t THEN d ELSE thread[u]
      /\ \A g \in Handles : phase'[g] = IF g = s THEN "creating" ELSE phase[g]
  BY <1>1 DEF SessionInv, SessionTypeOK
<1>5. PinsCounted'
  <2>1. thread[t].at # "operating" /\ d.at # "operating"
    BY <1>1, <1>2 DEF Idle
  <2> QED  BY <1>1, <2>1, PinsKept
<1>6. TableOK'
  <2>1. \A k \in Kinds : \A i \in DOMAIN table[k] : table[k][i] \in Handles
    BY DEF SessionInv, SessionTypeOK
  <2> QED  BY <1>1, <1>4, <2>1 DEF SessionInv, TableOK
<1>7. ThreadsOK'
  <2> SUFFICES ASSUME NEW u \in Actors PROVE ThreadOK(u)'
    BY DEF ThreadsOK
  <2>1. CASE u = t
    BY <1>1, <1>2, <1>4, <2>1, OneFurther, OrderFacts DEF ThreadOK
  <2>2. CASE u # t
    <3>1. ThreadOK(u) /\ thread'[u] = thread[u]
      BY <1>4, <2>2 DEF SessionInv, ThreadsOK
    <3> QED  BY <1>1, <1>4, <3>1 DEF ThreadOK, Handles
  <2> QED  BY <2>1, <2>2
<1>8. OneOwner'
  <2>1. \A u \in Actors : ~Owns(u, s)
    BY <1>1 DEF SessionInv, ThreadsOK, ThreadOK, Owns
  <2> QED  BY <1>1, <1>2, <1>4, <2>1 DEF SessionInv, OneOwner, Owns
<1>9. HeldOK'
  BY <1>1, <1>4 DEF SessionInv, HeldOK, Handles
<1> QED  BY <1>3, <1>5, <1>6, <1>7, <1>8, <1>9 DEF SessionInv

\* One acquisition of SessionCreate works: one part more is held.
LEMMA InvAcquireResource ==
    ASSUME SessionInv, NEW t \in Actors, AcquireResource(t)
    PROVE  SessionInv'
<1>1. PICK s : s = thread[t].h
  OBVIOUS
<1>2. PICK n : n = thread[t].step
  OBVIOUS
<1>3. PICK r : r = CreateOrder[n + 1]
  OBVIOUS
<1>4. PICK d : d = [thread[t] EXCEPT !.step = @ + 1]
  OBVIOUS
<1>5. /\ thread[t].at = "creating" /\ s \in Sessions /\ s \in Handles /\ phase[s] = "creating"
      /\ n \in Nat /\ n < 6 /\ Done(CreateOrder, n) \subseteq held[s]
  BY <1>1, <1>2, OrderFacts
     DEF AcquireResource, SessionInv, SessionTypeOK, ThreadsOK, ThreadOK, Handles
<1>6. /\ held' = [held EXCEPT ![s] = @ \cup {r}]
      /\ thread' = [thread EXCEPT ![t] = d]
      /\ UNCHANGED <<phase, inFlight, table, loop>>
      /\ monitor' = IF r = "subscription" THEN [monitor EXCEPT !.subscribers = @ \cup {s}]
                    ELSE monitor
  BY <1>1, <1>2, <1>3, <1>4 DEF AcquireResource
<1>7. d = [at |-> "creating", h |-> s, step |-> n + 1]
  BY <1>1, <1>2, <1>4, <1>5 DEF SessionInv, SessionTypeOK
<1>8. r \in Parts
  BY <1>3, <1>5, OrderFacts
<1>9. SessionTypeOK'
  BY <1>5, <1>6, <1>7, <1>8 DEF SessionInv, SessionTypeOK
<1>10. /\ MonitorTypeOK'
       /\ monitor'.subscribers = IF r = "subscription" THEN monitor.subscribers \cup {s}
                                 ELSE monitor.subscribers
  BY <1>5, <1>6 DEF SessionInv, MonitorTypeOK
<1>11. /\ \A u \in Actors : thread'[u] = IF u = t THEN d ELSE thread[u]
       /\ \A g \in Sessions : held'[g] = IF g = s THEN held[g] \cup {r} ELSE held[g]
  BY <1>6 DEF SessionInv, SessionTypeOK
<1>12. PinsCounted'
  BY <1>5, <1>6, <1>7, PinsKept
<1>13. TableOK'
  BY <1>6 DEF SessionInv, TableOK
<1>14. ThreadsOK'
  <2> SUFFICES ASSUME NEW u \in Actors PROVE ThreadOK(u)'
    BY DEF ThreadsOK
  <2>1. CASE u = t
    <3>1. Done(CreateOrder, n + 1) = Done(CreateOrder, n) \cup {r}
      BY <1>3, <1>5, OneFurther
    <3>2. thread'[u] = d /\ n + 1 <= Len(CreateOrder) /\ Done(CreateOrder, n + 1) \subseteq held'[s]
      <4>1. n + 1 <= Len(CreateOrder)
        BY <1>5, OrderFacts
      <4>2. held'[s] = held[s] \cup {r}
        BY <1>5, <1>11
      <4> QED  BY <1>5, <1>11, <2>1, <3>1, <4>1, <4>2
    <3> QED  BY <1>5, <1>6, <1>7, <3>2 DEF ThreadOK
  <2>2. CASE u # t
    <3>1. ThreadOK(u) /\ thread'[u] = thread[u]
      BY <1>11, <2>2 DEF SessionInv, ThreadsOK
    <3>2. ~Owns(u, s)
      BY <1>1, <1>5, <2>2 DEF SessionInv, OneOwner, Owns
    <3> QED  BY <1>6, <1>11, <3>1, <3>2 DEF ThreadOK, Owns
  <2> QED  BY <2>1, <2>2
<1>15. OneOwner'
  BY <1>1, <1>5, <1>7, <1>11 DEF SessionInv, OneOwner, Owns
<1>16. HeldOK'
  BY <1>5, <1>6, <1>10, <1>11 DEF SessionInv, HeldOK
<1> QED  BY <1>9, <1>10, <1>12, <1>13, <1>14, <1>15, <1>16 DEF SessionInv

\* One acquisition fails and the roll-back begins; it will give back everything.
LEMMA InvAcquireFails ==
    ASSUME SessionInv, NEW t \in Actors, AcquireFails(t)
    PROVE  SessionInv'
<1>1. PICK s : s = thread[t].h
  OBVIOUS
<1>2. PICK d : d = [at |-> "rollback", h |-> s, step |-> 0]
  OBVIOUS
<1>3. /\ thread[t].at = "creating" /\ s \in Sessions /\ s \in Handles /\ phase[s] = "creating"
      /\ thread' = [thread EXCEPT ![t] = d]
      /\ UNCHANGED <<phase, inFlight, held, table, loop, monitor>>
  BY <1>1, <1>2 DEF AcquireFails, Doing, SessionInv, ThreadsOK, ThreadOK, Handles
<1>4. SessionTypeOK' /\ TableOK' /\ MonitorTypeOK' /\ HeldOK'
  BY <1>2, <1>3 DEF SessionInv, SessionTypeOK, TableOK, MonitorTypeOK, HeldOK
<1>5. \A u \in Actors : thread'[u] = IF u = t THEN d ELSE thread[u]
  BY <1>3 DEF SessionInv, SessionTypeOK
<1>6. PinsCounted'
  BY <1>2, <1>3, PinsKept
<1>7. ThreadsOK'
  <2> SUFFICES ASSUME NEW u \in Actors PROVE ThreadOK(u)'
    BY DEF ThreadsOK
  <2>1. held[s] \subseteq Rest(RollbackOrder, 0) /\ 0 <= Len(RollbackOrder)
    BY <1>3, OrderFacts DEF SessionInv, SessionTypeOK
  <2>2. CASE u = t
    BY <1>2, <1>3, <1>5, <2>1, <2>2 DEF ThreadOK
  <2>3. CASE u # t
    BY <1>3, <1>5, <2>3 DEF SessionInv, ThreadsOK, ThreadOK
  <2> QED  BY <2>2, <2>3
<1>8. OneOwner'
  BY <1>1, <1>2, <1>3, <1>5 DEF SessionInv, OneOwner, Owns
<1> QED  BY <1>4, <1>6, <1>7, <1>8 DEF SessionInv

\* A handle that was not active is put at the head of its list.
LEMMA Registered ==
    ASSUME SessionInv, NEW h \in Handles, phase[h] # "active", RegisterActiveHandle(h),
           phase' = [phase EXCEPT ![h] = "active"]
    PROVE  TableOK' /\ table' \in [Kinds -> Seq(Handles)]
<1>1. PICK k : k = KindOf(h)
  OBVIOUS
<1>2. PICK list : list = table[k]
  OBVIOUS
<1>3. k \in Kinds /\ list \in Seq(Handles) /\ table' = [table EXCEPT ![k] = <<h>> \o list]
  BY <1>1, <1>2 DEF Kinds, KindOf, RegisterActiveHandle, SessionInv, SessionTypeOK
<1>4. PICK new : new = <<h>> \o list
  OBVIOUS
<1>5. /\ new \in Seq(Handles) /\ Len(new) = Len(list) + 1 /\ new[1] = h
      /\ \A i \in 2..Len(new) : new[i] = list[i - 1] /\ i - 1 \in DOMAIN list
  BY <1>3, <1>4
<1>6. \A j \in Kinds : table'[j] = IF j = k THEN new ELSE table[j]
  BY <1>3, <1>4 DEF SessionInv, SessionTypeOK
<1>7. table' \in [Kinds -> Seq(Handles)]
  BY <1>3, <1>4, <1>5 DEF SessionInv, SessionTypeOK
<1>8. \A i \in DOMAIN list : list[i] \in Handles /\ list[i] # h
  BY <1>2, <1>3 DEF SessionInv, TableOK
<1>9. \A g \in Handles : phase[g] = "active" => phase'[g] = "active"
  BY DEF SessionInv, SessionTypeOK
<1>10. phase'[h] = "active"
  BY DEF SessionInv, SessionTypeOK
<1>11. TableOK'
  <2> SUFFICES ASSUME NEW j \in Kinds, NEW i \in DOMAIN table'[j]
               PROVE  /\ KindOf(table'[j][i]) = j
                      /\ phase'[table'[j][i]] = "active"
                      /\ \A m \in DOMAIN table'[j] : table'[j][i] = table'[j][m] => i = m
    BY DEF TableOK, KindOf
  <2>1. CASE j # k
    <3>1. table'[j] = table[j] /\ table[j] \in Seq(Handles)
      BY <1>6, <2>1 DEF SessionInv, SessionTypeOK
    <3> QED  BY <1>9, <3>1 DEF SessionInv, TableOK
  <2>2. CASE j = k
    <3>1. table'[j] = new /\ DOMAIN new = 1..Len(new) /\ DOMAIN list = 1..Len(list)
      BY <1>3, <1>5, <1>6, <2>2
    <3>2. \A m \in DOMAIN list :
             /\ KindOf(list[m]) = k /\ phase[list[m]] = "active"
             /\ \A l \in DOMAIN list : list[m] = list[l] => m = l
      BY <1>2, <1>3 DEF SessionInv, TableOK
    <3>3. CASE i = 1
      <4>1. ASSUME NEW m \in DOMAIN new, new[m] = h PROVE m = 1
        <5>1. ASSUME m # 1 PROVE FALSE
          <6>1. m \in 2..Len(new)
            BY <1>3, <1>5, <3>1, <5>1
          <6>2. new[m] = list[m - 1] /\ m - 1 \in DOMAIN list
            BY <1>5, <6>1
          <6> QED  BY <1>8, <4>1, <6>2
        <5> QED  BY <5>1
      <4>2. KindOf(new[i]) = k /\ phase'[new[i]] = "active"
        BY <1>1, <1>5, <1>10, <3>3
      <4> QED  BY <1>5, <2>2, <3>1, <3>3, <4>1, <4>2
    <3>4. CASE i # 1
      <4>1. i \in 2..Len(new) /\ new[i] = list[i - 1] /\ i - 1 \in DOMAIN list
        BY <1>3, <1>5, <3>1, <3>4
      <4>2. KindOf(new[i]) = k /\ phase'[new[i]] = "active" /\ new[i] # h
        BY <1>8, <1>9, <3>2, <4>1
      <4>3. ASSUME NEW m \in DOMAIN new, new[i] = new[m] PROVE i = m
        <5>1. m # 1 /\ m \in 2..Len(new)
          BY <1>3, <1>5, <3>1, <4>2, <4>3
        <5>2. list[i - 1] = list[m - 1] /\ m - 1 \in DOMAIN list
          BY <1>5, <4>1, <4>3, <5>1
        <5>3. i - 1 = m - 1
          BY <3>2, <4>1, <5>2
        <5> QED  BY <1>3, <4>1, <5>1, <5>3
      <4> QED  BY <2>2, <3>1, <4>2, <4>3
    <3> QED  BY <3>3, <3>4
  <2> QED  BY <2>1, <2>2
<1> QED  BY <1>7, <1>11

\* A session enters the table with every part an operation may use.
LEMMA InvRegisterSession ==
    ASSUME SessionInv, NEW t \in Actors, RegisterSession(t)
    PROVE  SessionInv'
<1>1. PICK s : s = thread[t].h
  OBVIOUS
<1>2. /\ thread[t].at = "creating" /\ s \in Sessions /\ s \in Handles /\ phase[s] = "creating"
      /\ thread' = [thread EXCEPT ![t] = Idle] /\ phase' = [phase EXCEPT ![s] = "active"]
      /\ RegisterActiveHandle(s)
      /\ UNCHANGED <<inFlight, held, loop, monitor>>
  BY <1>1 DEF RegisterSession, SessionInv, ThreadsOK, ThreadOK, Handles
<1>3. Core \subseteq held[s]
  BY <1>1, <1>2, OrderFacts DEF RegisterSession, SessionInv, ThreadsOK, ThreadOK
<1>4. TableOK' /\ table' \in [Kinds -> Seq(Handles)]
  BY <1>2, Registered
<1>5. SessionTypeOK' /\ MonitorTypeOK'
  BY <1>2, <1>4 DEF SessionInv, SessionTypeOK, MonitorTypeOK, Idle
<1>6. /\ \A u \in Actors : thread'[u] = IF u = t THEN Idle ELSE thread[u]
      /\ \A g \in Handles : phase'[g] = IF g = s THEN "active" ELSE phase[g]
  BY <1>2 DEF SessionInv, SessionTypeOK
<1>7. PinsCounted'
  BY <1>2, PinsKept DEF Idle
<1>8. ThreadsOK'
  <2> SUFFICES ASSUME NEW u \in Actors PROVE ThreadOK(u)'
    BY DEF ThreadsOK
  <2>1. CASE u = t
    BY <1>6, <2>1 DEF ThreadOK, Idle
  <2>2. CASE u # t
    <3>1. ThreadOK(u) /\ thread'[u] = thread[u]
      BY <1>6, <2>2 DEF SessionInv, ThreadsOK
    <3>2. ~Owns(u, s)
      BY <1>1, <1>2, <2>2 DEF SessionInv, OneOwner, Owns
    <3> QED  BY <1>2, <1>6, <3>1, <3>2 DEF ThreadOK, Owns
  <2> QED  BY <2>1, <2>2
<1>9. OneOwner'
  BY <1>6 DEF SessionInv, OneOwner, Owns, Idle
<1>10. HeldOK'
  BY <1>2, <1>3, <1>6 DEF SessionInv, HeldOK, Handles
<1> QED  BY <1>4, <1>5, <1>7, <1>8, <1>9, <1>10 DEF SessionInv

\* A connected WebSocket enters the table from inside an operation.
LEMMA InvWebSocketConnected ==
    ASSUME SessionInv, NEW t \in Threads, NEW w \in WebSockets, WebSocketConnected(t, w)
    PROVE  SessionInv'
<1>1. /\ w \in Handles /\ w \notin Sessions /\ phase[w] = "absent"
      /\ phase' = [phase EXCEPT ![w] = "active"] /\ RegisterActiveHandle(w)
      /\ UNCHANGED <<inFlight, held, thread, loop, monitor>>
  BY SessionLifeConstants DEF WebSocketConnected, Handles
<1>2. TableOK' /\ table' \in [Kinds -> Seq(Handles)]
  BY <1>1, Registered
<1>3. SessionTypeOK' /\ MonitorTypeOK' /\ PinsCounted' /\ OneOwner'
  BY <1>1, <1>2
     DEF SessionInv, SessionTypeOK, MonitorTypeOK, PinsCounted, Pins, OneOwner, Owns
<1>4. \A g \in Handles : phase'[g] = IF g = w THEN "active" ELSE phase[g]
  BY <1>1 DEF SessionInv, SessionTypeOK
<1>5. ThreadsOK'
  <2> SUFFICES ASSUME NEW u \in Actors PROVE ThreadOK(u)'
    BY DEF ThreadsOK
  <2>1. ThreadOK(u)
    BY DEF SessionInv, ThreadsOK
  <2> QED  BY <1>1, <1>4, <2>1 DEF ThreadOK, Handles
<1>6. HeldOK'
  BY <1>1, <1>4 DEF SessionInv, HeldOK, Handles
<1> QED  BY <1>2, <1>3, <1>5, <1>6 DEF SessionInv

\* What giving back one part does to a session and to the subscribers.
LEMMA GivenBack ==
    ASSUME SessionInv, NEW s \in Sessions, NEW r, WithoutResource(s, r)
    PROVE  /\ held' \in [Sessions -> SUBSET Parts]
           /\ \A g \in Sessions : held'[g] = IF g = s THEN held[g] \ {r} ELSE held[g]
           /\ MonitorTypeOK'
           /\ monitor'.subscribers = IF r = "subscription" THEN monitor.subscribers \ {s}
                                     ELSE monitor.subscribers
<1>1. held' = [held EXCEPT ![s] = @ \ {r}]
  BY DEF WithoutResource
<1>2. CASE r = "subscription"
  <2>1. monitor' = [monitor EXCEPT !.subscribers = @ \ {s}]
    BY <1>2 DEF WithoutResource
  <2> QED  BY <1>1, <1>2, <2>1 DEF SessionInv, SessionTypeOK, MonitorTypeOK
<1>3. CASE r # "subscription"
  <2>1. monitor' = monitor
    BY <1>3 DEF WithoutResource
  <2> QED  BY <1>1, <1>3, <2>1 DEF SessionInv, SessionTypeOK, MonitorTypeOK
<1> QED  BY <1>2, <1>3

\* A thread that has given everything back frees its handle, which nobody else
\* is working on, and does something else outside operations.
LEMMA Freed ==
    ASSUME SessionInv, NEW t \in Actors, NEW h \in Handles, Owns(t, h),
           phase[h] \in {"creating", "draining"},
           h \in Sessions => held[h] = {},
           \A u \in Actors : thread[u].at = "operating" => thread[u].h # h,
           NEW d \in [at : {"idle", "check", "failed"}, h : Handles \cup {"none"}, step : Nat],
           d.at # "idle" => d.h \in Handles,
           thread' = [thread EXCEPT ![t] = d], phase' = [phase EXCEPT ![h] = "freed"],
           UNCHANGED <<inFlight, held, table, monitor>>
    PROVE  SessionInv'
<1>1. SessionTypeOK' /\ MonitorTypeOK'
  BY DEF SessionInv, SessionTypeOK, MonitorTypeOK
<1>2. /\ \A u \in Actors : thread'[u] = IF u = t THEN d ELSE thread[u]
      /\ \A g \in Handles : phase'[g] = IF g = h THEN "freed" ELSE phase[g]
  BY DEF SessionInv, SessionTypeOK
<1>3. PinsCounted'
  <2>1. thread[t].at # "operating" /\ d.at # "operating"
    BY DEF Owns
  <2> QED  BY <2>1, PinsKept
<1>4. TableOK'
  <2>1. \A k \in Kinds : \A i \in DOMAIN table[k] : table[k][i] \in Handles /\ table[k][i] # h
    BY DEF SessionInv, SessionTypeOK, TableOK
  <2> QED  BY <1>2, <2>1 DEF SessionInv, TableOK
<1>5. ThreadsOK'
  <2> SUFFICES ASSUME NEW u \in Actors PROVE ThreadOK(u)'
    BY DEF ThreadsOK
  <2>1. CASE u = t
    BY <1>2, <2>1 DEF ThreadOK
  <2>2. CASE u # t
    <3>1. ThreadOK(u) /\ thread'[u] = thread[u]
      BY <1>2, <2>2 DEF SessionInv, ThreadsOK
    <3>2. ~Owns(u, h) /\ (thread[u].at = "operating" => thread[u].h # h)
      BY <2>2 DEF SessionInv, OneOwner
    <3> QED  BY <1>2, <3>1, <3>2 DEF ThreadOK, Owns
  <2> QED  BY <2>1, <2>2
<1>6. OneOwner'
  BY <1>2 DEF SessionInv, OneOwner, Owns
<1>7. HeldOK'
  BY <1>2 DEF SessionInv, HeldOK, Handles
<1> QED  BY <1>1, <1>3, <1>4, <1>5, <1>6, <1>7 DEF SessionInv

\* The roll-back gives back part after part and frees a session that was never active.
LEMMA InvRollback ==
    ASSUME SessionInv, NEW t \in Actors, Rollback(t)
    PROVE  SessionInv'
<1>1. PICK s : s = thread[t].h
  OBVIOUS
<1>2. PICK n : n = thread[t].step
  OBVIOUS
<1>3. /\ thread[t].at = "rollback" /\ s \in Sessions /\ s \in Handles /\ phase[s] = "creating"
      /\ n \in Nat /\ n <= 6 /\ held[s] \subseteq Rest(RollbackOrder, n) /\ Owns(t, s)
      /\ UNCHANGED <<inFlight, table, loop>>
  BY <1>1, <1>2, OrderFacts
     DEF Rollback, SessionInv, SessionTypeOK, ThreadsOK, ThreadOK, Handles, Owns
<1>4. CASE n + 1 > 6
  <2>1. /\ phase' = [phase EXCEPT ![s] = "freed"] /\ thread' = [thread EXCEPT ![t] = Idle]
        /\ UNCHANGED <<held, monitor>>
    BY <1>1, <1>2, <1>4, OrderFacts DEF Rollback
  <2>2. held[s] = {}
    <3>1. n = 6
      BY <1>3, <1>4
    <3> QED  BY <1>3, <3>1, OneFurther, OrderFacts
  <2>3. \A u \in Actors : thread[u].at = "operating" => thread[u].h # s
    BY <1>3 DEF SessionInv, ThreadsOK, ThreadOK
  <2>4. /\ Idle \in [at : {"idle", "check", "failed"}, h : Handles \cup {"none"}, step : Nat]
        /\ Idle.at = "idle"
    BY DEF Idle
  <2> QED  BY <1>3, <2>1, <2>2, <2>3, <2>4, Freed
<1>5. CASE ~(n + 1 > 6)
  <2>1. PICK r : r = RollbackOrder[n + 1]
    OBVIOUS
  <2>2. PICK d : d = [thread[t] EXCEPT !.step = n + 1]
    OBVIOUS
  <2>3. /\ WithoutResource(s, r) /\ thread' = [thread EXCEPT ![t] = d]
        /\ UNCHANGED phase
    BY <1>1, <1>2, <1>5, <2>1, <2>2, OrderFacts DEF Rollback
  <2>4. d = [at |-> "rollback", h |-> s, step |-> n + 1]
    BY <1>1, <1>2, <1>3, <2>2 DEF SessionInv, SessionTypeOK
  <2>5. /\ held' \in [Sessions -> SUBSET Parts] /\ MonitorTypeOK'
        /\ \A g \in Sessions : held'[g] = IF g = s THEN held[g] \ {r} ELSE held[g]
        /\ monitor'.subscribers = IF r = "subscription" THEN monitor.subscribers \ {s}
                                  ELSE monitor.subscribers
    BY <1>3, <2>3, GivenBack
  <2>6. SessionTypeOK' /\ TableOK'
    BY <1>3, <2>3, <2>4, <2>5 DEF SessionInv, SessionTypeOK, TableOK
  <2>7. \A u \in Actors : thread'[u] = IF u = t THEN d ELSE thread[u]
    BY <2>3 DEF SessionInv, SessionTypeOK
  <2>8. PinsCounted'
    BY <1>3, <2>3, <2>4, PinsKept
  <2>9. ThreadsOK'
    <3> SUFFICES ASSUME NEW u \in Actors PROVE ThreadOK(u)'
      BY DEF ThreadsOK
    <3>1. CASE u = t
      <4>1. n + 1 <= Len(RollbackOrder) /\ Len(RollbackOrder) \in Nat
        BY <1>3, <1>5, OrderFacts
      <4>2. Rest(RollbackOrder, n) \ {r} \subseteq Rest(RollbackOrder, n + 1)
        BY <1>3, <2>1, <4>1, OneFurther
      <4>3. held'[s] \subseteq Rest(RollbackOrder, n + 1)
        BY <1>3, <2>5, <4>2
      <4> QED  BY <1>3, <2>3, <2>4, <2>7, <3>1, <4>1, <4>3 DEF ThreadOK
    <3>2. CASE u # t
      <4>1. ThreadOK(u) /\ thread'[u] = thread[u]
        BY <2>7, <3>2 DEF SessionInv, ThreadsOK
      <4>2. ~Owns(u, s)
        BY <1>3, <3>2 DEF SessionInv, OneOwner
      <4> QED  BY <1>3, <2>3, <2>5, <4>1, <4>2 DEF ThreadOK, Owns
    <3> QED  BY <3>1, <3>2
  <2>10. OneOwner'
    BY <1>3, <2>4, <2>7 DEF SessionInv, OneOwner, Owns
  <2>11. HeldOK'
    BY <1>3, <2>3, <2>5 DEF SessionInv, HeldOK
  <2> QED  BY <2>5, <2>6, <2>8, <2>9, <2>10, <2>11 DEF SessionInv
<1> QED  BY <1>4, <1>5

\* The handle that is closed leaves its list, and only it.
LEMMA Unlinked ==
    ASSUME SessionInv, NEW h \in Handles, IsActiveHandle(h), Unlink(h),
           phase' = [phase EXCEPT ![h] = "draining"]
    PROVE  TableOK' /\ table' \in [Kinds -> Seq(Handles)]
<1>1. PICK k : k = KindOf(h)
  OBVIOUS
<1>2. PICK list : list = table[k]
  OBVIOUS
<1>3. PICK at : at = CHOOSE i \in DOMAIN list : list[i] = h
  OBVIOUS
<1>4. PICK new : new = [i \in 1..(Len(list) - 1) |-> IF i < at THEN list[i] ELSE list[i + 1]]
  OBVIOUS
<1>5. k \in Kinds /\ list \in Seq(Handles) /\ table' = [table EXCEPT ![k] = new]
  BY <1>1, <1>2, <1>3, <1>4 DEF Kinds, KindOf, Unlink, SessionInv, SessionTypeOK
<1>6. at \in DOMAIN list /\ list[at] = h
  BY <1>1, <1>2, <1>3 DEF IsActiveHandle
<1>7. /\ Len(list) \in Nat /\ DOMAIN list = 1..Len(list)
      /\ \A i \in DOMAIN list : list[i] \in Handles /\ KindOf(list[i]) = k /\ phase[list[i]] = "active"
      /\ \A i, j \in DOMAIN list : list[i] = list[j] => i = j
  BY <1>2, <1>5 DEF SessionInv, TableOK
<1>8. /\ new \in Seq(Handles) /\ DOMAIN new = 1..(Len(list) - 1)
      /\ \A i \in DOMAIN new : \E j \in DOMAIN list :
            new[i] = list[j] /\ j # at /\ j = IF i < at THEN i ELSE i + 1
  <2>1. \A i \in 1..(Len(list) - 1) :
           LET j == IF i < at THEN i ELSE i + 1
           IN j \in DOMAIN list /\ new[i] = list[j] /\ j # at
    BY <1>4, <1>6, <1>7
  <2>2. \A i \in 1..(Len(list) - 1) : new[i] \in Handles
    BY <1>7, <2>1
  <2>3. new \in [1..(Len(list) - 1) -> Handles]
    BY <1>4, <2>2
  <2>4. Len(list) - 1 \in Nat
    BY <1>6, <1>7
  <2>5. new \in Seq(Handles)
    BY <2>3, <2>4, IsASeq
  <2> QED  BY <2>1, <2>3, <2>5
<1>9. \A i \in DOMAIN new : new[i] # h /\ KindOf(new[i]) = k /\ phase[new[i]] = "active"
  BY <1>6, <1>7, <1>8
<1>10. \A i, j \in DOMAIN new : new[i] = new[j] => i = j
  <2> SUFFICES ASSUME NEW i \in DOMAIN new, NEW j \in DOMAIN new, new[i] = new[j] PROVE i = j
    OBVIOUS
  <2>1. PICK m \in DOMAIN list : new[i] = list[m] /\ m = IF i < at THEN i ELSE i + 1
    BY <1>8
  <2>2. PICK n \in DOMAIN list : new[j] = list[n] /\ n # at /\ n = IF j < at THEN j ELSE j + 1
    BY <1>8
  <2>3. m = n
    BY <1>7, <2>1, <2>2
  <2> QED  BY <1>6, <1>7, <1>8, <2>1, <2>2, <2>3
<1>11. \A g \in Handles : phase'[g] = IF g = h THEN "draining" ELSE phase[g]
  BY DEF SessionInv, SessionTypeOK
<1>12. \A j \in Kinds : table'[j] = IF j = k THEN new ELSE table[j]
  BY <1>5 DEF SessionInv, SessionTypeOK
<1>13. table' \in [Kinds -> Seq(Handles)]
  BY <1>5, <1>8 DEF SessionInv, SessionTypeOK
<1>14. TableOK'
  <2> SUFFICES ASSUME NEW j \in Kinds, NEW i \in DOMAIN table'[j]
               PROVE  /\ KindOf(table'[j][i]) = j
                      /\ phase'[table'[j][i]] = "active"
                      /\ \A m \in DOMAIN table'[j] : table'[j][i] = table'[j][m] => i = m
    BY DEF TableOK, KindOf
  <2>1. CASE j = k
    <3>1. new[i] \in Handles
      BY <1>7, <1>8, <1>12, <2>1
    <3> QED  BY <1>9, <1>10, <1>11, <1>12, <2>1, <3>1
  <2>2. CASE j # k
    <3>1. table'[j] = table[j] /\ table[j][i] \in Handles
      BY <1>12, <2>2 DEF SessionInv, SessionTypeOK
    <3>2. /\ KindOf(table[j][i]) = j /\ phase[table[j][i]] = "active"
          /\ \A m \in DOMAIN table[j] : table[j][i] = table[j][m] => i = m
      BY <3>1 DEF SessionInv, TableOK
    <3>3. table[j][i] # h
      BY <1>1, <2>2, <3>2
    <3> QED  BY <1>11, <3>1, <3>2, <3>3
  <2> QED  BY <2>1, <2>2
<1> QED  BY <1>13, <1>14

\* A thread turns to something outside operations and owns nothing.
LEMMA Moves ==
    ASSUME SessionInv, NEW t \in Actors, thread[t].at # "operating",
           NEW d \in [at : {"idle", "close", "check", "failed"}, h : Handles \cup {"none"}, step : Nat],
           d.at # "idle" => d.h \in Handles,
           thread' = [thread EXCEPT ![t] = d],
           UNCHANGED <<phase, inFlight, held, table, monitor>>
    PROVE  SessionInv'
<1>1. SessionTypeOK' /\ MonitorTypeOK' /\ TableOK' /\ HeldOK'
  BY DEF SessionInv, SessionTypeOK, MonitorTypeOK, TableOK, HeldOK
<1>2. \A u \in Actors : thread'[u] = IF u = t THEN d ELSE thread[u]
  BY DEF SessionInv, SessionTypeOK
<1>3. PinsCounted'
  <2>1. d.at # "operating"
    OBVIOUS
  <2> QED  BY <2>1, PinsKept
<1>4. ThreadsOK'
  <2> SUFFICES ASSUME NEW u \in Actors PROVE ThreadOK(u)'
    BY DEF ThreadsOK
  <2>1. CASE u = t
    BY <1>2, <2>1 DEF ThreadOK
  <2>2. CASE u # t
    BY <1>2, <2>2 DEF SessionInv, ThreadsOK, ThreadOK
  <2> QED  BY <2>1, <2>2
<1>5. OneOwner'
  BY <1>2 DEF SessionInv, OneOwner, Owns
<1> QED  BY <1>1, <1>3, <1>4, <1>5 DEF SessionInv

\* TryCloseActiveHandle: at most one of several closing threads takes the handle.
LEMMA InvTryClose ==
    ASSUME SessionInv, NEW t \in Actors, NEW h \in Handles, TryCloseActiveHandle(t, h),
           t \in Threads \/ thread[t].at = "close"
    PROVE  SessionInv'
<1>1. thread[t].at \in {"idle", "close"}
  BY DEF TryCloseActiveHandle, Idle
<1>2. CASE IsActiveHandle(h) /\ phase[h] = "active"
  <2>1. PICK d : d = [at |-> "closing", h |-> h, step |-> 0]
    OBVIOUS
  <2>2. /\ Unlink(h) /\ phase' = [phase EXCEPT ![h] = "draining"]
        /\ thread' = [thread EXCEPT ![t] = d]
        /\ UNCHANGED <<inFlight, held, loop, monitor>>
    BY <1>2, <2>1 DEF TryCloseActiveHandle, Doing
  <2>3. TableOK' /\ table' \in [Kinds -> Seq(Handles)]
    BY <1>2, <2>2, Unlinked
  <2>4. SessionTypeOK' /\ MonitorTypeOK'
    BY <2>1, <2>2, <2>3 DEF SessionInv, SessionTypeOK, MonitorTypeOK
  <2>5. /\ \A u \in Actors : thread'[u] = IF u = t THEN d ELSE thread[u]
        /\ \A g \in Handles : phase'[g] = IF g = h THEN "draining" ELSE phase[g]
    BY <2>2 DEF SessionInv, SessionTypeOK
  <2>6. PinsCounted'
    BY <1>1, <2>1, <2>2, PinsKept
  <2>7. \A u \in Actors : ~Owns(u, h)
    BY <1>2 DEF SessionInv, ThreadsOK, ThreadOK, Owns
  <2>8. ThreadsOK'
    <3> SUFFICES ASSUME NEW u \in Actors PROVE ThreadOK(u)'
      BY DEF ThreadsOK
    <3>1. CASE u = t
      <4>1. h \in Sessions => held[h] \subseteq Rest(CloseOrder, 0) /\ 0 <= Len(CloseOrder)
        BY OrderFacts DEF SessionInv, SessionTypeOK
      <4> QED  BY <2>1, <2>2, <2>5, <3>1, <4>1 DEF ThreadOK
    <3>2. CASE u # t
      <4>1. ThreadOK(u) /\ thread'[u] = thread[u]
        BY <2>5, <3>2 DEF SessionInv, ThreadsOK
      <4> QED  BY <2>2, <2>5, <2>7, <4>1 DEF ThreadOK, Owns, Handles
    <3> QED  BY <3>1, <3>2
  <2>9. OneOwner'
    BY <2>1, <2>5, <2>7 DEF SessionInv, OneOwner, Owns
  <2>10. HeldOK'
    BY <1>2, <2>2, <2>5 DEF SessionInv, HeldOK, Handles
  <2> QED  BY <2>3, <2>4, <2>6, <2>8, <2>9, <2>10 DEF SessionInv
<1>3. CASE ~(IsActiveHandle(h) /\ phase[h] = "active")
  <2>1. PICK d : d = Returned(t, h \in Sessions)
    OBVIOUS
  <2>2. /\ thread' = [thread EXCEPT ![t] = d]
        /\ UNCHANGED <<phase, inFlight, held, table, loop, monitor>>
    BY <1>3, <2>1 DEF TryCloseActiveHandle
  <2>3. t = Driver => thread[t].h \in Handles
    BY SessionLifeConstants DEF SessionInv, ThreadsOK, ThreadOK
  <2>4. d \in [at : {"idle", "close", "check", "failed"}, h : Handles \cup {"none"}, step : Nat]
        /\ (d.at # "idle" => d.h \in Handles)
    BY <2>1, <2>3 DEF Returned, Idle, Doing
  <2> QED  BY <1>1, <2>2, <2>4, Moves
<1> QED  BY <1>2, <1>3

\* The thread's place after a close has returned.
LEMMA ReturnedTyped ==
    ASSUME NEW t \in Actors, NEW ok \in BOOLEAN, thread[t].h \in Handles
    PROVE  /\ Returned(t, ok) \in [at : {"idle", "check", "failed"}, h : Handles \cup {"none"}, step : Nat]
           /\ Returned(t, ok).at # "idle" => Returned(t, ok).h \in Handles
BY DEF Returned, Idle, Doing

\* SessionClose takes the session apart, past the drain only when nobody is inside.
LEMMA InvSessionCloseStep ==
    ASSUME SessionInv, NEW t \in Actors, SessionCloseStep(t)
    PROVE  SessionInv'
<1>1. PICK s : s = thread[t].h
  OBVIOUS
<1>2. PICK n : n = thread[t].step
  OBVIOUS
<1>3. /\ thread[t].at = "closing" /\ s \in Sessions /\ s \in Handles /\ phase[s] = "draining"
      /\ n \in Nat /\ n <= 7 /\ held[s] \subseteq Rest(CloseOrder, n) /\ Owns(t, s)
      /\ n >= 2 => inFlight[s] = 0
      /\ UNCHANGED <<inFlight, table, loop>>
  BY <1>1, <1>2, OrderFacts
     DEF SessionCloseStep, SessionInv, SessionTypeOK, ThreadsOK, ThreadOK, Handles, Owns
<1>4. CASE n + 1 > 7
  <2>1. PICK d : d = Returned(t, TRUE)
    OBVIOUS
  <2>2. /\ phase' = [phase EXCEPT ![s] = "freed"] /\ thread' = [thread EXCEPT ![t] = d]
        /\ UNCHANGED <<held, monitor>>
    BY <1>1, <1>2, <1>4, <2>1, OrderFacts DEF SessionCloseStep, Free
  <2>3. held[s] = {} /\ inFlight[s] = 0
    <3>1. n = 7
      BY <1>3, <1>4
    <3>2. Rest(CloseOrder, 7) = {}
      BY OrderFacts DEF Rest
    <3>3. held[s] = {}
      BY <1>3, <3>1, <3>2
    <3> QED  BY <1>3, <3>1, <3>3
  <2>4. \A u \in Actors : thread[u].at = "operating" => thread[u].h # s
    BY <1>3, <2>3, NobodyInside
  <2>5. /\ d \in [at : {"idle", "check", "failed"}, h : Handles \cup {"none"}, step : Nat]
        /\ d.at # "idle" => d.h \in Handles
    BY <1>1, <1>3, <2>1, ReturnedTyped
  <2> QED  BY <1>3, <2>2, <2>3, <2>4, <2>5, Freed
<1>5. CASE ~(n + 1 > 7)
  <2>1. PICK r : r = CloseOrder[n + 1]
    OBVIOUS
  <2>2. PICK d : d = [thread[t] EXCEPT !.step = n + 1]
    OBVIOUS
  <2>3. /\ WithoutResource(s, r) /\ thread' = [thread EXCEPT ![t] = d]
        /\ r = "drain" => DrainedEnough(s)
        /\ UNCHANGED phase
    BY <1>1, <1>2, <1>5, <2>1, <2>2, OrderFacts DEF SessionCloseStep
  <2>4. d = [at |-> "closing", h |-> s, step |-> n + 1]
    BY <1>1, <1>2, <1>3, <2>2 DEF SessionInv, SessionTypeOK
  <2>5. /\ held' \in [Sessions -> SUBSET Parts] /\ MonitorTypeOK'
        /\ \A g \in Sessions : held'[g] = IF g = s THEN held[g] \ {r} ELSE held[g]
        /\ monitor'.subscribers = IF r = "subscription" THEN monitor.subscribers \ {s}
                                  ELSE monitor.subscribers
    BY <1>3, <2>3, GivenBack
  <2>6. SessionTypeOK' /\ TableOK'
    BY <1>3, <2>3, <2>4, <2>5 DEF SessionInv, SessionTypeOK, TableOK
  <2>7. \A u \in Actors : thread'[u] = IF u = t THEN d ELSE thread[u]
    BY <2>3 DEF SessionInv, SessionTypeOK
  <2>8. PinsCounted'
    BY <1>3, <2>3, <2>4, PinsKept
  \* Behind the drain nobody operates on the session; before it only the
  \* subscription goes, which no operation uses.
  <2>9. (n + 1 >= 2 => inFlight[s] = 0) /\ (inFlight[s] # 0 => r \notin Core)
    <3>1. CASE n = 0
      BY <1>3, <2>1, <3>1, OrderFacts
    <3>2. CASE n = 1
      BY <1>3, <2>1, <2>3, <3>2, OrderFacts DEF DrainedEnough
    <3>3. CASE n >= 2
      BY <1>3, <3>3
    <3> QED  BY <1>3, <3>1, <3>2, <3>3
  <2>10. ThreadsOK'
    <3> SUFFICES ASSUME NEW u \in Actors PROVE ThreadOK(u)'
      BY DEF ThreadsOK
    <3>1. CASE u = t
      <4>1. n + 1 <= Len(CloseOrder) /\ Len(CloseOrder) \in Nat
        BY <1>3, <1>5, OrderFacts
      <4>2. Rest(CloseOrder, n) \ {r} \subseteq Rest(CloseOrder, n + 1)
        BY <1>3, <2>1, <4>1, OneFurther
      <4>3. held'[s] \subseteq Rest(CloseOrder, n + 1)
        BY <1>3, <2>5, <4>2
      <4> QED  BY <1>3, <2>3, <2>4, <2>7, <2>9, <3>1, <4>1, <4>3 DEF ThreadOK
    <3>2. CASE u # t
      <4>1. ThreadOK(u) /\ thread'[u] = thread[u]
        BY <2>7, <3>2 DEF SessionInv, ThreadsOK
      <4>2. ~Owns(u, s)
        BY <1>3, <3>2 DEF SessionInv, OneOwner
      <4> QED  BY <1>3, <2>3, <2>5, <4>1, <4>2 DEF ThreadOK, Owns
    <3> QED  BY <3>1, <3>2
  <2>11. OneOwner'
    BY <1>3, <2>4, <2>7 DEF SessionInv, OneOwner, Owns
  <2>12. HeldOK'
    BY <1>3, <2>3, <2>5, <2>9 DEF SessionInv, HeldOK
  <2> QED  BY <2>5, <2>6, <2>8, <2>10, <2>11, <2>12 DEF SessionInv
<1> QED  BY <1>4, <1>5

\* A WebSocket is freed when its drain is over.
LEMMA InvWebSocketCloseStep ==
    ASSUME SessionInv, NEW t \in Actors, WebSocketCloseStep(t)
    PROVE  SessionInv'
<1>1. PICK w : w = thread[t].h
  OBVIOUS
<1>2. PICK d : d = Returned(t, TRUE)
  OBVIOUS
<1>3. /\ thread[t].at = "closing" /\ w \in WebSockets /\ w \in Handles /\ w \notin Sessions
      /\ phase[w] = "draining" /\ inFlight[w] = 0 /\ Owns(t, w)
      /\ phase' = [phase EXCEPT ![w] = "freed"] /\ thread' = [thread EXCEPT ![t] = d]
      /\ UNCHANGED <<inFlight, held, table, loop, monitor>>
  BY <1>1, <1>2, SessionLifeConstants
     DEF WebSocketCloseStep, DrainedEnough, Free, SessionInv, ThreadsOK, ThreadOK, Handles, Owns
<1>4. \A u \in Actors : thread[u].at = "operating" => thread[u].h # w
  BY <1>3, NobodyInside
<1>5. /\ d \in [at : {"idle", "check", "failed"}, h : Handles \cup {"none"}, step : Nat]
      /\ d.at # "idle" => d.h \in Handles
  BY <1>1, <1>2, <1>3, ReturnedTyped
<1> QED  BY <1>3, <1>4, <1>5, Freed

\* EngineCloseActiveHandles looks handles up and decides whether to go on.
LEMMA InvUnload == SessionInv /\ (BeginUnload \/ FirstActive \/ CheckClosed) => SessionInv'
<1> SUFFICES ASSUME SessionInv, BeginUnload \/ FirstActive \/ CheckClosed PROVE SessionInv'
  OBVIOUS
<1>1. Driver \in Actors
  BY DEF Actors
<1>2. CASE UNCHANGED thread
  <2>1. UNCHANGED <<phase, inFlight, held, table, thread, monitor>>
    BY <1>2 DEF BeginUnload, FirstActive, CheckClosed
  <2>2. MonitorTypeOK'
    BY <2>1 DEF SessionInv, MonitorTypeOK
  <2> QED  BY <2>1, <2>2, MonitorStep
<1>3. CASE FirstActive /\ table[loop] # <<>>
  <2>1. PICK d : d = [at |-> "close", h |-> Head(table[loop]), step |-> 0]
    OBVIOUS
  <2>2. /\ loop \in Kinds /\ thread[Driver] = Idle /\ thread' = [thread EXCEPT ![Driver] = d]
        /\ UNCHANGED <<phase, inFlight, held, table, monitor>>
    BY <1>3, <2>1 DEF FirstActive, Doing, Kinds
  <2>3. Head(table[loop]) \in Handles
    BY <1>3, <2>2 DEF SessionInv, SessionTypeOK
  <2>4. thread[Driver].at # "operating"
    BY <2>2 DEF Idle
  <2> QED  BY <1>1, <2>1, <2>2, <2>3, <2>4, Moves
<1>4. CASE CheckClosed
  <2>1. /\ thread' = [thread EXCEPT ![Driver] = Idle] /\ thread[Driver].at # "operating"
        /\ UNCHANGED <<phase, inFlight, held, table, monitor>>
    BY <1>4 DEF CheckClosed
  <2>2. /\ Idle \in [at : {"idle", "close", "check", "failed"}, h : Handles \cup {"none"}, step : Nat]
        /\ Idle.at = "idle"
    BY DEF Idle
  <2> QED  BY <1>1, <2>1, <2>2, Moves
<1>5. BeginUnload => UNCHANGED thread
  BY DEF BeginUnload
<1>6. FirstActive /\ table[loop] = <<>> => UNCHANGED thread
  BY DEF FirstActive
<1> QED  BY <1>2, <1>3, <1>4, <1>5, <1>6

----------------------------------------
(* The theorem.                                                              *)

\* Every step of the system preserves the invariant.
LEMMA InvNext == SessionInv /\ [SessionNext]_sessionVars => SessionInv'
<1> SUFFICES ASSUME SessionInv, [SessionNext]_sessionVars PROVE SessionInv'
  OBVIOUS
<1>1. CASE UNCHANGED sessionVars
  <2>1. UNCHANGED <<phase, inFlight, held, table, thread, monitor>>
    BY <1>1 DEF sessionVars
  <2>2. MonitorTypeOK'
    BY <2>1 DEF SessionInv, MonitorTypeOK
  <2> QED  BY <2>1, <2>2, MonitorStep
<1>2. ASSUME NEW t \in Actors, ThreadStep(t) PROVE SessionInv'
  <2>1. thread[t].at = "close" => thread[t].h \in Handles
    BY DEF SessionInv, ThreadsOK, ThreadOK
  <2> QED  BY <1>2, <2>1, InvEnd, InvSetDrainEvent, InvAcquireResource, InvRegisterSession,
              InvRollback, InvSessionCloseStep, InvWebSocketCloseStep, InvTryClose DEF ThreadStep
<1>3. ASSUME NEW t \in Threads PROVE t \in Actors
  BY DEF Actors
<1>4. ASSUME NEW t \in Threads, AcquireFails(t) PROVE SessionInv'
  BY <1>3, <1>4, InvAcquireFails
<1>5. ASSUME NEW t \in Threads, NEW h \in Handles, thread[t] = Idle,
             BeginHandleOperation(t, h) \/ TryCloseActiveHandle(t, h)
      PROVE  SessionInv'
  BY <1>3, <1>5, InvBegin, InvTryClose
<1>6. ASSUME NEW t \in Threads, NEW s \in Sessions, SessionCreate(t, s) PROVE SessionInv'
  BY <1>6, InvSessionCreate
<1>7. ASSUME NEW t \in Threads, NEW w \in WebSockets, WebSocketConnected(t, w) PROVE SessionInv'
  BY <1>7, InvWebSocketConnected
<1>8. CASE BeginUnload \/ UnloadStep
  BY <1>8, InvUnload, InvMonitorShutdown DEF UnloadStep
<1>9. CASE MonitorInitialize \/ Notify \/ WorkerStep
  BY <1>9, InvMonitorInitialize, InvNotify, InvWorkerStep
<1> QED  BY <1>1, <1>2, <1>4, <1>5, <1>6, <1>7, <1>8, <1>9 DEF SessionNext

\* What the invariant says of operations and of freed handles.
LEMMA InvSuffices == SessionInv => HandlesOutliveUse
<1> SUFFICES ASSUME SessionInv PROVE HandlesOutliveUse
  OBVIOUS
<1>1. OperationsPinHandle
  <2> SUFFICES ASSUME NEW t \in Actors, thread[t].at = "operating"
               PROVE  /\ phase[thread[t].h] \in {"active", "draining"}
                      /\ thread[t].h \in Sessions =>
                            {"workspace", "provider", "altSvc", "pool"} \subseteq held[thread[t].h]
    BY DEF OperationsPinHandle
  <2>1. thread[t].h \in Handles /\ phase[thread[t].h] \in {"active", "draining"}
    BY DEF SessionInv, ThreadsOK, ThreadOK
  <2>2. inFlight[thread[t].h] # 0
    BY <2>1, NobodyInside
  <2> QED  BY <2>1, <2>2 DEF SessionInv, HeldOK, Core
<1>2. FreedIsForgotten
  <2> SUFFICES ASSUME NEW s \in Sessions, phase[s] = "freed"
               PROVE  ~IsActiveHandle(s) /\ s \notin monitor.subscribers /\ held[s] = {}
    BY DEF FreedIsForgotten
  <2>1. s \in Handles
    BY DEF Handles
  <2> QED  BY <2>1, ActiveIsActive DEF SessionInv, HeldOK
<1> QED  BY <1>1, <1>2 DEF HandlesOutliveUse

(* However operations, closes, a failing creation, the driver's unload and    *)
(* the network monitor interleave, the handle of a running operation is not   *)
(* freed and keeps the parts the operation uses, and a freed session is in no *)
(* table and subscribed nowhere (EngineHandleTable.cpp, SessionLife.cpp).     *)
THEOREM HandlesAreSafe == SessionSpec => []HandlesOutliveUse
<1>1. SessionInit => SessionInv
  BY InvInit
<1>2. SessionInv /\ [SessionNext]_sessionVars => SessionInv'
  BY InvNext
<1>3. SessionInv => HandlesOutliveUse
  BY InvSuffices
<1> QED  BY <1>1, <1>2, <1>3, PTL DEF SessionSpec
=============================================================================
