------------------------- MODULE AsyncRuntime_proofs -------------------------
\* The references, the in-flight count and the tokens of the asynchronous
\* runtime are exact under every interleaving of any number of clients and
\* workers and the drain, for every queue depth.
\*
\* AsyncInv strengthens the properties to an inductive invariant.  An
\* exact count (ReferencesAreExact) says that the last reference is gone
\* when the object is freed; that nobody dereferences it afterwards also
\* needs who may still point at an operation and why it is alive
\* (PointersOK: clients through an open handle, everyone else through a
\* reference), at which labels a thread has one (ThreadsOK), and that a
\* runtime that restarts its queue has an empty one (RunOK).  AcceptedOK
\* and CompletionOK follow an operation from its claim to its callback.
\*
\* One lemma per alternative of an action, named for it, or one for the
\* alternatives that change the same things, with one step per conjunct of
\* the invariant.  Behind them come what EngineDrainAsync guarantees and
\* that the runtime implements AsyncLifecycle.
EXTENDS AsyncRuntime, FiniteSetTheorems, TLAPS

\* Labels inside the queue call behind the claim, and of a runtime that starts.
ClaimedLabels == {"q_check", "q_begin", "q_clear", "q_enqueue", "q_end", "q_set", "q_release"}
StartLabels == {"start", "start_failed", "start_join"}
EntryLabels == {"idle", "q_ensure", "x_flag", "x_state"} \cup StartLabels \cup CompleteLabels

\* Labels at which a worker's slot in g_asyncWorkerOperations names its operation,
\* and at which a worker or the drainer has an operation.
RunLabels == {"r_check", "r_running", "r_work", "w_clear"} \cup CompleteLabels
HoldLabels == RunLabels \cup {"w_release", "d_release"}

\* Labels of a thread that has seen its operation completed.
ServedLabels == {"w_clear", "w_release", "d_release"}

\* The drainer while it completes the operations it unlinked.
SweepLabels == {"d_next", "d_release", "d_end", "d_set"} \cup CompleteLabels

USE DEF ClientLabels, WorkerLabels, DrainLabels, CompleteLabels, ClaimedLabels, StartLabels,
        EntryLabels, RunLabels, HoldLabels, ServedLabels, SweepLabels

\* Every kind of thread keeps to its labels, and has an operation exactly while
\* it is inside a call or serves one.
ThreadsOK ==
    /\ \A c \in Clients : /\ pc[c] \in ClientLabels \cup CompleteLabels
                          /\ cur[c] = NoOp <=> pc[c] = "idle"
    /\ \A w \in Workers : /\ pc[w] \in WorkerLabels \cup CompleteLabels
                          /\ cur[w] = NoOp <=> pc[w] \notin HoldLabels
                          /\ workerOps[w] = IF pc[w] \in RunLabels THEN cur[w] ELSE NoOp
    /\ /\ pc[Drainer] \in DrainLabels \cup CompleteLabels
       /\ cur[Drainer] = NoOp <=> pc[Drainer] \notin HoldLabels

\* The state of the runtime, the stop flag, the queue and the drainer belong together.
RunOK ==
    /\ \A c \in Clients : /\ pc[c] \in StartLabels => runtimeState = 1
                          /\ runtimeState \in {0, 1} => pc[c] \in EntryLabels
                          /\ pc[c] \in {"start_failed", "start_join"} => stopped
    /\ \A c, d \in Clients : pc[c] \in StartLabels /\ pc[d] \in StartLabels => c = d
    /\ runtimeState \in {0, 1} => queue = <<>>
    /\ runtimeState = 3 => stopped
    /\ stopped /\ pc[Drainer] # "d_unlink" => queue = <<>>
    /\ pc[Drainer] # "idle" => runtimeState = 2 /\ stopped
    /\ unlinked # <<>> => pc[Drainer] \in SweepLabels

\* A client inside a call has an open handle; whoever else points at an operation
\* points at a live one.
PointersOK ==
    /\ \A c \in Clients : cur[c] # NoOp /\ pc[c] # "q_signal" => IsOpen(cur[c])
    /\ \A t \in Threads \ Clients : cur[t] # NoOp => op[cur[t]].memory = "live"
    /\ \A i \in DOMAIN queue : op[queue[i]].memory = "live"
    /\ \A i \in DOMAIN unlinked : op[unlinked[i]].memory = "live"

\* Whoever completes an operation has a final status for it; whoever is done with an
\* operation leaves it completed.
VerdictOK(t) ==
    /\ pc[t] \in CompleteLabels => verdict[t] # "pending"
    /\ pc[t] \in {"c_event", "c_callback"} => op[cur[t]].status # "pending"
    /\ pc[t] \in ServedLabels => op[cur[t]].completed

CompletionOK == CompletesOnce /\ \A t \in Threads : VerdictOK(t)

\* Operation o waits in one of the two lists, or is in the hands of thread t.
Listed(o) == \/ \E i \in DOMAIN queue : queue[i] = o
             \/ \E i \in DOMAIN unlinked : unlinked[i] = o
Holds(t, o) == cur[t] = o /\ (t \in Clients => pc[t] \in ClaimedLabels \cup CompleteLabels)

\* An operation that was queued is listed or held until it is completed.
AcceptedOK ==
    \A o \in Ops : op[o].queued /\ ~op[o].completed =>
        Listed(o) \/ \E t \in Threads : Holds(t, o)

\* What a successful drain left behind stays so.
DrainedOK ==
    drained = "drained" => /\ runtimeState = 3 /\ pc[Drainer] = "idle"
                           /\ \A w \in Workers : pc[w] = "exited"

\* The inductive invariant.
AsyncInv == /\ TypeOK /\ ThreadsOK /\ RunOK /\ ReferencesAreExact /\ PointersOK /\ InFlightIsExact
            /\ CompletionOK /\ AcceptedOK /\ DrainedOK /\ DrainCancelsRunning /\ NoLostWakeup

----------------------------------------
(* Counting *)

\* What the constants are.
LEMMA Constant ==
    /\ IsFiniteSet(Threads) /\ Workers \subseteq Threads /\ Clients \subseteq Threads
    /\ Drainer \in Threads /\ Drainer \notin Workers /\ Drainer \notin Clients
    /\ WorkerCount \in Nat /\ MaxQueueDepth \in Nat /\ SemaphoreLimit = MaxQueueDepth + WorkerCount
    /\ Workers \cap Clients = {} /\ NoOp \notin Ops
BY RuntimeAssumption, FS_Union, FS_Singleton, FS_CardinalityType DEF Threads, WorkerCount,
   SemaphoreLimit

\* A set of threads that only thread t may enter or leave.
LEMMA OneThread ==
    ASSUME NEW S \in SUBSET Threads, NEW S2 \in SUBSET Threads, NEW t,
           S2 \ {t} = S \ {t}
    PROVE  /\ Cardinality(S) \in Nat /\ Cardinality(S2) \in Nat
           /\ (t \in S2 <=> t \in S) => Cardinality(S2) = Cardinality(S)
           /\ t \in S2 /\ t \notin S => Cardinality(S2) = Cardinality(S) + 1
           /\ t \in S /\ t \notin S2 => Cardinality(S2) = Cardinality(S) - 1 /\ Cardinality(S) >= 1
<1>1. IsFiniteSet(S) /\ IsFiniteSet(S2)
  BY Constant, FS_Subset
<1>2. Cardinality(S) \in Nat /\ Cardinality(S2) \in Nat
  BY <1>1, FS_CardinalityType
<1>3. CASE t \in S2 <=> t \in S
  <2>1. S2 = S
    BY <1>3
  <2> QED
    BY <1>2, <2>1
<1>4. CASE t \in S2 /\ t \notin S
  BY <1>4, <1>1, FS_AddElement, <1>2
<1>5. CASE t \in S /\ t \notin S2
  <2>1. S = S2 \cup {t}
    BY <1>5
  <2>2. Cardinality(S2 \cup {t}) = Cardinality(S2) + 1
    BY <1>1, <1>5, FS_AddElement
  <2> QED
    BY <1>2, <1>5, <2>1, <2>2
<1> QED
  BY <1>3, <1>4, <1>5

\* Only thread t moves.
Only(t) == \A u \in Threads \ {t} : pc'[u] = pc[u] /\ cur'[u] = cur[u] /\ verdict'[u] = verdict[u]

\* How S, a set of threads, changes when thread t moves.
Change(S, S2, t) ==
    /\ Cardinality(S) \in Nat /\ Cardinality(S2) \in Nat
    /\ (t \in S2 <=> t \in S) => Cardinality(S2) = Cardinality(S)
    /\ t \in S2 /\ t \notin S => Cardinality(S2) = Cardinality(S) + 1
    /\ t \in S /\ t \notin S2 => Cardinality(S2) = Cardinality(S) - 1 /\ Cardinality(S) >= 1

\* The counts of owners, completers, counted threads and tokens change only by the thread that moves.
LEMMA CountsChange ==
    ASSUME NEW t \in Threads, Only(t)
    PROVE  /\ \A o : Change(Owners(o), Owners(o)', t) /\ Change(Completing(o), Completing(o)', t)
           /\ Change(Counted, Counted', t)
           /\ Change(Dequeuing, Dequeuing', t) /\ Change(Signalling, Signalling', t)
<1>1. ASSUME NEW o PROVE Change(Owners(o), Owners(o)', t)
  BY OneThread DEF Owners, Only, OwnsReference, Change
<1>2. ASSUME NEW o PROVE Change(Completing(o), Completing(o)', t)
  BY OneThread DEF Completing, Only, Change
<1>3. Change(Counted, Counted', t)
  BY OneThread DEF Counted, IsCounted, Only, OwnsReference, Change
<1>4. Change(Dequeuing, Dequeuing', t)
  BY Constant, OneThread DEF Dequeuing, Only, Change
<1>5. Change(Signalling, Signalling', t)
  BY Constant, OneThread DEF Signalling, Only, Change
<1> QED
  BY <1>1, <1>2, <1>3, <1>4, <1>5

----------------------------------------
(* The places of an operation in a list *)

\* The places of an operation in a list are finitely many.
LEMMA PositionsType ==
    ASSUME NEW s \in Seq(Ops), NEW o
    PROVE  IsFiniteSet(Positions(s, o)) /\ Cardinality(Positions(s, o)) \in Nat
<1>1. Positions(s, o) \in SUBSET (1..Len(s))
  BY DEF Positions
<1>2. IsFiniteSet(1..Len(s))
  BY FS_Interval
<1> QED
  BY <1>1, <1>2, FS_Subset, FS_CardinalityType

\* An empty list has no place for anything.
LEMMA PositionsEmpty ==
    ASSUME NEW o
    PROVE  Cardinality(Positions(<<>>, o)) = 0
<1>1. Positions(<<>>, o) = {}
  BY DEF Positions
<1> QED
  BY <1>1, FS_EmptySet

\* An operation that is listed has a place.
LEMMA PositionsSome ==
    ASSUME NEW s \in Seq(Ops), NEW i \in DOMAIN s
    PROVE  Cardinality(Positions(s, s[i])) >= 1
<1>1. Positions(s, s[i]) # {}
  BY DEF Positions
<1> QED
  BY <1>1, PositionsType, FS_EmptySet

\* Linking an operation at the tail adds one place, its own.
LEMMA PositionsAppend ==
    ASSUME NEW s \in Seq(Ops), NEW x \in Ops, NEW o
    PROVE  Cardinality(Positions(Append(s, x), o))
              = Cardinality(Positions(s, o)) + (IF x = o THEN 1 ELSE 0)
<1>1. CASE x = o
  <2>1. Positions(Append(s, x), o) = Positions(s, o) \cup {Len(s) + 1}
    BY <1>1 DEF Positions
  <2>2. Len(s) + 1 \notin Positions(s, o)
    BY DEF Positions
  <2> QED
    BY <1>1, <2>1, <2>2, PositionsType, FS_AddElement
<1>2. CASE x # o
  <2>1. Positions(Append(s, x), o) = Positions(s, o)
    BY <1>2 DEF Positions
  <2> QED
    BY <1>2, <2>1, PositionsType
<1> QED
  BY <1>1, <1>2

\* Unlinking the head takes one place, the head's.
LEMMA PositionsTail ==
    ASSUME NEW s \in Seq(Ops), s # <<>>, NEW o
    PROVE  Cardinality(Positions(s, o))
              = Cardinality(Positions(Tail(s), o)) + (IF Head(s) = o THEN 1 ELSE 0)
<1> DEFINE P == Positions(s, o)
           T == Positions(Tail(s), o)
           f == [i \in T |-> i + 1]
<1>1. /\ Tail(s) \in Seq(Ops) /\ Len(Tail(s)) = Len(s) - 1 /\ Len(s) \in Nat /\ Len(s) >= 1
      /\ \A i \in 1..(Len(s) - 1) : Tail(s)[i] = s[i + 1]
  OBVIOUS
<1>2. \A i : i \in T <=> i \in 1..(Len(s) - 1) /\ s[i + 1] = o
  BY <1>1 DEF Positions
<1>3. \A i : i \in P <=> i \in 1..Len(s) /\ s[i] = o
  BY DEF Positions
<1>4. f \in Bijection(T, P \ {1})
  <2>1. f \in [T -> P \ {1}]
    BY <1>1, <1>2, <1>3
  <2>2. \A i, j \in T : f[i] = f[j] => i = j
    BY <1>1, <1>2
  <2>3. \A j \in P \ {1} : \E i \in T : f[i] = j
    <3> SUFFICES ASSUME NEW j \in P \ {1} PROVE \E i \in T : f[i] = j
      OBVIOUS
    <3>1. j - 1 \in T /\ f[j - 1] = j
      BY <1>1, <1>2, <1>3
    <3> QED
      BY <3>1
  <2> QED
    BY <2>1, <2>2, <2>3 DEF Bijection, Injection, IsInjective, Surjection
<1>5. Cardinality(P \ {1}) = Cardinality(T)
  <2>1. IsFiniteSet(T)
    BY <1>1, PositionsType
  <2>2. ExistsBijection(T, P \ {1})
    BY <1>4 DEF ExistsBijection
  <2> QED
    BY <2>1, <2>2, FS_Bijection
<1>6. 1 \in P <=> Head(s) = o
  BY <1>1, <1>3
<1>7. IsFiniteSet(P) /\ Cardinality(P) \in Nat /\ Cardinality(T) \in Nat
  BY <1>1, PositionsType
<1>8. Cardinality(P \ {1}) = IF 1 \in P THEN Cardinality(P) - 1 ELSE Cardinality(P)
  BY <1>7, FS_RemoveElement
<1> QED
  BY <1>5, <1>6, <1>7, <1>8

----------------------------------------
(* Frames *)

\* An accepted operation stays in some hands if the thread that moves hands it on.
LEMMA AcceptedKept ==
    ASSUME AcceptedOK, NEW t \in Threads, Only(t),
           \A o \in Ops : op'[o].queued /\ ~op'[o].completed =>
                \/ Holds(t, o)'
                \/ op[o].queued /\ ~op[o].completed /\ (Holds(t, o) => Listed(o)'),
           \A o \in Ops : Listed(o) => Listed(o)' \/ Holds(t, o)'
    PROVE  AcceptedOK'
<1> SUFFICES ASSUME NEW o \in Ops, op'[o].queued, ~op'[o].completed,
                    ~Listed(o)', ~Holds(t, o)'
             PROVE  \E u \in Threads : Holds(u, o)'
  BY DEF AcceptedOK
<1>1. op[o].queued /\ ~op[o].completed /\ ~Holds(t, o) /\ ~Listed(o)
  OBVIOUS
<1>2. PICK u \in Threads : Holds(u, o)
  BY <1>1 DEF AcceptedOK
<1>3. u # t
  BY <1>1, <1>2
<1>4. Holds(u, o)'
  BY <1>2, <1>3 DEF Only, Holds
<1> QED
  BY <1>4

\* An operation that thread t owns, or whose handle is open, has a reference; if it
\* is the last one, nobody else can reach the operation.
LEMMA LastReference ==
    ASSUME TypeOK, ReferencesAreExact, NEW o \in Ops, op[o].memory = "live"
    PROVE  /\ ~op[o].closed => /\ op[o].refs >= 1
                               /\ op[o].refs = 1 => ~Listed(o) /\ Owners(o) = {}
           /\ \A t \in Owners(o) :
                /\ op[o].refs >= 1
                /\ op[o].refs = 1 => op[o].closed /\ ~Listed(o) /\ Owners(o) = {t}
<1> DEFINE q == Cardinality(Positions(queue, o))
           u == Cardinality(Positions(unlinked, o))
           n == Cardinality(Owners(o))
<1>1. q \in Nat /\ u \in Nat
  BY PositionsType DEF TypeOK
<1>2. IsFiniteSet(Owners(o)) /\ n \in Nat
  BY Constant, FS_Subset, FS_CardinalityType DEF Owners
<1>3. Listed(o) => q + u >= 1
  <2>1. ASSUME NEW i \in DOMAIN queue, queue[i] = o PROVE q >= 1
    BY <2>1, PositionsSome DEF TypeOK
  <2>2. ASSUME NEW i \in DOMAIN unlinked, unlinked[i] = o PROVE u >= 1
    BY <2>2, PositionsSome DEF TypeOK
  <2> QED
    BY <1>1, <2>1, <2>2 DEF Listed
<1>4. (n = 0 <=> Owners(o) = {}) /\ (n = 1 => \E x : Owners(o) = {x})
  BY <1>2, FS_EmptySet, FS_Singleton
<1>5. op[o].refs = (IF op[o].closed THEN 0 ELSE 1) + q + u + n /\ op[o].refs \in Nat
  BY DEF ReferencesAreExact, TypeOK, Operations
<1> HIDE DEF q, u, n
<1>6. ~op[o].closed => /\ op[o].refs >= 1
                       /\ op[o].refs = 1 => q = 0 /\ u = 0 /\ n = 0
  BY <1>1, <1>2, <1>5
<1>7. n # 0 => /\ op[o].refs >= 1
               /\ op[o].refs = 1 => op[o].closed /\ q = 0 /\ u = 0 /\ n = 1
  BY <1>1, <1>2, <1>5
<1>8. \A t \in Owners(o) : n # 0 /\ (n = 1 => Owners(o) = {t})
  BY <1>4
<1> QED
  BY <1>3, <1>4, <1>6, <1>7, <1>8

\* Where no count changes: thread t keeps what it owns, what it is counted for and
\* its token, and the operations keep their references.
LEMMA CountsKept ==
    ASSUME AsyncInv, NEW t \in Threads, Only(t), UNCHANGED <<queue, unlinked, inFlight>>,
           semaphore' \in Nat, semaphore' >= semaphore,
           \A o \in Ops : /\ op'[o].memory = op[o].memory
                          /\ op'[o].refs = op[o].refs /\ op'[o].closed = op[o].closed,
           \A o \in Ops : t \in Owners(o)' <=> t \in Owners(o),
           t \in Counted' <=> t \in Counted,
           t \in Dequeuing' <=> t \in Dequeuing, t \in Signalling' <=> t \in Signalling
    PROVE  ReferencesAreExact' /\ InFlightIsExact' /\ NoLostWakeup'
<1>1. /\ \A o \in Ops : Cardinality(Owners(o)') = Cardinality(Owners(o))
      /\ Cardinality(Counted') = Cardinality(Counted)
      /\ Cardinality(Dequeuing') = Cardinality(Dequeuing) /\ Cardinality(Dequeuing) \in Nat
      /\ Cardinality(Signalling') = Cardinality(Signalling) /\ Cardinality(Signalling) \in Nat
  BY CountsChange DEF Change
<1>2. ReferencesAreExact'
  BY <1>1 DEF AsyncInv, ReferencesAreExact
<1>3. InFlightIsExact'
  BY <1>1 DEF AsyncInv, InFlightIsExact
<1>4. NoLostWakeup'
  BY <1>1 DEF AsyncInv, TypeOK, NoLostWakeup
<1> QED
  BY <1>2, <1>3, <1>4

\* Where thread t keeps the operation it holds.
LEMMA AcceptedSteady ==
    ASSUME AcceptedOK, NEW t \in Threads, Only(t), UNCHANGED <<queue, unlinked>>,
           \A o \in Ops : op'[o].queued /\ ~op'[o].completed =>
                /\ op[o].queued /\ ~op[o].completed
                /\ Holds(t, o) => Holds(t, o)'
    PROVE  AcceptedOK'
BY AcceptedKept DEF Listed

\* What the operations write into a record keeps it one.
LEMMA OperationUpdates ==
    ASSUME NEW r \in Operations
    PROVE  /\ [r EXCEPT !.queued = TRUE] \in Operations
           /\ [r EXCEPT !.canceled = TRUE] \in Operations
           /\ [r EXCEPT !.completed = TRUE] \in Operations
           /\ [r EXCEPT !.event = TRUE] \in Operations
           /\ [r EXCEPT !.state = "Running"] \in Operations
           /\ [r EXCEPT !.refs = @ + 1] \in Operations
           /\ [r EXCEPT !.callbacks = @ + 1] \in Operations
           /\ r.refs >= 1 => /\ Released(r) \in Operations
                             /\ [Released(r) EXCEPT !.queued = FALSE] \in Operations
                             /\ [Released(r) EXCEPT !.closed = TRUE] \in Operations
           /\ \A v \in Statuses : [r EXCEPT !.status = v, !.state = "Completed"] \in Operations
<1>1. /\ [r EXCEPT !.queued = TRUE] \in Operations
      /\ [r EXCEPT !.canceled = TRUE] \in Operations
      /\ [r EXCEPT !.completed = TRUE] \in Operations
      /\ [r EXCEPT !.event = TRUE] \in Operations
  BY DEF Operations
<1>2. /\ [r EXCEPT !.state = "Running"] \in Operations
      /\ [r EXCEPT !.refs = @ + 1] \in Operations
      /\ [r EXCEPT !.callbacks = @ + 1] \in Operations
  BY DEF Operations
<1>3. ASSUME r.refs >= 1
      PROVE  /\ Released(r) \in Operations
             /\ [Released(r) EXCEPT !.queued = FALSE] \in Operations
             /\ [Released(r) EXCEPT !.closed = TRUE] \in Operations
  <2>1. r.refs - 1 \in Nat
    BY <1>3 DEF Operations
  <2>2. Released(r) \in Operations
    BY <2>1 DEF Operations, Released
  <2> QED
    BY <2>2 DEF Operations
<1>4. \A v \in Statuses : [r EXCEPT !.status = v, !.state = "Completed"] \in Operations
  BY DEF Operations
<1> QED
  BY <1>1, <1>2, <1>3, <1>4

\* A thread inside CompleteOperation has an operation, and where it returns to.
LEMMA InsideComplete ==
    ASSUME TypeOK, ThreadsOK, NEW t \in Threads, pc[t] \in CompleteLabels
    PROVE  /\ cur[t] \in Ops
           /\ \/ t \in Clients /\ t \notin Workers /\ t # Drainer /\ AfterComplete(t) = "idle"
              \/ t \in Workers /\ t \notin Clients /\ t # Drainer /\ AfterComplete(t) = "w_clear"
              \/ t = Drainer /\ t \notin Clients /\ t \notin Workers /\ AfterComplete(t) = "d_release"
BY Constant DEF Threads, ThreadsOK, TypeOK, AfterComplete

\* Where no operation is freed or closed, and thread t keeps or drops its own.
LEMMA PointersKept ==
    ASSUME TypeOK, PointersOK, NEW t \in Threads, Only(t), UNCHANGED <<queue, unlinked>>,
           \A o \in Ops : op[o].memory = "live" =>
                op'[o].memory = "live" /\ (op'[o].closed => op[o].closed),
           cur'[t] = NoOp \/ (cur'[t] = cur[t] /\ pc[t] # "q_signal")
    PROVE  PointersOK'
<1>1. \A u \in Threads : cur[u] # NoOp => cur[u] \in Ops
  BY DEF TypeOK
<1>2. ASSUME NEW c \in Clients, cur'[c] # NoOp, pc'[c] # "q_signal"
      PROVE  cur'[c] = cur[c] /\ pc[c] # "q_signal"
  BY <1>2, Constant DEF Only
<1>3. ASSUME NEW c \in Clients, cur'[c] # NoOp, pc'[c] # "q_signal"
      PROVE  IsOpen(cur[c])'
  BY <1>1, <1>2, <1>3, Constant DEF PointersOK, IsOpen
<1>4. ASSUME NEW u \in Threads \ Clients, cur'[u] # NoOp
      PROVE  op'[cur'[u]].memory = "live"
  BY <1>1, <1>4 DEF PointersOK, Only
<1>5. /\ \A i \in DOMAIN queue : op'[queue[i]].memory = "live"
      /\ \A i \in DOMAIN unlinked : op'[unlinked[i]].memory = "live"
  BY DEF PointersOK, TypeOK
<1> QED
  BY <1>3, <1>4, <1>5 DEF PointersOK

\* Who completes or has served an operation has one.
LEMMA HasOperation ==
    ASSUME TypeOK, ThreadsOK, NEW u \in Threads, pc[u] \in CompleteLabels \cup ServedLabels
    PROVE  cur[u] \in Ops
BY DEF Threads, ThreadsOK, TypeOK

\* Where completed operations stay completed, with their status, only thread t counts.
LEMMA VerdictsKept ==
    ASSUME TypeOK, ThreadsOK, \A u \in Threads : VerdictOK(u), NEW t \in Threads, Only(t),
           \A o \in Ops : /\ op[o].completed => op'[o].completed
                          /\ op[o].status # "pending" => op'[o].status # "pending",
           VerdictOK(t)'
    PROVE  \A u \in Threads : VerdictOK(u)'
<1> SUFFICES ASSUME NEW u \in Threads \ {t}
             PROVE  VerdictOK(u)'
  OBVIOUS
<1>1. pc'[u] = pc[u] /\ cur'[u] = cur[u] /\ verdict'[u] = verdict[u] /\ VerdictOK(u)
  BY DEF Only
<1>2. ASSUME pc[u] \in CompleteLabels \cup ServedLabels
      PROVE  cur[u] \in Ops
  BY <1>2, HasOperation
<1> QED
  BY <1>1, <1>2 DEF VerdictOK

\* The two alternatives of StartWorker.
WorkerStarted(c, w) ==
    /\ pc[c] = "start" /\ pc[w] = "none" /\ pc' = [pc EXCEPT ![w] = "w_wait"]
    /\ UNCHANGED <<runtimeState, stopped, queue, semaphore, inFlight, drainEvent, workerOps,
                   op, cur, verdict, drainVars>>
StartEnds(c) ==
    /\ pc[c] = "start" /\ pc' = [pc EXCEPT ![c] = "q_claim"] /\ runtimeState' = 2
    /\ UNCHANGED <<stopped, queue, semaphore, inFlight, drainEvent, workerOps, op, cur,
                   verdict, drainVars>>

----------------------------------------
(* The steps *)

\* AsyncOperationCreate: a fresh object has one reference, its handle, and nobody else knows it.
LEMMA AsyncOperationCreateStep ==
    ASSUME AsyncInv, NEW c \in Clients, NEW x \in Ops, AsyncOperationCreate(c, x)
    PROVE  AsyncInv'
<1> USE DEF AsyncInv
<1>0. op' = [op EXCEPT ![x] = NewOperation]
  BY DEF AsyncOperationCreate, runtimeVars, drainVars
<1>1. /\ pc[c] = "idle" /\ op[x].memory = "absent"
      /\ UNCHANGED <<runtimeState, stopped, queue, semaphore, inFlight, drainEvent,
                           workerOps, pc, cur, verdict, unlinked, drains, drained>>
  BY DEF AsyncOperationCreate, runtimeVars, drainVars
<1> USE <1>1
<1>2. c \in Threads /\ Only(c)
  BY Constant DEF Only, TypeOK
<1>3. \A o \in Ops :
        /\ op'[o].memory = IF o = x THEN "live" ELSE op[o].memory
        /\ op'[o].refs = IF o = x THEN 1 ELSE op[o].refs
        /\ op'[o].closed <=> (o # x /\ op[o].closed)
        /\ op'[o].queued <=> (o # x /\ op[o].queued)
        /\ op'[o].completed <=> (o # x /\ op[o].completed)
        /\ op'[o].canceled <=> (o # x /\ op[o].canceled)
        /\ op'[o].callbacks = IF o = x THEN 0 ELSE op[o].callbacks
        /\ op'[o].event <=> (o # x /\ op[o].event)
        /\ op'[o].status = IF o = x THEN "pending" ELSE op[o].status
  BY <1>0, <1>2 DEF TypeOK, Operations, NewOperation
<1>4. /\ \A o : Change(Owners(o), Owners(o)', c) /\ Change(Completing(o), Completing(o)', c)
      /\ Change(Counted, Counted', c)
      /\ Change(Dequeuing, Dequeuing', c) /\ Change(Signalling, Signalling', c)
  BY <1>2, CountsChange
<1>5. TypeOK'
  BY <1>2, <1>0 DEF TypeOK, Operations, Statuses, NewOperation
<1>6. ThreadsOK'
  BY <1>2 DEF ThreadsOK, TypeOK, NewOperation
<1>7. RunOK'
  BY <1>2 DEF RunOK, ThreadsOK, TypeOK, NewOperation
<1>8. PointersOK'
  BY <1>2, <1>3, PointersKept DEF TypeOK
<1>9. CompletionOK'
  <2>1. \A t \in Threads : cur[t] = x => t \in Clients /\ pc[t] = "q_signal"
    BY Constant DEF PointersOK, IsOpen
  <2>2. Cardinality(Completing(x)') = 0
    <3>1. Completing(x)' = {}
      BY <2>1 DEF Completing
    <3> QED
      BY <3>1, FS_EmptySet
  <2>3. \A o \in Ops : Completing(o)' = Completing(o)
    BY DEF Completing
  <2> QED
    <3>1. CompletesOnce'
      BY <1>2, <1>3, <2>2, <2>3 DEF CompletionOK, CompletesOnce
    <3>2. ASSUME NEW u \in Threads, pc[u] \in CompleteLabels \cup ServedLabels
          PROVE  cur[u] \in Ops /\ cur[u] # x
      BY <2>1, <3>2, HasOperation
    <3>3. ASSUME NEW u \in Threads
          PROVE  VerdictOK(u)'
      BY <1>2, <1>3, <3>2 DEF CompletionOK, VerdictOK
    <3> QED
      BY <3>1, <3>3 DEF CompletionOK
<1>10. AcceptedOK'
  BY <1>2, <1>3, AcceptedSteady DEF Holds, ThreadsOK, TypeOK
<1>11. DrainedOK' /\ DrainCancelsRunning'
  BY Constant, <1>2, <1>3 DEF PointersOK, ThreadsOK, DrainedOK, DrainCancelsRunning, TypeOK
<1>12. ReferencesAreExact'
  <2>3. \A t \in Threads : cur[t] = x => t \in Clients /\ pc[t] = "q_signal"
    BY Constant DEF PointersOK, IsOpen
  <2>4. Owners(x)' = {}
    BY <2>3 DEF Owners, OwnsReference
  <2>1. Cardinality(Owners(x)') = 0 /\ Cardinality(Positions(queue, x)) = 0 /\ Cardinality(Positions(unlinked, x)) = 0
    BY <2>4, FS_EmptySet DEF Positions, PointersOK
  <2>2. \A o \in Ops : Owners(o)' = Owners(o)
    BY DEF Owners, OwnsReference
  <2> QED
    <3> SUFFICES ASSUME NEW o \in Ops, op'[o].memory = "live"
                 PROVE  op'[o].refs = (IF op'[o].closed THEN 0 ELSE 1)
                          + Cardinality(Positions(queue, o)) + Cardinality(Positions(unlinked, o))
                          + Cardinality(Owners(o)')
      BY DEF ReferencesAreExact
    <3>1. CASE o = x
      BY <1>2, <1>3, <2>1, <3>1
    <3>2. CASE o # x
      BY <1>2, <1>3, <2>2, <3>2 DEF ReferencesAreExact
    <3> QED
      BY <3>1, <3>2
<1>13. InFlightIsExact'
  BY <1>2, <1>4 DEF Change, Counted, IsCounted, OwnsReference, ThreadsOK, TypeOK, InFlightIsExact
<1>14. NoLostWakeup'
  BY <1>2, <1>4 DEF Change, Dequeuing, Signalling, TypeOK, NoLostWakeup
<1> QED
  BY <1>5, <1>6, <1>7, <1>8, <1>9, <1>10, <1>11, <1>12, <1>13, <1>14

\* A client enters Queue or Cancel with a handle that is open.
LEMMA EnterCallStep ==
    ASSUME AsyncInv, NEW c \in Clients, NEW x \in Ops, EnterCall(c, x),
           NEW first \in {"q_ensure", "x_flag"}, pc' = [pc EXCEPT ![c] = first]
    PROVE  AsyncInv'
<1> USE DEF AsyncInv
<1>1. /\ op[x].memory = "live" /\ ~op[x].closed /\ pc[c] = "idle"
      /\ pc' = [pc EXCEPT ![c] = first] /\ first \in {"q_ensure", "x_flag"}
      /\ cur' = [cur EXCEPT ![c] = x]
      /\ UNCHANGED <<runtimeState, stopped, queue, semaphore, inFlight, drainEvent,
                           workerOps, op, verdict, unlinked, drains, drained>>
  BY DEF EnterCall, IsOpen, Goto, runtimeVars, drainVars
<1> USE <1>1
<1>2. c \in Threads /\ Only(c)
  BY Constant DEF Only, TypeOK
<1>3. TypeOK'
  BY <1>2 DEF TypeOK, Statuses
<1>4. ThreadsOK'
  BY <1>2, Constant DEF ThreadsOK, TypeOK
<1>5. RunOK'
  BY <1>2, Constant DEF RunOK, ThreadsOK, TypeOK
<1>6. PointersOK'
  BY <1>2 DEF PointersOK, ThreadsOK, TypeOK, IsOpen
<1>7. CompletionOK'
  BY <1>2, CountsChange, VerdictsKept DEF Change, Completing, TypeOK, CompletionOK, CompletesOnce,
     VerdictOK
<1>8. AcceptedOK'
  BY <1>2, AcceptedSteady DEF Holds, ThreadsOK, TypeOK
<1>9. DrainedOK' /\ DrainCancelsRunning'
  BY <1>2, Constant DEF DrainedOK, DrainCancelsRunning, RunOK, ThreadsOK, TypeOK
<1>10. ReferencesAreExact' /\ InFlightIsExact' /\ NoLostWakeup'
  BY <1>2, CountsKept DEF Owners, OwnsReference, Counted, IsCounted, TypeOK, Dequeuing, Signalling
<1> QED
  BY <1>3, <1>4, <1>5, <1>6, <1>7, <1>8, <1>9, <1>10

\* Steps of a client that leave what is held, counted, completed and signalled as it was: the
\* runtime runs or has stopped (EnsureAsyncRuntimeInitialized), a failed start ends, the queue call
\* or the cancel returns or goes on to complete.
LEMMA ClientGoesOn ==
    ASSUME AsyncInv, NEW c \in Clients,
           \/ EnsureRunning(c) /\ runtimeState \in {2, 3}
           \/ StartEnds(c) \/ StartFailedWake(c) \/ StartFailedJoin(c)
           \/ QueueClaim(c) /\ (op[cur[c]].state # "Pending" \/ op[cur[c]].queued)
           \/ QueueCheckCanceled(c) /\ op[cur[c]].canceled
           \/ BeginClearEvent(c) \/ CancelIfPending(c)
           \/ EnqueueAsyncOperation(c) /\ ~QueueAccepts
           \/ SetDrainEvent(c, "q_set", "q_release")
    PROVE  AsyncInv'
<1> USE DEF AsyncInv
<1>1. /\ UNCHANGED <<stopped, queue, inFlight, workerOps, op, unlinked, drains, drained>>
      /\ \/ /\ pc[c] = "q_ensure" /\ runtimeState = 2 /\ pc' = [pc EXCEPT ![c] = "q_claim"]
            /\ UNCHANGED <<runtimeState, semaphore, drainEvent, cur, verdict>>
         \/ /\ pc[c] = "start" /\ pc' = [pc EXCEPT ![c] = "q_claim"] /\ runtimeState' = 2
            /\ UNCHANGED <<semaphore, drainEvent, cur, verdict>>
         \/ /\ pc[c] = "start_failed" /\ pc' = [pc EXCEPT ![c] = "start_join"]
            /\ semaphore' = semaphore + WorkerCount
            /\ UNCHANGED <<runtimeState, drainEvent, cur, verdict>>
         \/ /\ pc[c] = "start_join" /\ pc' = [pc EXCEPT ![c] = "idle"] /\ cur' = [cur EXCEPT ![c] = NoOp]
            /\ runtimeState' = 3 /\ UNCHANGED <<semaphore, drainEvent, verdict>>
         \/ /\ (pc[c] = "q_ensure" /\ runtimeState = 3) \/ pc[c] \in {"q_claim", "x_state"}
            /\ pc' = [pc EXCEPT ![c] = "idle"] /\ cur' = [cur EXCEPT ![c] = NoOp]
            /\ UNCHANGED <<runtimeState, semaphore, drainEvent, verdict>>
         \/ /\ pc[c] \in {"q_check", "x_state"} /\ pc' = [pc EXCEPT ![c] = "c_cas"]
            /\ verdict' = [verdict EXCEPT ![c] = "cancelled"]
            /\ UNCHANGED <<runtimeState, semaphore, drainEvent, cur>>
         \/ /\ pc[c] = "q_clear" /\ pc' = [pc EXCEPT ![c] = "q_enqueue"] /\ drainEvent' = FALSE
            /\ UNCHANGED <<runtimeState, semaphore, cur, verdict>>
         \/ /\ pc[c] = "q_enqueue" /\ pc' = [pc EXCEPT ![c] = "q_end"]
            /\ UNCHANGED <<runtimeState, semaphore, drainEvent, cur, verdict>>
         \/ /\ pc[c] = "q_set" /\ pc' = [pc EXCEPT ![c] = "q_release"] /\ drainEvent' = TRUE
            /\ UNCHANGED <<runtimeState, semaphore, cur, verdict>>
  BY DEF EnsureRunning, StartEnds, StartFailedWake, StartFailedJoin, QueueClaim, QueueCheckCanceled,
       BeginClearEvent, CancelIfPending, EnqueueAsyncOperation, SetDrainEvent, EnterComplete, Return,
       Goto, runtimeVars, drainVars
<1>2. c \in Threads /\ Only(c) /\ cur[c] \in Ops /\ WorkerCount \in Nat
  BY <1>1, Constant DEF Only, TypeOK, ThreadsOK, SemaphoreLimit
<1>3. TypeOK'
  <2>1. pc' \in [Threads -> ClientLabels \cup WorkerLabels \cup DrainLabels \cup CompleteLabels]
    BY <1>1, <1>2 DEF TypeOK
  <2>2. cur' \in [Threads -> Ops \cup {NoOp}] /\ verdict' \in [Threads -> Statuses]
    BY <1>1, <1>2 DEF TypeOK, Statuses
  <2>3. runtimeState' \in 0..3 /\ semaphore' \in Nat
    BY <1>1, <1>2 DEF TypeOK
  <2>4. drainEvent' \in BOOLEAN
    BY <1>1 DEF TypeOK
  <2> QED
    BY <1>1, <2>1, <2>2, <2>3, <2>4 DEF TypeOK
<1>4. /\ pc[c] \in ClientLabels \ {"idle", "q_signal"}
      /\ pc'[c] \in (ClientLabels \ {"q_signal"}) \cup {"c_cas"}
      /\ cur'[c] = IF pc'[c] = "idle" THEN NoOp ELSE cur[c]
      /\ pc'[c] \in StartLabels => pc[c] = "start_failed" /\ pc'[c] = "start_join"
  BY <1>1, <1>2 DEF TypeOK
<1>5. /\ \/ runtimeState' = runtimeState
         \/ pc[c] \in StartLabels /\ runtimeState' \in {2, 3} /\ pc[Drainer] = "idle"
      /\ runtimeState' = 3 => stopped
      /\ runtimeState' \in {0, 1} => pc'[c] \in EntryLabels
  BY <1>1, <1>2 DEF RunOK, TypeOK
<1>6. /\ \A t \in Threads \ {c} : pc'[t] = pc[t] /\ cur'[t] = cur[t]
      /\ Drainer \in Threads \ {c} /\ Workers \subseteq Threads \ {c} /\ Clients \subseteq Threads
      /\ UNCHANGED <<stopped, queue, inFlight, workerOps, op, unlinked, drains, drained>>
  BY <1>1, <1>2, Constant DEF Only
<1>7. ThreadsOK'
  BY <1>2, <1>4, <1>6, Constant DEF ThreadsOK
<1>8. RunOK'
  <2>1. \A d \in Clients : /\ pc'[d] \in StartLabels => runtimeState' = 1
                           /\ runtimeState' \in {0, 1} => pc'[d] \in EntryLabels
                           /\ pc'[d] \in {"start_failed", "start_join"} => stopped'
    <3>1. pc'[c] \in StartLabels => runtimeState' = 1
      BY <1>1, <1>2 DEF RunOK, TypeOK
    <3>2. pc'[c] \in {"start_failed", "start_join"} => stopped'
      BY <1>1, <1>2 DEF RunOK, TypeOK
    <3>3. ASSUME NEW d \in Clients \ {c}, pc[d] \in StartLabels PROVE runtimeState' = 1
      BY <1>2, <1>5, <3>3 DEF RunOK
    <3> QED
      BY <1>2, <1>5, <1>6, <3>1, <3>2, <3>3 DEF RunOK
  <2>2. \A a, b \in Clients : pc'[a] \in StartLabels /\ pc'[b] \in StartLabels => a = b
    BY <1>2, <1>4, <1>6 DEF RunOK
  <2>3. pc'[Drainer] # "idle" => runtimeState' = 2 /\ stopped'
    BY <1>5, <1>6 DEF RunOK
  <2>4. runtimeState' \in {0, 1} => queue' = <<>>
    BY <1>5, <1>6 DEF RunOK
  <2> QED
    BY <1>5, <1>6, <2>1, <2>2, <2>3, <2>4 DEF RunOK
<1>9. PointersOK'
  BY <1>4, <1>6, Constant DEF PointersOK, IsOpen
<1>10. DrainedOK' /\ DrainCancelsRunning'
  BY <1>2, <1>5, <1>6 DEF DrainedOK, DrainCancelsRunning, RunOK
<1>11. CompletionOK'
  <2>1. \A o \in Ops : Cardinality(Completing(o)') = Cardinality(Completing(o))
    BY <1>1, <1>2, CountsChange DEF Change, Completing, TypeOK
  <2>2. CompletesOnce'
    BY <1>1, <2>1 DEF CompletionOK, CompletesOnce
  <2>3. VerdictOK(c)'
    BY <1>1, <1>2 DEF CompletionOK, VerdictOK, TypeOK
  <2> QED
    BY <1>1, <1>2, <2>2, <2>3, VerdictsKept DEF CompletionOK
<1>12. AcceptedOK'
  BY <1>1, <1>2, AcceptedSteady DEF Holds, ThreadsOK, TypeOK
<1>13. ReferencesAreExact' /\ InFlightIsExact' /\ NoLostWakeup'
  <2>1. /\ \A o \in Ops : c \in Owners(o)' <=> c \in Owners(o)
        /\ c \in Counted' <=> c \in Counted
    BY <1>1, <1>2 DEF Owners, OwnsReference, Counted, IsCounted, TypeOK
  <2>2. (c \in Dequeuing' <=> c \in Dequeuing) /\ (c \in Signalling' <=> c \in Signalling)
    BY <1>1, <1>2 DEF Dequeuing, Signalling, TypeOK
  <2>3. UNCHANGED <<queue, unlinked, inFlight, op>> /\ semaphore' \in Nat /\ semaphore' >= semaphore
    BY <1>1, <1>2 DEF TypeOK
  <2> QED
    BY <1>2, <2>1, <2>2, <2>3, CountsKept
<1> QED
  BY <1>3, <1>7, <1>8, <1>9, <1>10, <1>11, <1>12, <1>13

\* EnsureAsyncRuntimeInitialized resets the queue of a runtime that never ran: it is empty.
LEMMA EnsureStartsStep ==
    ASSUME AsyncInv, NEW c \in Clients, EnsureRunning(c), runtimeState = 0
    PROVE  AsyncInv'
<1> USE DEF AsyncInv
<1>1. /\ pc[c] = "q_ensure" /\ pc' = [pc EXCEPT ![c] = "start"] /\ runtimeState = 0
      /\ runtimeState' = 1 /\ stopped' = FALSE /\ queue' = queue /\ semaphore' = 0 /\ drainEvent' = TRUE
      /\ UNCHANGED <<inFlight, workerOps, op, cur, verdict, unlinked, drains, drained>>
  BY DEF EnsureRunning, Return, RunOK, Goto, runtimeVars, drainVars
<1> USE <1>1
<1>2. c \in Threads /\ Only(c) /\ cur[c] \in Ops /\ Len(queue) = 0
  BY Constant DEF Only, TypeOK, ThreadsOK, RunOK
<1>3. /\ \A o : Change(Owners(o), Owners(o)', c) /\ Change(Completing(o), Completing(o)', c)
      /\ Change(Counted, Counted', c)
      /\ Change(Dequeuing, Dequeuing', c) /\ Change(Signalling, Signalling', c)
  BY <1>2, CountsChange
<1>4. TypeOK'
  <2>1. stopped' \in BOOLEAN /\ drainEvent' \in BOOLEAN
    BY Zenon
  <2>3. runtimeState' \in 0..3 /\ semaphore' \in Nat
    OBVIOUS
  <2>2. pc' \in [Threads -> ClientLabels \cup WorkerLabels \cup DrainLabels \cup CompleteLabels]
    BY DEF TypeOK
  <2> QED
    BY <2>1, <2>2, <2>3 DEF TypeOK
<1>5. ThreadsOK'
  BY <1>2 DEF ThreadsOK, TypeOK
<1>6. RunOK'
  BY <1>2 DEF RunOK, ThreadsOK, TypeOK
<1>7. PointersOK'
  BY <1>2 DEF PointersOK, ThreadsOK, TypeOK, IsOpen
<1>8. CompletionOK'
  BY <1>3, <1>2, VerdictsKept DEF Change, Completing, TypeOK, CompletionOK, CompletesOnce, VerdictOK
<1>9. AcceptedOK'
  BY <1>2, AcceptedSteady DEF Holds, ThreadsOK, TypeOK
<1>10. DrainedOK' /\ DrainCancelsRunning'
  BY <1>2 DEF DrainedOK, DrainCancelsRunning, RunOK, ThreadsOK, TypeOK
<1>11. ReferencesAreExact'
  <2>1. \A o \in Ops : Cardinality(Owners(o)') = Cardinality(Owners(o))
    BY <1>2, <1>3 DEF Change, Owners, OwnsReference, TypeOK
  <2> QED
    BY <1>2, <2>1 DEF ReferencesAreExact, TypeOK
<1>12. InFlightIsExact'
  BY <1>2, <1>3 DEF Change, Counted, IsCounted, OwnsReference, ThreadsOK, TypeOK, InFlightIsExact
<1>13. NoLostWakeup'
  BY <1>2, <1>3 DEF Change, Dequeuing, Signalling, TypeOK, NoLostWakeup
<1> QED
  BY <1>4, <1>5, <1>6, <1>7, <1>8, <1>9, <1>10, <1>11, <1>12, <1>13

\* The claim: from here on the client holds the operation.
LEMMA QueueClaimedStep ==
    ASSUME AsyncInv, NEW c \in Clients, QueueClaim(c), op[cur[c]].state = "Pending", ~op[cur[c]].queued
    PROVE  AsyncInv'
<1> USE DEF AsyncInv
<1>0. op' = [op EXCEPT ![cur[c]].queued = TRUE]
  BY DEF QueueClaim, Return, Goto, runtimeVars, drainVars
<1>1. /\ pc[c] = "q_claim" /\ pc' = [pc EXCEPT ![c] = "q_check"]
      /\ UNCHANGED <<runtimeState, stopped, queue, semaphore, inFlight, drainEvent,
                           workerOps, cur, verdict, unlinked, drains, drained>>
  BY DEF QueueClaim, Return, Goto, runtimeVars, drainVars
<1> USE <1>1
<1>2. c \in Threads /\ Only(c) /\ cur[c] \in Ops
  BY Constant DEF Only, TypeOK, ThreadsOK
<1>3. \A o \in Ops :
        /\ op'[o].memory = op[o].memory /\ op'[o].refs = op[o].refs /\ op'[o].closed = op[o].closed
        /\ op'[o].completed = op[o].completed /\ op'[o].canceled = op[o].canceled
        /\ op'[o].queued <=> (o = cur[c] \/ op[o].queued)
        /\ op'[o].callbacks = op[o].callbacks /\ op'[o].event = op[o].event /\ op'[o].status = op[o].status
  BY <1>0, <1>2 DEF TypeOK, Operations
<1>4. TypeOK'
  BY <1>2, OperationUpdates, <1>0 DEF TypeOK, Statuses
<1>5. ThreadsOK'
  BY <1>2 DEF ThreadsOK, TypeOK
<1>6. RunOK'
  BY <1>2 DEF RunOK, ThreadsOK, TypeOK
<1>7. PointersOK'
  BY <1>2, <1>3, PointersKept DEF TypeOK
<1>8. CompletionOK'
  <2>1. \A o \in Ops : Cardinality(Completing(o)') = Cardinality(Completing(o))
    BY <1>2, CountsChange DEF Change, Completing, TypeOK
  <2>2. CompletesOnce'
    BY <1>2, <1>3, <2>1 DEF CompletionOK, CompletesOnce
  <2>3. VerdictOK(c)'
    BY <1>2, <1>3 DEF CompletionOK, VerdictOK, TypeOK
  <2> QED
    BY <1>2, <1>3, <2>2, <2>3, VerdictsKept DEF CompletionOK
<1>9. AcceptedOK'
  BY <1>2, <1>3, AcceptedKept DEF Listed, Holds, TypeOK
<1>10. DrainedOK' /\ DrainCancelsRunning'
  BY <1>2, <1>3 DEF DrainedOK, DrainCancelsRunning, RunOK, ThreadsOK, TypeOK
<1>11. ReferencesAreExact' /\ InFlightIsExact' /\ NoLostWakeup'
  BY <1>2, <1>3, CountsKept DEF Owners, OwnsReference, Counted, IsCounted, TypeOK, Dequeuing,
     Signalling
<1> QED
  BY <1>4, <1>5, <1>6, <1>7, <1>8, <1>9, <1>10, <1>11

\* AddRef for the queue: the client owns one more reference.
LEMMA QueueTakesReferenceStep ==
    ASSUME AsyncInv, NEW c \in Clients, QueueCheckCanceled(c), ~op[cur[c]].canceled
    PROVE  AsyncInv'
<1> USE DEF AsyncInv
<1>0. op' = [op EXCEPT ![cur[c]].refs = @ + 1]
  BY DEF QueueCheckCanceled, EnterComplete, Goto, runtimeVars, drainVars
<1>1. /\ pc[c] = "q_check" /\ pc' = [pc EXCEPT ![c] = "q_begin"]
      /\ UNCHANGED <<runtimeState, stopped, queue, semaphore, inFlight, drainEvent,
                           workerOps, cur, verdict, unlinked, drains, drained>>
  BY DEF QueueCheckCanceled, EnterComplete, Goto, runtimeVars, drainVars
<1> USE <1>1
<1>2. c \in Threads /\ Only(c) /\ cur[c] \in Ops
  BY Constant DEF Only, TypeOK, ThreadsOK
<1>3. \A o \in Ops :
        /\ op'[o].memory = op[o].memory /\ op'[o].closed = op[o].closed
        /\ op'[o].refs = IF o = cur[c] THEN op[o].refs + 1 ELSE op[o].refs
        /\ op'[o].queued = op[o].queued /\ op'[o].completed = op[o].completed /\ op'[o].canceled = op[o].canceled
        /\ op'[o].callbacks = op[o].callbacks /\ op'[o].event = op[o].event /\ op'[o].status = op[o].status
  BY <1>0, <1>2 DEF TypeOK, Operations
<1>4. /\ \A o : Change(Owners(o), Owners(o)', c) /\ Change(Completing(o), Completing(o)', c)
      /\ Change(Counted, Counted', c)
      /\ Change(Dequeuing, Dequeuing', c) /\ Change(Signalling, Signalling', c)
  BY <1>2, CountsChange
<1>5. TypeOK'
  BY <1>2, OperationUpdates, <1>0 DEF TypeOK, Statuses
<1>6. ThreadsOK'
  BY <1>2 DEF ThreadsOK, TypeOK
<1>7. RunOK'
  BY <1>2 DEF RunOK, ThreadsOK, TypeOK
<1>8. PointersOK'
  BY <1>2, <1>3, PointersKept DEF TypeOK
<1>9. CompletionOK'
  <2>1. \A o \in Ops : Cardinality(Completing(o)') = Cardinality(Completing(o))
    BY <1>4 DEF Change, Completing, TypeOK
  <2>2. CompletesOnce'
    BY <1>2, <1>3, <2>1 DEF CompletionOK, CompletesOnce
  <2>3. VerdictOK(c)'
    BY <1>2, <1>3 DEF CompletionOK, VerdictOK, TypeOK
  <2> QED
    BY <1>2, <1>3, <2>2, <2>3, VerdictsKept DEF CompletionOK
<1>10. AcceptedOK'
  BY <1>2, <1>3, AcceptedSteady DEF Holds, ThreadsOK, TypeOK
<1>11. DrainedOK' /\ DrainCancelsRunning'
  BY <1>2, <1>3 DEF DrainedOK, DrainCancelsRunning, RunOK, ThreadsOK, TypeOK
<1>12. ReferencesAreExact'
  <2>1. \A o \in Ops : c \notin Owners(o) /\ (c \in Owners(o)' <=> o = cur[c])
    BY <1>2 DEF Owners, OwnsReference, TypeOK
  <2>2. \A o \in Ops : /\ Cardinality(Owners(o)) \in Nat
                       /\ Cardinality(Owners(o)') = Cardinality(Owners(o)) + (IF o = cur[c] THEN 1 ELSE 0)
    BY <2>1, <1>4 DEF Change
  <2>3. \A o \in Ops : /\ Cardinality(Positions(queue, o)) \in Nat
                       /\ Cardinality(Positions(unlinked, o)) \in Nat
    BY PositionsType DEF TypeOK
  <2> QED
    BY <1>3, <2>2, <2>3 DEF ReferencesAreExact
<1>13. InFlightIsExact'
  BY <1>2, <1>4 DEF Change, Counted, IsCounted, OwnsReference, ThreadsOK, TypeOK, InFlightIsExact
<1>14. NoLostWakeup'
  BY <1>2, <1>4 DEF Change, Dequeuing, Signalling, TypeOK, NoLostWakeup
<1> QED
  BY <1>5, <1>6, <1>7, <1>8, <1>9, <1>10, <1>11, <1>12, <1>13, <1>14

\* BeginAsyncOperation counts the operation.
LEMMA BeginCountStep ==
    ASSUME AsyncInv, NEW c \in Clients, BeginCount(c)
    PROVE  AsyncInv'
<1> USE DEF AsyncInv
<1>1. /\ pc[c] = "q_begin" /\ pc' = [pc EXCEPT ![c] = "q_clear"] /\ inFlight' = inFlight + 1
      /\ UNCHANGED <<runtimeState, stopped, queue, semaphore, drainEvent, workerOps, op,
                           cur, verdict, unlinked, drains, drained>>
  BY DEF BeginCount, Goto, runtimeVars, drainVars
<1> USE <1>1
<1>2. c \in Threads /\ Only(c) /\ cur[c] \in Ops
  BY Constant DEF Only, TypeOK, ThreadsOK
<1>3. /\ \A o : Change(Owners(o), Owners(o)', c) /\ Change(Completing(o), Completing(o)', c)
      /\ Change(Counted, Counted', c)
      /\ Change(Dequeuing, Dequeuing', c) /\ Change(Signalling, Signalling', c)
  BY <1>2, CountsChange
<1>4. TypeOK'
  BY <1>2 DEF TypeOK, Statuses
<1>5. ThreadsOK'
  BY <1>2 DEF ThreadsOK, TypeOK
<1>6. RunOK'
  BY <1>2 DEF RunOK, ThreadsOK, TypeOK
<1>7. PointersOK'
  BY <1>2 DEF PointersOK, ThreadsOK, TypeOK, IsOpen
<1>8. CompletionOK'
  BY <1>3, <1>2, VerdictsKept DEF Change, Completing, TypeOK, CompletionOK, CompletesOnce, VerdictOK
<1>9. AcceptedOK'
  BY <1>2, AcceptedSteady DEF Holds, ThreadsOK, TypeOK
<1>10. DrainedOK' /\ DrainCancelsRunning'
  BY <1>2 DEF DrainedOK, DrainCancelsRunning, RunOK, ThreadsOK, TypeOK
<1>11. ReferencesAreExact'
  BY <1>2, <1>3 DEF Change, Owners, OwnsReference, TypeOK, ReferencesAreExact
<1>12. InFlightIsExact'
  BY <1>2, <1>3 DEF Change, Counted, IsCounted, OwnsReference, ThreadsOK, TypeOK, InFlightIsExact
<1>13. NoLostWakeup'
  BY <1>2, <1>3 DEF Change, Dequeuing, Signalling, TypeOK, NoLostWakeup
<1> QED
  BY <1>4, <1>5, <1>6, <1>7, <1>8, <1>9, <1>10, <1>11, <1>12, <1>13

\* The client releases the token it owes and leaves.
LEMMA EnqueueSignalStep ==
    ASSUME AsyncInv, NEW c \in Clients, EnqueueSignal(c)
    PROVE  AsyncInv'
<1> USE DEF AsyncInv
<1>1. /\ pc[c] = "q_signal" /\ pc' = [pc EXCEPT ![c] = "idle"]
      /\ cur' = [cur EXCEPT ![c] = NoOp] /\ semaphore' = semaphore + 1
      /\ UNCHANGED <<runtimeState, stopped, queue, inFlight, drainEvent, workerOps, op,
                           verdict, unlinked, drains, drained>>
  BY DEF EnqueueSignal, Return, Goto, runtimeVars, drainVars
<1> USE <1>1
<1>2. c \in Threads /\ Only(c) /\ cur[c] \in Ops
  BY Constant DEF Only, TypeOK, ThreadsOK
<1>3. /\ \A o : Change(Owners(o), Owners(o)', c) /\ Change(Completing(o), Completing(o)', c)
      /\ Change(Counted, Counted', c)
      /\ Change(Dequeuing, Dequeuing', c) /\ Change(Signalling, Signalling', c)
  BY <1>2, CountsChange
<1>4. TypeOK'
  BY <1>2 DEF TypeOK, Statuses
<1>5. ThreadsOK'
  BY <1>2 DEF ThreadsOK, TypeOK
<1>6. RunOK'
  BY <1>2 DEF RunOK, ThreadsOK, TypeOK
<1>7. PointersOK'
  BY <1>2 DEF PointersOK, ThreadsOK, TypeOK, IsOpen
<1>8. CompletionOK'
  <2>1. \A o \in Ops : Cardinality(Completing(o)') = Cardinality(Completing(o))
    BY <1>3 DEF Change, Completing, TypeOK
  <2>2. CompletesOnce'
    BY <1>2, <2>1 DEF CompletionOK, CompletesOnce
  <2>3. VerdictOK(c)'
    BY <1>2 DEF CompletionOK, VerdictOK, TypeOK
  <2> QED
    BY <1>2, <2>2, <2>3, VerdictsKept DEF CompletionOK
<1>9. AcceptedOK'
  BY <1>2, AcceptedSteady DEF Holds, ThreadsOK, TypeOK
<1>10. DrainedOK' /\ DrainCancelsRunning'
  BY <1>2 DEF DrainedOK, DrainCancelsRunning, RunOK, ThreadsOK, TypeOK
<1>11. ReferencesAreExact'
  <2>1. \A o \in Ops : Cardinality(Owners(o)') = Cardinality(Owners(o))
    BY <1>2, <1>3 DEF Change, Owners, OwnsReference, TypeOK
  <2> QED
    BY <1>2, <2>1 DEF ReferencesAreExact, TypeOK
<1>12. InFlightIsExact'
  BY <1>2, <1>3 DEF Change, Counted, IsCounted, OwnsReference, ThreadsOK, TypeOK, InFlightIsExact
<1>13. NoLostWakeup'
  BY <1>2, <1>3 DEF Change, Dequeuing, Signalling, TypeOK, NoLostWakeup
<1> QED
  BY <1>4, <1>5, <1>6, <1>7, <1>8, <1>9, <1>10, <1>11, <1>12, <1>13

\* AsyncOperationCancel raises the flag.
LEMMA CancelSetFlagStep ==
    ASSUME AsyncInv, NEW c \in Clients, CancelSetFlag(c)
    PROVE  AsyncInv'
<1> USE DEF AsyncInv
<1>0. op' = [op EXCEPT ![cur[c]].canceled = TRUE]
  BY DEF CancelSetFlag, Goto, runtimeVars, drainVars
<1>1. /\ pc[c] = "x_flag" /\ pc' = [pc EXCEPT ![c] = "x_state"]
      /\ UNCHANGED <<runtimeState, stopped, queue, semaphore, inFlight, drainEvent,
                           workerOps, cur, verdict, unlinked, drains, drained>>
  BY DEF CancelSetFlag, Goto, runtimeVars, drainVars
<1> USE <1>1
<1>2. c \in Threads /\ Only(c) /\ cur[c] \in Ops
  BY Constant DEF Only, TypeOK, ThreadsOK
<1>3. \A o \in Ops :
        /\ op'[o].memory = op[o].memory /\ op'[o].refs = op[o].refs /\ op'[o].closed = op[o].closed
        /\ op'[o].queued = op[o].queued /\ op'[o].completed = op[o].completed
        /\ op'[o].canceled <=> (o = cur[c] \/ op[o].canceled)
        /\ op'[o].callbacks = op[o].callbacks /\ op'[o].event = op[o].event /\ op'[o].status = op[o].status
  BY <1>0, <1>2 DEF TypeOK, Operations
<1>4. TypeOK'
  BY <1>2, OperationUpdates, <1>0 DEF TypeOK, Statuses
<1>5. ThreadsOK'
  BY <1>2 DEF ThreadsOK, TypeOK
<1>6. RunOK'
  BY <1>2 DEF RunOK, ThreadsOK, TypeOK
<1>7. PointersOK'
  BY <1>2, <1>3, PointersKept DEF TypeOK
<1>8. CompletionOK'
  <2>1. \A o \in Ops : Cardinality(Completing(o)') = Cardinality(Completing(o))
    BY <1>2, CountsChange DEF Change, Completing, TypeOK
  <2>2. CompletesOnce'
    BY <1>2, <1>3, <2>1 DEF CompletionOK, CompletesOnce
  <2>3. VerdictOK(c)'
    BY <1>2, <1>3 DEF CompletionOK, VerdictOK, TypeOK
  <2> QED
    BY <1>2, <1>3, <2>2, <2>3, VerdictsKept DEF CompletionOK
<1>9. AcceptedOK'
  BY <1>2, <1>3, AcceptedSteady DEF Holds, ThreadsOK, TypeOK
<1>10. DrainedOK' /\ DrainCancelsRunning'
  BY <1>2, <1>3 DEF DrainedOK, DrainCancelsRunning, RunOK, ThreadsOK, TypeOK
<1>11. ReferencesAreExact' /\ InFlightIsExact' /\ NoLostWakeup'
  <2>1. /\ \A o \in Ops : c \in Owners(o)' <=> c \in Owners(o)
        /\ c \in Counted' <=> c \in Counted
    BY <1>2 DEF Owners, OwnsReference, Counted, IsCounted, TypeOK
  <2>2. (c \in Dequeuing' <=> c \in Dequeuing) /\ (c \in Signalling' <=> c \in Signalling)
    BY <1>2 DEF Dequeuing, Signalling, TypeOK
  <2> QED
    BY <1>2, <1>3, <2>1, <2>2, CountsKept DEF TypeOK
<1> QED
  BY <1>4, <1>5, <1>6, <1>7, <1>8, <1>9, <1>10, <1>11

\* CompleteOperation lost the compare-and-swap: another thread completes.
LEMMA CompleteLostStep ==
    ASSUME AsyncInv, NEW t \in Threads, TryComplete(t), op[cur[t]].completed
    PROVE  AsyncInv'
<1> USE DEF AsyncInv
<1>1. /\ pc[t] = "c_cas" /\ op[cur[t]].completed /\ pc' = [pc EXCEPT ![t] = AfterComplete(t)]
      /\ cur' = [cur EXCEPT ![t] = IF t \in Clients THEN NoOp ELSE @]
      /\ verdict' = [verdict EXCEPT ![t] = "pending"]
      /\ UNCHANGED <<runtimeState, stopped, queue, semaphore, inFlight, drainEvent,
                           workerOps, op, unlinked, drains, drained>>
  BY DEF TryComplete, LeaveComplete, Goto, runtimeVars, drainVars
<1> USE <1>1
<1>2. t \in Threads /\ Only(t) /\ cur[t] \in Ops
      /\ \/ t \in Clients /\ t \notin Workers /\ t # Drainer /\ AfterComplete(t) = "idle"
         \/ t \in Workers /\ t \notin Clients /\ t # Drainer /\ AfterComplete(t) = "w_clear"
         \/ t = Drainer /\ t \notin Clients /\ t \notin Workers /\ AfterComplete(t) = "d_release"
  BY InsideComplete DEF Only, TypeOK
<1>3. TypeOK'
  BY <1>2 DEF TypeOK, Statuses
<1>4. ThreadsOK'
  BY <1>2 DEF ThreadsOK, TypeOK
<1>5. RunOK'
  BY <1>2 DEF RunOK, ThreadsOK, TypeOK
<1>6. PointersOK'
  BY <1>2 DEF PointersOK, ThreadsOK, TypeOK, IsOpen
<1>7. CompletionOK'
  <2>1. \A o \in Ops : t \in Completing(o)' <=> t \in Completing(o)
    BY <1>2 DEF Completing, TypeOK
  <2>2. \A o \in Ops : Cardinality(Completing(o)') = Cardinality(Completing(o))
    BY <1>2, <2>1, CountsChange DEF Change
  <2>3. CompletesOnce'
    BY <2>2 DEF CompletionOK, CompletesOnce
  <2>4. VerdictOK(t)'
    BY <1>2 DEF VerdictOK, TypeOK
  <2> QED
    BY <1>2, <2>3, <2>4, VerdictsKept DEF CompletionOK
<1>8. AcceptedOK'
  BY <1>2, AcceptedSteady DEF Holds, ThreadsOK, TypeOK
<1>9. DrainedOK' /\ DrainCancelsRunning'
  BY <1>2 DEF DrainedOK, DrainCancelsRunning, RunOK, ThreadsOK, TypeOK
<1>10. ReferencesAreExact' /\ InFlightIsExact' /\ NoLostWakeup'
  <2>1. \A o \in Ops : t \in Owners(o)' <=> t \in Owners(o)
    BY <1>2 DEF Owners, OwnsReference, TypeOK
  <2>2. t \in Counted' <=> t \in Counted
    BY <1>2 DEF OwnsReference, Counted, IsCounted, TypeOK
  <2>3. (t \in Dequeuing' <=> t \in Dequeuing) /\ (t \in Signalling' <=> t \in Signalling)
    BY <1>2 DEF Dequeuing, Signalling, TypeOK
  <2> QED
    BY <1>2, <2>1, <2>2, <2>3, CountsKept DEF TypeOK
<1> QED
  BY <1>3, <1>4, <1>5, <1>6, <1>7, <1>8, <1>9, <1>10

\* CompleteOperation won: this thread is the only one that completes.
LEMMA CompleteWonStep ==
    ASSUME AsyncInv, NEW t \in Threads, TryComplete(t), ~op[cur[t]].completed
    PROVE  AsyncInv'
<1> USE DEF AsyncInv
<1>0. op' = [op EXCEPT ![cur[t]].completed = TRUE]
  BY DEF TryComplete, Goto, runtimeVars, drainVars
<1>1. /\ pc[t] = "c_cas" /\ pc' = [pc EXCEPT ![t] = "c_publish"] /\ ~op[cur[t]].completed
      /\ UNCHANGED <<runtimeState, stopped, queue, semaphore, inFlight, drainEvent,
                           workerOps, cur, verdict, unlinked, drains, drained>>
  BY DEF TryComplete, Goto, runtimeVars, drainVars
<1> USE <1>1
<1>2. t \in Threads /\ Only(t) /\ cur[t] \in Ops
      /\ \/ t \in Clients /\ t \notin Workers /\ t # Drainer
         \/ t \in Workers /\ t \notin Clients /\ t # Drainer
         \/ t = Drainer /\ t \notin Clients /\ t \notin Workers
  BY InsideComplete DEF Only, TypeOK
<1>3. \A o \in Ops :
        /\ op'[o].memory = op[o].memory /\ op'[o].refs = op[o].refs /\ op'[o].closed = op[o].closed
        /\ op'[o].queued = op[o].queued /\ op'[o].canceled = op[o].canceled
        /\ op'[o].completed <=> (o = cur[t] \/ op[o].completed)
        /\ op'[o].callbacks = op[o].callbacks /\ op'[o].event = op[o].event /\ op'[o].status = op[o].status
  BY <1>0, <1>2 DEF TypeOK, Operations
<1>4. TypeOK'
  BY <1>2, OperationUpdates, <1>0 DEF TypeOK, Statuses
<1>5. ThreadsOK'
  BY <1>2 DEF ThreadsOK, TypeOK
<1>6. RunOK'
  BY <1>2 DEF RunOK, ThreadsOK, TypeOK
<1>7. PointersOK'
  BY <1>2, <1>3, PointersKept DEF TypeOK
<1>8. CompletionOK'
  <2>1. \A o \in Ops : t \notin Completing(o) /\ (t \in Completing(o)' <=> o = cur[t])
    BY <1>2 DEF Completing, TypeOK
  <2>2. \A o \in Ops : Change(Completing(o), Completing(o)', t)
    BY <1>2, CountsChange
  <2>3. CompletesOnce'
    <3> SUFFICES ASSUME NEW o \in Ops
                 PROVE  /\ op'[o].callbacks + Cardinality(Completing(o)') = IF op'[o].completed THEN 1 ELSE 0
                        /\ op'[o].event => op'[o].completed /\ op'[o].status # "pending"
      BY DEF CompletesOnce
    <3>1. /\ op[o].callbacks + Cardinality(Completing(o)) = IF op[o].completed THEN 1 ELSE 0
          /\ op[o].event => op[o].completed /\ op[o].status # "pending"
          /\ op[o].callbacks \in Nat
      BY DEF CompletionOK, CompletesOnce, TypeOK, Operations
    <3>2. CASE o = cur[t]
      BY <2>1, <2>2, <3>2, <1>2, <1>3, <3>1 DEF Change
    <3>3. CASE o # cur[t]
      BY <2>1, <2>2, <3>3, <1>2, <1>3, <3>1 DEF Change
    <3> QED
      BY <3>2, <3>3
  <2>4. VerdictOK(t)'
    BY <1>2, <1>3 DEF CompletionOK, VerdictOK, TypeOK
  <2> QED
    BY <1>2, <1>3, <2>3, <2>4, VerdictsKept DEF CompletionOK
<1>9. AcceptedOK'
  BY <1>2, <1>3, AcceptedSteady DEF Holds, ThreadsOK, TypeOK
<1>10. DrainedOK' /\ DrainCancelsRunning'
  BY <1>2, <1>3 DEF DrainedOK, DrainCancelsRunning, RunOK, ThreadsOK, TypeOK
<1>11. ReferencesAreExact' /\ InFlightIsExact' /\ NoLostWakeup'
  BY <1>2, <1>3, CountsKept DEF Owners, OwnsReference, Counted, IsCounted, TypeOK, Dequeuing,
     Signalling
<1> QED
  BY <1>4, <1>5, <1>6, <1>7, <1>8, <1>9, <1>10, <1>11

\* The winner writes a status that is not pending.
LEMMA PublishCompletionStep ==
    ASSUME AsyncInv, NEW t \in Threads, PublishCompletion(t)
    PROVE  AsyncInv'
<1> USE DEF AsyncInv
<1>0. op' = [op EXCEPT ![cur[t]].status = verdict[t], ![cur[t]].state = "Completed"]
  BY DEF PublishCompletion, Goto, runtimeVars, drainVars
<1>1. /\ pc[t] = "c_publish" /\ pc' = [pc EXCEPT ![t] = "c_event"]
      /\ UNCHANGED <<runtimeState, stopped, queue, semaphore, inFlight, drainEvent,
                           workerOps, cur, verdict, unlinked, drains, drained>>
  BY DEF PublishCompletion, Goto, runtimeVars, drainVars
<1> USE <1>1
<1>2. t \in Threads /\ Only(t) /\ cur[t] \in Ops
      /\ \/ t \in Clients /\ t \notin Workers /\ t # Drainer
         \/ t \in Workers /\ t \notin Clients /\ t # Drainer
         \/ t = Drainer /\ t \notin Clients /\ t \notin Workers
  BY InsideComplete DEF Only, TypeOK
<1>3. \A o \in Ops :
        /\ op'[o].memory = op[o].memory /\ op'[o].refs = op[o].refs /\ op'[o].closed = op[o].closed
        /\ op'[o].queued = op[o].queued /\ op'[o].completed = op[o].completed /\ op'[o].canceled = op[o].canceled
        /\ op'[o].callbacks = op[o].callbacks /\ op'[o].event = op[o].event
        /\ op'[o].status = IF o = cur[t] THEN verdict[t] ELSE op[o].status
  BY <1>0, <1>2 DEF TypeOK, Operations
<1>4. TypeOK'
  BY <1>2, OperationUpdates, <1>0 DEF TypeOK
<1>5. ThreadsOK'
  BY <1>2 DEF ThreadsOK, TypeOK
<1>6. RunOK'
  BY <1>2 DEF RunOK, ThreadsOK, TypeOK
<1>7. PointersOK'
  BY <1>2, <1>3, PointersKept DEF TypeOK
<1>8. CompletionOK'
  <2>1. \A o \in Ops : t \in Completing(o)' <=> t \in Completing(o)
    BY <1>2 DEF Completing, TypeOK
  <2>2. \A o \in Ops : Change(Completing(o), Completing(o)', t)
    BY <1>2, CountsChange
  <2>5. verdict[t] # "pending"
    BY <1>2 DEF CompletionOK, VerdictOK
  <2>3. CompletesOnce'
    BY <1>2, <1>3, <2>1, <2>2, <2>5 DEF CompletionOK, CompletesOnce, Change
  <2>4. VerdictOK(t)'
    BY <1>2, <1>3 DEF CompletionOK, VerdictOK, TypeOK
  <2> QED
    BY <1>2, <1>3, <2>3, <2>5, <2>4, VerdictsKept DEF CompletionOK
<1>9. AcceptedOK'
  <2>1. \A o \in Ops : op'[o].queued /\ ~op'[o].completed => op[o].queued /\ ~op[o].completed
    BY <1>2, <1>3
  <2>2. \A o \in Ops : Holds(t, o) => Holds(t, o)'
    BY <1>2 DEF Holds, ThreadsOK, TypeOK
  <2> QED
    BY <1>2, <2>1, <2>2, AcceptedSteady
<1>10. DrainedOK' /\ DrainCancelsRunning'
  BY <1>2, <1>3 DEF DrainedOK, DrainCancelsRunning, RunOK, ThreadsOK, TypeOK
<1>11. ReferencesAreExact' /\ InFlightIsExact' /\ NoLostWakeup'
  <2>1. /\ \A o \in Ops : t \in Owners(o)' <=> t \in Owners(o)
        /\ t \in Counted' <=> t \in Counted
    BY <1>2 DEF Owners, OwnsReference, Counted, IsCounted, TypeOK
  <2>2. (t \in Dequeuing' <=> t \in Dequeuing) /\ (t \in Signalling' <=> t \in Signalling)
    BY <1>2 DEF Dequeuing, Signalling, TypeOK
  <2> QED
    BY <1>2, <1>3, <2>1, <2>2, CountsKept DEF TypeOK
<1> QED
  BY <1>4, <1>5, <1>6, <1>7, <1>8, <1>9, <1>10, <1>11

\* The winner signals the event after the status.
LEMMA SignalCompletionStep ==
    ASSUME AsyncInv, NEW t \in Threads, SignalCompletion(t)
    PROVE  AsyncInv'
<1> USE DEF AsyncInv
<1>0. op' = [op EXCEPT ![cur[t]].event = TRUE]
  BY DEF SignalCompletion, Goto, runtimeVars, drainVars
<1>1. /\ pc[t] = "c_event" /\ pc' = [pc EXCEPT ![t] = "c_callback"]
      /\ UNCHANGED <<runtimeState, stopped, queue, semaphore, inFlight, drainEvent,
                           workerOps, cur, verdict, unlinked, drains, drained>>
  BY DEF SignalCompletion, Goto, runtimeVars, drainVars
<1> USE <1>1
<1>2. t \in Threads /\ Only(t) /\ cur[t] \in Ops
      /\ \/ t \in Clients /\ t \notin Workers /\ t # Drainer
         \/ t \in Workers /\ t \notin Clients /\ t # Drainer
         \/ t = Drainer /\ t \notin Clients /\ t \notin Workers
  BY InsideComplete DEF Only, TypeOK
<1>3. \A o \in Ops :
        /\ op'[o].memory = op[o].memory /\ op'[o].refs = op[o].refs /\ op'[o].closed = op[o].closed
        /\ op'[o].queued = op[o].queued /\ op'[o].completed = op[o].completed /\ op'[o].canceled = op[o].canceled
        /\ op'[o].callbacks = op[o].callbacks /\ op'[o].status = op[o].status
        /\ op'[o].event <=> (o = cur[t] \/ op[o].event)
  BY <1>0, <1>2 DEF TypeOK, Operations
<1>4. TypeOK'
  BY <1>2, OperationUpdates, <1>0 DEF TypeOK, Statuses
<1>5. ThreadsOK'
  BY <1>2 DEF ThreadsOK, TypeOK
<1>6. RunOK'
  BY <1>2 DEF RunOK, ThreadsOK, TypeOK
<1>7. PointersOK'
  BY <1>2, <1>3, PointersKept DEF TypeOK
<1>8. CompletionOK'
  <2>1. \A o \in Ops : t \in Completing(o)' <=> t \in Completing(o)
    BY <1>2 DEF Completing, TypeOK
  <2>2. \A o \in Ops : Change(Completing(o), Completing(o)', t)
    BY <1>2, CountsChange
  <2>5. t \in Completing(cur[t]) /\ Cardinality(Completing(cur[t])) # 0
    BY <1>2, Constant, FS_Subset, FS_EmptySet DEF Completing
  <2>6. op[cur[t]].completed
    BY <1>2, <2>2, <2>5 DEF CompletionOK, CompletesOnce, Change, TypeOK, Operations
  <2>7. op[cur[t]].status # "pending"
    BY <1>2 DEF CompletionOK, VerdictOK
  <2>3. CompletesOnce'
    BY <1>2, <1>3, <2>1, <2>2, <2>6, <2>7 DEF CompletionOK, CompletesOnce, Change
  <2>4. VerdictOK(t)'
    BY <1>2, <1>3 DEF CompletionOK, VerdictOK, TypeOK
  <2> QED
    BY <1>2, <1>3, <2>3, <2>4, VerdictsKept DEF CompletionOK
<1>9. AcceptedOK'
  BY <1>2, <1>3, AcceptedSteady DEF Holds, ThreadsOK, TypeOK
<1>10. DrainedOK' /\ DrainCancelsRunning'
  BY <1>2, <1>3 DEF DrainedOK, DrainCancelsRunning, RunOK, ThreadsOK, TypeOK
<1>11. ReferencesAreExact' /\ InFlightIsExact' /\ NoLostWakeup'
  BY <1>2, <1>3, CountsKept DEF Owners, OwnsReference, Counted, IsCounted, TypeOK, Dequeuing,
     Signalling
<1> QED
  BY <1>4, <1>5, <1>6, <1>7, <1>8, <1>9, <1>10, <1>11

\* The winner runs the callback, which had not run before.
LEMMA InvokeCallbackStep ==
    ASSUME AsyncInv, NEW t \in Threads, InvokeCallback(t)
    PROVE  AsyncInv'
<1> USE DEF AsyncInv
<1>0. op' = [op EXCEPT ![cur[t]].callbacks = @ + 1]
  BY DEF InvokeCallback, LeaveComplete, Goto, runtimeVars, drainVars
<1>1. /\ pc[t] = "c_callback" /\ pc' = [pc EXCEPT ![t] = AfterComplete(t)]
      /\ cur' = [cur EXCEPT ![t] = IF t \in Clients THEN NoOp ELSE @]
      /\ verdict' = [verdict EXCEPT ![t] = "pending"]
      /\ UNCHANGED <<runtimeState, stopped, queue, semaphore, inFlight, drainEvent,
                           workerOps, unlinked, drains, drained>>
  BY DEF InvokeCallback, LeaveComplete, Goto, runtimeVars, drainVars
<1> USE <1>1
<1>2. t \in Threads /\ Only(t) /\ cur[t] \in Ops
      /\ \/ t \in Clients /\ t \notin Workers /\ t # Drainer /\ AfterComplete(t) = "idle"
         \/ t \in Workers /\ t \notin Clients /\ t # Drainer /\ AfterComplete(t) = "w_clear"
         \/ t = Drainer /\ t \notin Clients /\ t \notin Workers /\ AfterComplete(t) = "d_release"
  BY InsideComplete DEF Only, TypeOK
<1>3. \A o \in Ops :
        /\ op'[o].memory = op[o].memory /\ op'[o].refs = op[o].refs /\ op'[o].closed = op[o].closed
        /\ op'[o].queued = op[o].queued /\ op'[o].completed = op[o].completed /\ op'[o].canceled = op[o].canceled
        /\ op'[o].event = op[o].event /\ op'[o].status = op[o].status
        /\ op'[o].callbacks = IF o = cur[t] THEN op[o].callbacks + 1 ELSE op[o].callbacks
  BY <1>0, <1>2 DEF TypeOK, Operations
<1>4. TypeOK'
  BY <1>2, OperationUpdates, <1>0 DEF TypeOK, Statuses
<1>5. ThreadsOK'
  BY <1>2 DEF ThreadsOK, TypeOK
<1>6. RunOK'
  BY <1>2 DEF RunOK, ThreadsOK, TypeOK
<1>7. PointersOK'
  BY <1>2, <1>3, PointersKept DEF TypeOK
<1>8. CompletionOK'
  <2>1. \A o \in Ops : (t \in Completing(o) <=> o = cur[t]) /\ t \notin Completing(o)'
    BY <1>2 DEF Completing, TypeOK
  <2>2. \A o \in Ops : Change(Completing(o), Completing(o)', t)
    BY <1>2, CountsChange
  <2>5. op[cur[t]].completed
    BY <1>2, <2>1, <2>2 DEF CompletionOK, CompletesOnce, Change, TypeOK, Operations
  <2>3. CompletesOnce'
    <3> SUFFICES ASSUME NEW o \in Ops
                 PROVE  /\ op'[o].callbacks + Cardinality(Completing(o)') = IF op'[o].completed THEN 1 ELSE 0
                        /\ op'[o].event => op'[o].completed /\ op'[o].status # "pending"
      BY DEF CompletesOnce
    <3>1. /\ op[o].callbacks + Cardinality(Completing(o)) = IF op[o].completed THEN 1 ELSE 0
          /\ op[o].event => op[o].completed /\ op[o].status # "pending"
          /\ op[o].callbacks \in Nat
      BY DEF CompletionOK, CompletesOnce, TypeOK, Operations
    <3>2. CASE o = cur[t]
      <4>1. Cardinality(Completing(o)') = Cardinality(Completing(o)) - 1 /\ Cardinality(Completing(o)) \in Nat
        BY <2>1, <2>2, <3>2 DEF Change
      <4>2. op'[o].callbacks = op[o].callbacks + 1 /\ op'[o].completed
        BY <1>2, <1>3, <3>2, <2>5
      <4> QED
        BY <1>2, <1>3, <3>1, <3>2, <4>1, <4>2
    <3>3. CASE o # cur[t]
      BY <2>1, <2>2, <3>3, <1>2, <1>3, <3>1 DEF Change
    <3> QED
      BY <3>2, <3>3
  <2>4. VerdictOK(t)'
    BY <1>2, <1>3, <2>5 DEF CompletionOK, VerdictOK, TypeOK
  <2> QED
    BY <1>2, <1>3, <2>3, <2>4, VerdictsKept DEF CompletionOK
<1>9. AcceptedOK'
  <2>1. op[cur[t]].completed
    <3>1. t \in Completing(cur[t])
      BY <1>2 DEF Completing
    <3>2. IsFiniteSet(Completing(cur[t])) /\ Cardinality(Completing(cur[t])) \in Nat
      BY Constant, FS_Subset, FS_CardinalityType DEF Completing
    <3>3. Cardinality(Completing(cur[t])) # 0
      BY <3>1, <3>2, FS_EmptySet
    <3> QED
      BY <1>2, <3>2, <3>3 DEF CompletionOK, CompletesOnce, TypeOK, Operations
  <2>2. \A o \in Ops : Holds(t, o) => o = cur[t]
    BY DEF Holds
  <2> QED
    BY <1>2, <1>3, <2>1, <2>2, AcceptedSteady
<1>10. DrainedOK' /\ DrainCancelsRunning'
  BY <1>2, <1>3 DEF DrainedOK, DrainCancelsRunning, RunOK, ThreadsOK, TypeOK
<1>11. ReferencesAreExact' /\ InFlightIsExact' /\ NoLostWakeup'
  <2>1. \A o \in Ops : t \in Owners(o)' <=> t \in Owners(o)
    BY <1>2 DEF Owners, OwnsReference, TypeOK
  <2>2. t \in Counted' <=> t \in Counted
    BY <1>2 DEF OwnsReference, Counted, IsCounted, TypeOK
  <2>3. (t \in Dequeuing' <=> t \in Dequeuing) /\ (t \in Signalling' <=> t \in Signalling)
    BY <1>2 DEF Dequeuing, Signalling, TypeOK
  <2> QED
    BY <1>2, <1>3, <2>1, <2>2, <2>3, CountsKept DEF TypeOK
<1> QED
  BY <1>4, <1>5, <1>6, <1>7, <1>8, <1>9, <1>10, <1>11

\* A worker takes a token and owes a dequeue.
LEMMA WorkerWakesStep ==
    ASSUME AsyncInv, NEW w \in Workers, WorkerWakes(w)
    PROVE  AsyncInv'
<1> USE DEF AsyncInv
<1>1. /\ pc[w] = "w_wait" /\ pc' = [pc EXCEPT ![w] = "w_dequeue"]
      /\ semaphore > 0 /\ semaphore' = semaphore - 1
      /\ UNCHANGED <<runtimeState, stopped, queue, inFlight, drainEvent, workerOps, op,
                           cur, verdict, unlinked, drains, drained>>
  BY DEF WorkerWakes, Goto, runtimeVars, drainVars
<1> USE <1>1
<1>2. w \in Threads /\ Only(w)
  BY Constant DEF Only, TypeOK
<1>3. /\ \A o : Change(Owners(o), Owners(o)', w) /\ Change(Completing(o), Completing(o)', w)
      /\ Change(Counted, Counted', w)
      /\ Change(Dequeuing, Dequeuing', w) /\ Change(Signalling, Signalling', w)
  BY <1>2, CountsChange
<1>4. TypeOK'
  BY <1>2 DEF TypeOK, Statuses
<1>5. ThreadsOK'
  BY <1>2 DEF ThreadsOK, TypeOK
<1>6. RunOK'
  BY <1>2 DEF RunOK, ThreadsOK, TypeOK
<1>7. PointersOK'
  BY <1>2 DEF PointersOK, ThreadsOK, TypeOK, IsOpen
<1>8. CompletionOK'
  BY <1>3, <1>2, VerdictsKept DEF Change, Completing, TypeOK, CompletionOK, CompletesOnce, VerdictOK
<1>9. AcceptedOK'
  BY <1>2, AcceptedSteady DEF Holds, ThreadsOK, TypeOK
<1>10. DrainedOK' /\ DrainCancelsRunning'
  BY <1>2 DEF DrainedOK, DrainCancelsRunning, RunOK, ThreadsOK, TypeOK
<1>11. ReferencesAreExact'
  <2>1. \A o \in Ops : Cardinality(Owners(o)') = Cardinality(Owners(o))
    BY <1>2, <1>3 DEF Change, Owners, OwnsReference, TypeOK
  <2> QED
    BY <1>2, <2>1 DEF ReferencesAreExact, TypeOK
<1>12. InFlightIsExact'
  BY <1>2, <1>3 DEF Change, Counted, IsCounted, OwnsReference, ThreadsOK, TypeOK, InFlightIsExact
<1>13. NoLostWakeup'
  BY <1>2, <1>3 DEF Change, Dequeuing, Signalling, TypeOK, NoLostWakeup
<1> QED
  BY <1>4, <1>5, <1>6, <1>7, <1>8, <1>9, <1>10, <1>11, <1>12, <1>13

\* The head of the queue, its reference and its count pass to the worker.
LEMMA DequeueAsyncOperationStep ==
    ASSUME AsyncInv, NEW w \in Workers, DequeueAsyncOperation(w)
    PROVE  AsyncInv'
<1> USE DEF AsyncInv
<1>1. /\ queue # <<>>
      /\ pc[w] = "w_dequeue" /\ pc' = [pc EXCEPT ![w] = "r_check"]
      /\ queue' = Tail(queue) /\ cur' = [cur EXCEPT ![w] = Head(queue)]
      /\ workerOps' = [workerOps EXCEPT ![w] = Head(queue)]
      /\ UNCHANGED <<runtimeState, stopped, semaphore, inFlight, drainEvent, op, verdict,
                           unlinked, drains, drained>>
  BY DEF DequeueAsyncOperation, Goto, runtimeVars, drainVars
<1> USE <1>1
<1>2. w \in Threads /\ Only(w)
  BY Constant DEF Only, TypeOK
<1>3. /\ \A o : Change(Owners(o), Owners(o)', w) /\ Change(Completing(o), Completing(o)', w)
      /\ Change(Counted, Counted', w)
      /\ Change(Dequeuing, Dequeuing', w) /\ Change(Signalling, Signalling', w)
  BY <1>2, CountsChange
<1>4. TypeOK'
  BY <1>2 DEF TypeOK, Statuses
<1>5. ThreadsOK'
  BY Constant, <1>2 DEF TypeOK, ThreadsOK, Only
<1>6. RunOK'
  BY <1>2 DEF RunOK, ThreadsOK, TypeOK
<1>7. PointersOK'
  BY <1>2 DEF PointersOK, ThreadsOK, TypeOK, IsOpen
<1>8. CompletionOK'
  <2>1. \A o \in Ops : Cardinality(Completing(o)') = Cardinality(Completing(o))
    BY <1>3 DEF Change, Completing, TypeOK
  <2>2. CompletesOnce'
    BY <1>2, <2>1 DEF CompletionOK, CompletesOnce
  <2>3. VerdictOK(w)'
    BY <1>2 DEF CompletionOK, VerdictOK, TypeOK
  <2> QED
    BY <1>2, <2>2, <2>3, VerdictsKept DEF CompletionOK
<1>9. AcceptedOK'
  <2>1. \A o \in Ops : Listed(o) => Listed(o)' \/ Holds(w, o)'
    <3> SUFFICES ASSUME NEW o \in Ops, Listed(o), o # Head(queue) PROVE Listed(o)'
      BY <1>2, Constant DEF Holds, TypeOK
    <3>1. ASSUME NEW i \in DOMAIN queue, queue[i] = o PROVE Listed(o)'
      <4>1. i - 1 \in DOMAIN Tail(queue) /\ Tail(queue)[i - 1] = o
        BY <3>1 DEF TypeOK
      <4> QED
        BY <4>1 DEF Listed
    <3> QED
      BY <3>1 DEF Listed
  <2>2. \A o \in Ops : ~Holds(w, o)
    BY Constant DEF Holds, ThreadsOK
  <2> QED
    BY <1>2, <2>1, <2>2, AcceptedKept
<1>10. DrainedOK' /\ DrainCancelsRunning'
  BY <1>2 DEF DrainedOK, DrainCancelsRunning, RunOK, ThreadsOK, TypeOK
<1>11. ReferencesAreExact'
  <2>1. \A o \in Ops : w \notin Owners(o) /\ (w \in Owners(o)' <=> o = Head(queue))
    BY <1>2, Constant DEF Owners, OwnsReference, TypeOK
  <2>2. \A o \in Ops : /\ Cardinality(Owners(o)) \in Nat
                       /\ Cardinality(Owners(o)') = Cardinality(Owners(o)) + (IF Head(queue) = o THEN 1 ELSE 0)
    BY <2>1, <1>3, SMTT(30) DEF Change
  <2>3. \A o \in Ops : /\ Cardinality(Positions(queue, o)) \in Nat
                       /\ Cardinality(Positions(Tail(queue), o)) \in Nat
                       /\ Cardinality(Positions(unlinked, o)) \in Nat
                       /\ Cardinality(Positions(queue, o))
                            = Cardinality(Positions(Tail(queue), o)) + (IF Head(queue) = o THEN 1 ELSE 0)
    <3>1. queue \in Seq(Ops) /\ Tail(queue) \in Seq(Ops) /\ unlinked \in Seq(Ops)
      BY DEF TypeOK
    <3> QED
      BY <3>1, PositionsType, PositionsTail
  <2>5. ASSUME NEW o \in Ops, op[o].memory = "live"
        PROVE  op[o].refs = (IF op[o].closed THEN 0 ELSE 1) + Cardinality(Positions(Tail(queue), o))
                  + Cardinality(Positions(unlinked, o)) + Cardinality(Owners(o)')
    <3> DEFINE h == IF op[o].closed THEN 0 ELSE 1
    <3>0. h \in Nat
      OBVIOUS
    <3>1. op[o].refs = h + Cardinality(Positions(queue, o))
                  + Cardinality(Positions(unlinked, o)) + Cardinality(Owners(o))
      BY <2>5 DEF ReferencesAreExact
    <3> SUFFICES op[o].refs = h + Cardinality(Positions(Tail(queue), o))
                  + Cardinality(Positions(unlinked, o)) + Cardinality(Owners(o)')
      OBVIOUS
    <3> HIDE DEF h
    <3>2. CASE Head(queue) = o
      <4>1. /\ Cardinality(Owners(o)') = Cardinality(Owners(o)) + 1
            /\ Cardinality(Positions(queue, o)) = Cardinality(Positions(Tail(queue), o)) + 1
        BY <2>2, <2>3, <3>2
      <4>2. /\ Cardinality(Owners(o)) \in Nat /\ Cardinality(Positions(unlinked, o)) \in Nat
            /\ Cardinality(Positions(Tail(queue), o)) \in Nat
        BY <2>2, <2>3
      <4> HIDE <1>1
      <4> QED
        BY <3>0, <3>1, <4>1, <4>2
    <3>3. CASE Head(queue) # o
      BY <2>2, <2>3, <3>1, <3>3
    <3> QED
      BY <3>2, <3>3
  <2> QED
    BY <2>5 DEF ReferencesAreExact
<1>12. InFlightIsExact'
  BY <1>2, Constant, <1>3 DEF Counted, IsCounted, OwnsReference, TypeOK, InFlightIsExact, Change
<1>13. NoLostWakeup'
  BY <1>2, <1>3 DEF Change, Dequeuing, Signalling, TypeOK, NoLostWakeup
<1> QED
  BY <1>4, <1>5, <1>6, <1>7, <1>8, <1>9, <1>10, <1>11, <1>12, <1>13

\* A worker finds the queue empty: no token is missing.
LEMMA DequeueNothingStep ==
    ASSUME AsyncInv, NEW w \in Workers, DequeueNothing(w)
    PROVE  AsyncInv'
<1> USE DEF AsyncInv
<1>1. /\ queue = <<>> /\ pc[w] = "w_dequeue"
      /\ pc' = [pc EXCEPT ![w] = IF stopped THEN "exited" ELSE "w_wait"]
      /\ UNCHANGED <<runtimeState, stopped, queue, semaphore, inFlight, drainEvent,
                           workerOps, op, cur, verdict, unlinked, drains, drained>>
  BY DEF DequeueNothing, Goto, runtimeVars, drainVars
<1> USE <1>1
<1>2. w \in Threads /\ Only(w)
  BY Constant DEF Only, TypeOK
<1>3. /\ \A o : Change(Owners(o), Owners(o)', w) /\ Change(Completing(o), Completing(o)', w)
      /\ Change(Counted, Counted', w)
      /\ Change(Dequeuing, Dequeuing', w) /\ Change(Signalling, Signalling', w)
  BY <1>2, CountsChange
<1>4. TypeOK'
  BY <1>2 DEF TypeOK, Statuses
<1>5. ThreadsOK'
  BY <1>2 DEF ThreadsOK, TypeOK
<1>6. RunOK'
  BY <1>2 DEF RunOK, ThreadsOK, TypeOK
<1>7. PointersOK'
  BY <1>2 DEF PointersOK, ThreadsOK, TypeOK, IsOpen
<1>8. CompletionOK'
  BY <1>3, <1>2, VerdictsKept DEF Change, Completing, TypeOK, CompletionOK, CompletesOnce, VerdictOK
<1>9. AcceptedOK'
  BY <1>2, AcceptedSteady DEF Holds, ThreadsOK, TypeOK
<1>10. DrainedOK' /\ DrainCancelsRunning'
  BY <1>2 DEF DrainedOK, DrainCancelsRunning, RunOK, ThreadsOK, TypeOK
<1>11. ReferencesAreExact'
  <2>1. \A o \in Ops : Cardinality(Owners(o)') = Cardinality(Owners(o))
    BY <1>2, <1>3 DEF Change, Owners, OwnsReference, TypeOK
  <2> QED
    BY <1>2, <2>1 DEF ReferencesAreExact, TypeOK
<1>12. InFlightIsExact'
  BY <1>2, <1>3 DEF Change, Counted, IsCounted, OwnsReference, ThreadsOK, TypeOK, InFlightIsExact
<1>13. NoLostWakeup'
  BY <1>2, <1>3 DEF Change, Dequeuing, Signalling, TypeOK, NoLostWakeup
<1> QED
  BY <1>4, <1>5, <1>6, <1>7, <1>8, <1>9, <1>10, <1>11, <1>12, <1>13

\* The same of a worker: it runs its operation or finds it over, forgets it, and sets the event.
LEMMA WorkerGoesOn ==
    ASSUME AsyncInv, NEW w \in Workers,
           \/ RunCheck(w) \/ RunWork(w) \/ ClearWorkerOperation(w)
           \/ SetDrainEvent(w, "w_set", "w_wait")
    PROVE  AsyncInv'
<1> USE DEF AsyncInv
<1>1. /\ UNCHANGED <<runtimeState, stopped, queue, semaphore, inFlight, op, cur, unlinked, drains, drained>>
      /\ \/ /\ pc[w] = "r_check" /\ op[cur[w]].completed /\ pc' = [pc EXCEPT ![w] = "w_clear"]
            /\ UNCHANGED <<drainEvent, workerOps, verdict>>
         \/ /\ pc[w] = "r_check" /\ pc' = [pc EXCEPT ![w] = "r_running"]
            /\ UNCHANGED <<drainEvent, workerOps, verdict>>
         \/ /\ pc[w] \in {"r_check", "r_work"} /\ pc' = [pc EXCEPT ![w] = "c_cas"]
            /\ \E v \in {"cancelled", "finished"} : verdict' = [verdict EXCEPT ![w] = v]
            /\ UNCHANGED <<drainEvent, workerOps>>
         \/ /\ pc[w] = "w_clear" /\ pc' = [pc EXCEPT ![w] = "w_release"]
            /\ workerOps' = [workerOps EXCEPT ![w] = NoOp] /\ UNCHANGED <<drainEvent, verdict>>
         \/ /\ pc[w] = "w_set" /\ pc' = [pc EXCEPT ![w] = "w_wait"] /\ drainEvent' = TRUE
            /\ UNCHANGED <<workerOps, verdict>>
  BY DEF RunCheck, RunWork, ClearWorkerOperation, SetDrainEvent, EnterComplete, Statuses, Goto,
       runtimeVars, drainVars
<1>2. w \in Threads /\ Only(w) /\ (pc[w] # "w_set" => cur[w] \in Ops)
  BY <1>1, Constant DEF Only, TypeOK, ThreadsOK
<1>3. TypeOK'
  <2>1. pc' \in [Threads -> ClientLabels \cup WorkerLabels \cup DrainLabels \cup CompleteLabels]
    BY <1>1, <1>2 DEF TypeOK
  <2>2. verdict' \in [Threads -> Statuses] /\ workerOps' \in [Workers -> Ops \cup {NoOp}]
    BY <1>1, <1>2 DEF TypeOK, Statuses
  <2>3. drainEvent' \in BOOLEAN
    BY <1>1 DEF TypeOK
  <2> QED
    BY <1>1, <2>1, <2>2, <2>3 DEF TypeOK
<1>4. /\ pc'[w] \in WorkerLabels \cup {"c_cas"} /\ (pc'[w] \in HoldLabels <=> pc[w] \in HoldLabels)
      /\ workerOps'[w] = IF pc'[w] \in RunLabels THEN cur'[w] ELSE NoOp
      /\ pc[w] # "exited" /\ workerOps'[w] \in {workerOps[w], NoOp}
  BY <1>1, <1>2 DEF TypeOK, ThreadsOK
<1>5. /\ \A t \in Threads \ {w} : pc'[t] = pc[t]
      /\ \A v \in Workers \ {w} : workerOps'[v] = workerOps[v]
      /\ Drainer \in Threads \ {w} /\ Workers \subseteq Threads /\ Clients \subseteq Threads \ {w}
      /\ UNCHANGED <<runtimeState, stopped, queue, op, cur, unlinked, drained>>
  BY <1>1, <1>2, Constant DEF Only, TypeOK
<1>6. ThreadsOK'
  BY <1>5, <1>4 DEF ThreadsOK
<1>7. RunOK'
  BY <1>5 DEF RunOK
<1>8. PointersOK'
  BY <1>5 DEF PointersOK, IsOpen
<1>9. DrainedOK' /\ DrainCancelsRunning'
  BY <1>4, <1>5 DEF DrainedOK, DrainCancelsRunning
<1>10. CompletionOK'
  <2>1. \A o \in Ops : Cardinality(Completing(o)') = Cardinality(Completing(o))
    BY <1>1, <1>2, CountsChange DEF Change, Completing, TypeOK
  <2>2. CompletesOnce'
    BY <1>1, <2>1 DEF CompletionOK, CompletesOnce
  <2>3. VerdictOK(w)'
    BY <1>1, <1>2 DEF CompletionOK, VerdictOK, TypeOK
  <2> QED
    BY <1>1, <1>2, <2>2, <2>3, VerdictsKept DEF CompletionOK
<1>11. AcceptedOK'
  BY <1>1, <1>2, AcceptedSteady DEF Holds, ThreadsOK, TypeOK
<1>12. ReferencesAreExact' /\ InFlightIsExact' /\ NoLostWakeup'
  BY <1>1, <1>2, CountsKept DEF Owners, OwnsReference, Counted, IsCounted, TypeOK, Dequeuing,
     Signalling
<1> QED
  BY <1>3, <1>6, <1>7, <1>8, <1>9, <1>10, <1>11, <1>12

\* WriteState(Running): the state alone changes.
LEMMA RunMarkRunningStep ==
    ASSUME AsyncInv, NEW w \in Workers, RunMarkRunning(w)
    PROVE  AsyncInv'
<1> USE DEF AsyncInv
<1>0. op' = [op EXCEPT ![cur[w]].state = "Running"]
  BY DEF RunMarkRunning, Goto, runtimeVars, drainVars
<1>1. /\ pc[w] = "r_running" /\ pc' = [pc EXCEPT ![w] = "r_work"]
      /\ UNCHANGED <<runtimeState, stopped, queue, semaphore, inFlight, drainEvent,
                           workerOps, cur, verdict, unlinked, drains, drained>>
  BY DEF RunMarkRunning, Goto, runtimeVars, drainVars
<1> USE <1>1
<1>2. w \in Threads /\ Only(w) /\ cur[w] \in Ops
  BY Constant DEF Only, TypeOK, ThreadsOK
<1>3. \A o \in Ops :
        /\ op'[o].memory = op[o].memory /\ op'[o].refs = op[o].refs /\ op'[o].closed = op[o].closed
        /\ op'[o].queued = op[o].queued /\ op'[o].completed = op[o].completed /\ op'[o].canceled = op[o].canceled
        /\ op'[o].callbacks = op[o].callbacks /\ op'[o].event = op[o].event /\ op'[o].status = op[o].status
  BY <1>0, <1>2 DEF TypeOK, Operations
<1>4. TypeOK'
  BY <1>2, OperationUpdates, <1>0 DEF TypeOK, Statuses
<1>5. ThreadsOK'
  BY <1>2 DEF ThreadsOK, TypeOK
<1>6. RunOK'
  BY <1>2 DEF RunOK, ThreadsOK, TypeOK
<1>7. PointersOK'
  BY <1>2, <1>3, PointersKept DEF TypeOK
<1>8. CompletionOK'
  <2>1. \A o \in Ops : Cardinality(Completing(o)') = Cardinality(Completing(o))
    BY <1>2, CountsChange DEF Change, Completing, TypeOK
  <2>2. CompletesOnce'
    BY <1>2, <1>3, <2>1 DEF CompletionOK, CompletesOnce
  <2>3. VerdictOK(w)'
    BY <1>2, <1>3 DEF CompletionOK, VerdictOK, TypeOK
  <2> QED
    BY <1>2, <1>3, <2>2, <2>3, VerdictsKept DEF CompletionOK
<1>9. AcceptedOK'
  BY <1>2, <1>3, AcceptedSteady DEF Holds, ThreadsOK, TypeOK
<1>10. DrainedOK' /\ DrainCancelsRunning'
  BY <1>2, <1>3 DEF DrainedOK, DrainCancelsRunning, RunOK, ThreadsOK, TypeOK
<1>11. ReferencesAreExact' /\ InFlightIsExact' /\ NoLostWakeup'
  <2>1. /\ \A o \in Ops : w \in Owners(o)' <=> w \in Owners(o)
        /\ w \in Counted' <=> w \in Counted
    BY <1>2 DEF Owners, OwnsReference, Counted, IsCounted, TypeOK
  <2>2. (w \in Dequeuing' <=> w \in Dequeuing) /\ (w \in Signalling' <=> w \in Signalling)
    BY <1>2 DEF Dequeuing, Signalling, TypeOK
  <2> QED
    BY <1>2, <1>3, <2>1, <2>2, CountsKept DEF TypeOK
<1> QED
  BY <1>4, <1>5, <1>6, <1>7, <1>8, <1>9, <1>10, <1>11

\* Whoever served a queued operation (the refused client, the worker, the drainer) takes it out of the count.
LEMMA EndsOperationStep ==
    ASSUME AsyncInv, NEW t \in Threads,
           \/ t \in Clients /\ EndAsyncOperation(t, "q_end", "q_set", "q_release")
           \/ t \in Workers /\ EndAsyncOperation(t, "w_end", "w_set", "w_wait")
           \/ t = Drainer /\ EndAsyncOperation(t, "d_end", "d_set", "d_next")
    PROVE  AsyncInv'
<1> USE DEF AsyncInv
<1>0. /\ inFlight' = inFlight - 1
      /\ UNCHANGED <<runtimeState, stopped, queue, semaphore, drainEvent, workerOps, op,
                           cur, verdict, unlinked, drains, drained>>
  BY DEF EndAsyncOperation, Goto, runtimeVars, drainVars
<1>1. \/ /\ t \in Clients /\ pc[t] = "q_end"
         /\ \E l \in {"q_set", "q_release"} : pc' = [pc EXCEPT ![t] = l]
      \/ /\ t \in Workers /\ pc[t] = "w_end"
         /\ \E l \in {"w_set", "w_wait"} : pc' = [pc EXCEPT ![t] = l]
      \/ /\ t = Drainer /\ pc[t] = "d_end"
         /\ \E l \in {"d_set", "d_next"} : pc' = [pc EXCEPT ![t] = l]
  BY DEF EndAsyncOperation, Goto, runtimeVars, drainVars
<1> USE <1>0
<1>2. Only(t) /\ (t \in Clients => cur[t] \in Ops)
  BY <1>1, Constant DEF Only, TypeOK, ThreadsOK
<1>3. /\ \A o : Change(Owners(o), Owners(o)', t) /\ Change(Completing(o), Completing(o)', t)
      /\ Change(Counted, Counted', t)
      /\ Change(Dequeuing, Dequeuing', t) /\ Change(Signalling, Signalling', t)
  BY <1>2, CountsChange
<1>4. TypeOK'
  <2>1. t \in Counted /\ t \notin Counted'
    BY <1>1, <1>2, Constant DEF Counted, IsCounted, OwnsReference, TypeOK
  <2>2. inFlight - 1 \in Nat
    <3>1. Cardinality(Counted) \in Nat /\ Cardinality(Counted) >= 1
      BY <1>3, <2>1 DEF Change
    <3>2. Len(queue) \in Nat /\ Len(unlinked) \in Nat
      BY DEF TypeOK
    <3> QED
      BY <3>1, <3>2 DEF InFlightIsExact
  <2> QED
    BY <1>1, <1>2, Constant, <2>2 DEF TypeOK
<1>5. ThreadsOK'
  BY <1>1, <1>2, Constant DEF ThreadsOK, TypeOK
<1>6. RunOK'
  BY <1>1, <1>2, Constant DEF RunOK, ThreadsOK, TypeOK
<1>7. PointersOK'
  BY <1>1, <1>2, Constant DEF PointersOK, ThreadsOK, TypeOK, IsOpen
<1>8. CompletionOK'
  <2>1. \A o \in Ops : Cardinality(Completing(o)') = Cardinality(Completing(o))
    BY <1>1, <1>3 DEF Change, Completing, TypeOK
  <2>2. CompletesOnce'
    BY <1>1, <1>2, Constant, <2>1 DEF CompletionOK, CompletesOnce
  <2>3. VerdictOK(t)'
    BY <1>1, <1>2, Constant DEF CompletionOK, VerdictOK, TypeOK
  <2> QED
    BY <1>1, <1>2, Constant, <2>2, <2>3, VerdictsKept DEF CompletionOK
<1>9. AcceptedOK'
  BY <1>1, <1>2, Constant, AcceptedSteady DEF Holds, ThreadsOK, TypeOK
<1>10. DrainedOK' /\ DrainCancelsRunning'
  BY <1>1, <1>2, Constant DEF DrainedOK, DrainCancelsRunning, RunOK, ThreadsOK, TypeOK
<1>11. ReferencesAreExact'
  <2>1. \A o \in Ops : Cardinality(Owners(o)') = Cardinality(Owners(o))
    BY <1>1, <1>2, Constant, <1>3 DEF Change, Owners, OwnsReference, TypeOK
  <2> QED
    BY <1>1, <1>2, Constant, <2>1 DEF ReferencesAreExact, TypeOK
<1>12. InFlightIsExact'
  <2>1. t \in Counted /\ t \notin Counted'
    BY <1>1, <1>2, Constant DEF Counted, IsCounted, OwnsReference, TypeOK
  <2> QED
    BY <1>3, <2>1 DEF InFlightIsExact, Change, TypeOK
<1>13. NoLostWakeup'
  BY <1>1, <1>2, Constant, <1>3 DEF Change, Dequeuing, Signalling, TypeOK, NoLostWakeup
<1> QED
  BY <1>4, <1>5, <1>6, <1>7, <1>8, <1>9, <1>10, <1>11, <1>12, <1>13

\* The same of EngineDrainAsync: it sets the event, wakes the workers, waits, and returns.
LEMMA DrainerGoesOn ==
    ASSUME AsyncInv,
           \/ SetDrainEvent(Drainer, "d_set", "d_next")
           \/ DrainNext(Drainer) /\ unlinked = <<>>
           \/ WakeAsyncWorkers(Drainer) \/ DrainWait(Drainer)
           \/ DrainJoined(Drainer) \/ DrainTimesOut(Drainer)
    PROVE  AsyncInv'
<1> USE DEF AsyncInv
<1>1. /\ UNCHANGED <<stopped, queue, inFlight, workerOps, op, cur, verdict, unlinked, drains>>
      /\ \/ /\ pc[Drainer] = "d_set" /\ pc' = [pc EXCEPT ![Drainer] = "d_next"] /\ drainEvent' = TRUE
            /\ UNCHANGED <<runtimeState, semaphore, drained>>
         \/ /\ unlinked = <<>> /\ pc[Drainer] = "d_next" /\ pc' = [pc EXCEPT ![Drainer] = "d_cancel"]
            /\ UNCHANGED <<runtimeState, semaphore, drainEvent, drained>>
         \/ /\ pc[Drainer] = "d_wake" /\ pc' = [pc EXCEPT ![Drainer] = "d_wait"]
            /\ semaphore' = semaphore + WorkerCount /\ UNCHANGED <<runtimeState, drainEvent, drained>>
         \/ /\ pc[Drainer] \in {"d_wait", "d_event"}
            /\ \E next \in {"d_event", "d_join"} : pc' = [pc EXCEPT ![Drainer] = next]
            /\ UNCHANGED <<runtimeState, semaphore, drainEvent, drained>>
         \/ /\ pc[Drainer] = "d_join" /\ pc' = [pc EXCEPT ![Drainer] = "idle"] /\ runtimeState' = 3
            /\ drained' = "drained" /\ \A w \in Workers : pc[w] = "exited"
            /\ UNCHANGED <<semaphore, drainEvent>>
         \/ /\ pc[Drainer] \in {"d_event", "d_join"} /\ pc' = [pc EXCEPT ![Drainer] = "idle"]
            /\ drained' = "failure" /\ UNCHANGED <<runtimeState, semaphore, drainEvent>>
  BY DEF SetDrainEvent, DrainNext, WakeAsyncWorkers, DrainWait, DrainJoined, DrainTimesOut, RunOK, Goto,
       runtimeVars, drainVars
<1>2. Drainer \in Threads /\ Only(Drainer) /\ WorkerCount \in Nat
  BY <1>1, Constant DEF Only, TypeOK
<1>3. TypeOK'
  <2>1. pc' \in [Threads -> ClientLabels \cup WorkerLabels \cup DrainLabels \cup CompleteLabels]
    BY <1>1, <1>2 DEF TypeOK
  <2>2. runtimeState' \in 0..3 /\ semaphore' \in Nat
    BY <1>1, <1>2 DEF TypeOK
  <2>3. drainEvent' \in BOOLEAN
    BY <1>1 DEF TypeOK
  <2>4. drained' \in {"pending", "success", "failure", "drained"}
    BY <1>1 DEF TypeOK
  <2> QED
    BY <1>1, <2>1, <2>2, <2>3, <2>4 DEF TypeOK
<1>4. /\ pc[Drainer] \in DrainLabels \ {"idle"} /\ pc'[Drainer] \in DrainLabels \ {"d_unlink"}
      /\ pc[Drainer] \notin HoldLabels /\ pc'[Drainer] \notin HoldLabels
      /\ unlinked # <<>> => pc'[Drainer] \in SweepLabels
      /\ \/ runtimeState' = runtimeState /\ drained' \in {drained, "failure"}
         \/ runtimeState' = 3 /\ pc'[Drainer] = "idle" /\ \A w \in Workers : pc[w] = "exited"
      /\ \/ pc'[Drainer] = "idle"
         \/ runtimeState' = runtimeState
  BY <1>1, <1>2 DEF TypeOK, RunOK
<1>5. /\ \A t \in Threads \ {Drainer} : pc'[t] = pc[t]
      /\ Workers \subseteq Threads \ {Drainer} /\ Clients \subseteq Threads \ {Drainer}
      /\ UNCHANGED <<stopped, queue, op, cur, unlinked, workerOps>>
  BY <1>1, <1>2, Constant DEF Only
<1>6. runtimeState = 2 /\ stopped /\ drained # "drained" /\ queue = <<>>
  BY <1>1, <1>4 DEF RunOK, DrainedOK
<1>7. ThreadsOK'
  BY <1>4, <1>5 DEF ThreadsOK
<1>8. RunOK'
  BY <1>4, <1>5, <1>6 DEF RunOK
<1>9. PointersOK'
  BY <1>5 DEF PointersOK, IsOpen
<1>10. DrainedOK' /\ DrainCancelsRunning'
  BY <1>1, <1>2, <1>5, <1>4, <1>6 DEF DrainCancelsRunning, TypeOK, DrainedOK
<1>11. CompletionOK'
  <2>1. \A o \in Ops : Cardinality(Completing(o)') = Cardinality(Completing(o))
    BY <1>1, <1>2, CountsChange DEF Change, Completing, TypeOK
  <2>2. CompletesOnce'
    BY <1>1, <2>1 DEF CompletionOK, CompletesOnce
  <2>3. VerdictOK(Drainer)'
    BY <1>1, <1>2 DEF CompletionOK, VerdictOK, TypeOK
  <2> QED
    BY <1>1, <1>2, <2>2, <2>3, VerdictsKept DEF CompletionOK
<1>12. AcceptedOK'
  BY <1>1, <1>2, AcceptedSteady DEF Holds, ThreadsOK, TypeOK
<1>13. ReferencesAreExact' /\ InFlightIsExact' /\ NoLostWakeup'
  BY <1>1, <1>2, CountsKept DEF Owners, OwnsReference, Counted, IsCounted, TypeOK, Dequeuing,
     Signalling
<1> QED
  BY <1>3, <1>7, <1>8, <1>9, <1>10, <1>11, <1>12, <1>13

\* Whoever is done with an operation releases its reference (the worker and the drainer), a refused
\* client also its claim; if that frees the operation, nobody points at it.
LEMMA ReleasesStep ==
    ASSUME AsyncInv, NEW t \in Threads,
           \/ t \in Clients /\ QueueRefused(t) /\ pc[t] = "q_release"
           \/ t \in Workers /\ WorkerReleases(t)
           \/ t = Drainer /\ DrainReleases(t) /\ pc[t] = "d_release"
    PROVE  AsyncInv'
<1> USE DEF AsyncInv
<1>0. /\ cur' = [cur EXCEPT ![t] = NoOp]
      /\ UNCHANGED <<runtimeState, stopped, queue, semaphore, inFlight, drainEvent,
                           workerOps, verdict, unlinked, drains, drained>>
  BY DEF QueueRefused, WorkerReleases, DrainReleases, EndAsyncOperation, SetDrainEvent, Return, Goto,
       runtimeVars, drainVars
<1>1. \/ /\ t \in Clients /\ pc[t] = "q_release" /\ pc' = [pc EXCEPT ![t] = "idle"]
         /\ op' = [op EXCEPT ![cur[t]] = [Released(@) EXCEPT !.queued = FALSE]]
      \/ /\ t \in Workers /\ pc[t] = "w_release" /\ pc' = [pc EXCEPT ![t] = "w_end"]
         /\ op' = [op EXCEPT ![cur[t]] = Released(@)]
      \/ /\ t = Drainer /\ pc[t] = "d_release" /\ pc' = [pc EXCEPT ![t] = "d_end"]
         /\ op' = [op EXCEPT ![cur[t]] = Released(@)]
  BY DEF QueueRefused, WorkerReleases, DrainReleases, EndAsyncOperation, SetDrainEvent, Return, Goto,
       runtimeVars, drainVars
<1> USE <1>0
<1>2. Only(t) /\ cur[t] \in Ops
  BY <1>1, Constant DEF Only, TypeOK, ThreadsOK
<1>3. \A o \in Ops :
        /\ op'[o].closed = op[o].closed
        /\ op'[o].memory = IF o = cur[t] THEN (IF op[o].refs = 1 THEN "freed" ELSE op[o].memory) ELSE op[o].memory
        /\ op'[o].refs = IF o = cur[t] THEN op[o].refs - 1 ELSE op[o].refs
        /\ op'[o].completed = op[o].completed /\ op'[o].canceled = op[o].canceled
        /\ op'[o].queued <=> op[o].queued /\ (t \in Clients => o # cur[t])
        /\ op'[o].callbacks = op[o].callbacks /\ op'[o].event = op[o].event /\ op'[o].status = op[o].status
  <2>1. CASE t \in Clients
    <3>1. op' = [op EXCEPT ![cur[t]] = [Released(@) EXCEPT !.queued = FALSE]]
      BY <1>1, <2>1, Constant
    <3> QED
      BY <1>2, <2>1, <3>1 DEF TypeOK, Operations, Released
  <2>2. CASE t \notin Clients
    <3>1. op' = [op EXCEPT ![cur[t]] = Released(@)]
      BY <1>1, <2>2
    <3> QED
      BY <1>2, <2>2, <3>1 DEF TypeOK, Operations, Released
  <2> QED
    BY <2>1, <2>2
<1>4. /\ \A o : Change(Owners(o), Owners(o)', t) /\ Change(Completing(o), Completing(o)', t)
      /\ Change(Counted, Counted', t)
      /\ Change(Dequeuing, Dequeuing', t) /\ Change(Signalling, Signalling', t)
  BY <1>2, CountsChange
<1>5. /\ op[cur[t]].memory = "live" /\ op[cur[t]].refs >= 1
      /\ op[cur[t]].refs = 1 =>
           op[cur[t]].closed /\ ~Listed(cur[t]) /\ Owners(cur[t]) = {t}
  BY <1>1, <1>2, Constant, LastReference DEF Owners, OwnsReference, PointersOK, IsOpen
<1>6. TypeOK'
  <2>1. op \in [Ops -> Operations]
    BY DEF TypeOK
  <2>2. Released(op[cur[t]]) \in Operations /\ [Released(op[cur[t]]) EXCEPT !.queued = FALSE] \in Operations
    BY <1>2, <1>5, <2>1, OperationUpdates
  <2>3. op' \in [Ops -> Operations]
    BY <1>1, <1>2, <2>1, <2>2
  <2>4. pc' \in [Threads -> ClientLabels \cup WorkerLabels \cup DrainLabels \cup CompleteLabels]
    BY <1>1 DEF TypeOK
  <2> QED
    BY <1>2, <2>3, <2>4 DEF TypeOK
<1>7. ThreadsOK'
  BY <1>1, <1>2, Constant DEF ThreadsOK, TypeOK, Released
<1>8. RunOK'
  BY <1>1, <1>2, Constant DEF RunOK, ThreadsOK, TypeOK, Released
<1>9. PointersOK'
  <2>1. ASSUME NEW u \in Threads \ Clients, u # t, cur[u] # NoOp
        PROVE  op'[cur[u]].memory = "live"
    BY <2>1, Constant, <1>2, <1>3, <1>5 DEF PointersOK, TypeOK, Owners, OwnsReference, ThreadsOK,
       Threads
  <2>2. ASSUME NEW u \in Clients, u # t, cur[u] # NoOp, pc[u] # "q_signal"
        PROVE  op'[cur[u]].memory = "live" /\ ~op'[cur[u]].closed
    BY <2>2, Constant, <1>3, <1>5 DEF PointersOK, IsOpen, TypeOK
  <2>3. ASSUME NEW o \in Ops, Listed(o), op[o].memory = "live"
        PROVE  op'[o].memory = "live"
    BY <1>3, <2>3, <1>5
  <2>4. /\ \A i \in DOMAIN queue : op'[queue[i]].memory = "live"
        /\ \A i \in DOMAIN unlinked : op'[unlinked[i]].memory = "live"
    BY <2>3 DEF Listed, PointersOK, TypeOK
  <2>5. cur'[t] = NoOp /\ \A u \in Threads \ {t} : cur'[u] = cur[u] /\ pc'[u] = pc[u]
    BY <1>2 DEF Only, TypeOK
  <2> QED
    BY <2>1, <2>2, <2>4, <2>5, Constant DEF PointersOK, IsOpen
<1>10. CompletionOK'
  <2>1. \A o \in Ops : Cardinality(Completing(o)') = Cardinality(Completing(o))
    BY <1>1, <1>4 DEF Change, Completing, TypeOK
  <2>2. CompletesOnce'
    BY <1>2, <1>3, <2>1 DEF CompletionOK, CompletesOnce
  <2>3. VerdictOK(t)'
    BY <1>1, <1>2, <1>3 DEF CompletionOK, VerdictOK, TypeOK
  <2> QED
    BY <1>2, <1>3, <2>2, <2>3, VerdictsKept DEF CompletionOK
<1>11. AcceptedOK'
  BY <1>2, <1>3, Constant, <1>1, AcceptedSteady DEF CompletionOK, VerdictOK, Holds
<1>12. DrainedOK' /\ DrainCancelsRunning'
  BY <1>1, <1>2, <1>3, Constant DEF DrainedOK, DrainCancelsRunning, RunOK, ThreadsOK, TypeOK,
       Released
<1>13. ReferencesAreExact'
  <2>1. \A o \in Ops : t \notin Owners(o)' /\ (t \in Owners(o) <=> o = cur[t])
    BY <1>1, <1>2, Constant DEF Owners, OwnsReference, TypeOK
  <2>2. ASSUME NEW o \in Ops, op'[o].memory = "live"
        PROVE  op'[o].refs = (IF op'[o].closed THEN 0 ELSE 1) + Cardinality(Positions(queue, o))
                  + Cardinality(Positions(unlinked, o)) + Cardinality(Owners(o)')
    <3>1. op[o].memory = "live" /\ op'[o].closed = op[o].closed
      BY <1>2, <1>3, <2>2, <1>5
    <3>2. op[o].refs = (IF op[o].closed THEN 0 ELSE 1) + Cardinality(Positions(queue, o))
                  + Cardinality(Positions(unlinked, o)) + Cardinality(Owners(o))
      BY <3>1 DEF ReferencesAreExact
    <3>3. Cardinality(Positions(queue, o)) \in Nat /\ Cardinality(Positions(unlinked, o)) \in Nat
      BY PositionsType DEF TypeOK
    <3>4. CASE o = cur[t]
      BY <2>1, <3>4, <1>4, <1>3, <3>1, <3>2, <3>3 DEF Change
    <3>5. CASE o # cur[t]
      BY <1>3, <2>1, <3>5, <1>4, <3>1, <3>2 DEF Change
    <3> QED
      BY <3>4, <3>5
  <2> QED
    BY <2>2 DEF ReferencesAreExact
<1>14. InFlightIsExact'
  BY <1>1, <1>2, <1>4 DEF Change, Counted, IsCounted, OwnsReference, ThreadsOK, TypeOK,
     InFlightIsExact
<1>15. NoLostWakeup'
  BY <1>1, <1>2, <1>4 DEF Change, Dequeuing, Signalling, TypeOK, NoLostWakeup
<1> QED
  BY <1>6, <1>7, <1>8, <1>9, <1>10, <1>11, <1>12, <1>13, <1>14, <1>15

\* A handle is released with no client inside: whoever still needs the operation has a reference.
LEMMA AsyncOperationReleaseStep ==
    ASSUME AsyncInv, NEW c \in Clients, NEW x \in Ops, AsyncOperationRelease(c, x)
    PROVE  AsyncInv'
<1> USE DEF AsyncInv
<1>0. op' = [op EXCEPT ![x] = [Released(@) EXCEPT !.closed = TRUE]]
  BY DEF AsyncOperationRelease, IsOpen, runtimeVars, drainVars
<1>1. /\ pc[c] = "idle" /\ op[x].memory = "live" /\ ~op[x].closed
      /\ \A d \in Clients : cur[d] = x => pc[d] \notin TouchLabels
      /\ UNCHANGED <<runtimeState, stopped, queue, semaphore, inFlight, drainEvent,
                           workerOps, pc, cur, verdict, unlinked, drains, drained>>
  BY DEF AsyncOperationRelease, IsOpen, runtimeVars, drainVars
<1> USE <1>1
<1>2. c \in Threads /\ Only(c)
  BY Constant DEF Only, TypeOK
<1>3. \A o \in Ops :
        /\ op'[o].memory = IF o = x THEN (IF op[o].refs = 1 THEN "freed" ELSE op[o].memory) ELSE op[o].memory
        /\ op'[o].refs = IF o = x THEN op[o].refs - 1 ELSE op[o].refs
        /\ op'[o].closed <=> (o = x \/ op[o].closed)
        /\ op'[o].queued = op[o].queued /\ op'[o].completed = op[o].completed /\ op'[o].canceled = op[o].canceled
        /\ op'[o].callbacks = op[o].callbacks /\ op'[o].event = op[o].event /\ op'[o].status = op[o].status
  BY <1>0, <1>2 DEF TypeOK, Operations, Released
<1>4. /\ \A o : Change(Owners(o), Owners(o)', c) /\ Change(Completing(o), Completing(o)', c)
      /\ Change(Counted, Counted', c)
      /\ Change(Dequeuing, Dequeuing', c) /\ Change(Signalling, Signalling', c)
  BY <1>2, CountsChange
<1>5. /\ op[x].refs >= 1
      /\ op[x].refs = 1 => ~Listed(x) /\ Owners(x) = {}
  BY LastReference
<1>6. TypeOK'
  BY <1>2, <1>5, OperationUpdates, <1>0 DEF TypeOK
<1>7. ThreadsOK'
  BY <1>2 DEF ThreadsOK, TypeOK, Released
<1>8. RunOK'
  BY <1>2 DEF RunOK, ThreadsOK, TypeOK, Released
<1>9. PointersOK'
  <2>1. ASSUME NEW u \in Threads \ Clients, cur[u] # NoOp
        PROVE  op'[cur[u]].memory = "live"
    BY <2>1, Constant, <1>2, <1>3, <1>5 DEF PointersOK, TypeOK, Owners, OwnsReference, ThreadsOK,
       Threads
  <2>2. ASSUME NEW u \in Clients, cur[u] # NoOp, pc[u] # "q_signal"
        PROVE  op'[cur[u]].memory = "live" /\ ~op'[cur[u]].closed
    BY <2>2, Constant, <1>3 DEF PointersOK, IsOpen, TypeOK, ThreadsOK, TouchLabels
  <2>3. ASSUME NEW o \in Ops, Listed(o), op[o].memory = "live"
        PROVE  op'[o].memory = "live"
    BY <1>3, <2>3, <1>5
  <2>4. /\ \A i \in DOMAIN queue : op'[queue[i]].memory = "live"
        /\ \A i \in DOMAIN unlinked : op'[unlinked[i]].memory = "live"
    BY <2>3 DEF Listed, PointersOK, TypeOK
  <2> QED
    BY <2>1, <2>2, <2>4, Constant DEF PointersOK, IsOpen
<1>10. CompletionOK'
  <2>1. \A o \in Ops : Cardinality(Completing(o)') = Cardinality(Completing(o))
    BY <1>4 DEF Change, Completing, TypeOK
  <2>2. CompletesOnce'
    BY <1>2, <1>3, <2>1 DEF CompletionOK, CompletesOnce
  <2>3. VerdictOK(c)'
    BY <1>2, <1>3 DEF CompletionOK, VerdictOK, TypeOK
  <2> QED
    BY <1>2, <1>3, <2>2, <2>3, VerdictsKept DEF CompletionOK
<1>11. AcceptedOK'
  BY <1>2, <1>3, AcceptedSteady DEF Holds, ThreadsOK, TypeOK
<1>12. DrainedOK' /\ DrainCancelsRunning'
  BY <1>2, <1>3 DEF DrainedOK, DrainCancelsRunning, RunOK, ThreadsOK, TypeOK, Released
<1>13. ReferencesAreExact'
  <2>1. \A o \in Ops : Owners(o)' = Owners(o)
    BY DEF Owners, OwnsReference
  <2>2. ASSUME NEW o \in Ops, op'[o].memory = "live"
        PROVE  op'[o].refs = (IF op'[o].closed THEN 0 ELSE 1) + Cardinality(Positions(queue, o))
                  + Cardinality(Positions(unlinked, o)) + Cardinality(Owners(o))
    <3>1. op[o].memory = "live"
      BY <1>2, <1>3, <2>2
    <3>2. op[o].refs = (IF op[o].closed THEN 0 ELSE 1) + Cardinality(Positions(queue, o))
                  + Cardinality(Positions(unlinked, o)) + Cardinality(Owners(o))
      BY <3>1 DEF ReferencesAreExact
    <3>3. Cardinality(Positions(queue, o)) \in Nat /\ Cardinality(Positions(unlinked, o)) \in Nat
      BY PositionsType DEF TypeOK
    <3>4. Cardinality(Owners(o)) \in Nat
      BY <1>4 DEF Change
    <3>5. CASE o = x
      BY <1>3, <3>5, <3>2, <3>3, <3>4
    <3>6. CASE o # x
      BY <1>0, <3>6, <3>2 DEF TypeOK
    <3> QED
      BY <3>5, <3>6
  <2> QED
    BY <2>1, <2>2 DEF ReferencesAreExact
<1>14. InFlightIsExact'
  BY <1>2, <1>4 DEF Change, Counted, IsCounted, OwnsReference, ThreadsOK, TypeOK, InFlightIsExact
<1>15. NoLostWakeup'
  BY <1>2, <1>4 DEF Change, Dequeuing, Signalling, TypeOK, NoLostWakeup
<1> QED
  BY <1>6, <1>7, <1>8, <1>9, <1>10, <1>11, <1>12, <1>13, <1>14, <1>15

\* The operation, its reference and its count pass to the queue; a token is owed.
LEMMA EnqueueAcceptsStep ==
    ASSUME AsyncInv, NEW c \in Clients, EnqueueAsyncOperation(c), QueueAccepts
    PROVE  AsyncInv'
<1> USE DEF AsyncInv
<1>1. /\ pc[c] = "q_enqueue" /\ pc' = [pc EXCEPT ![c] = "q_signal"]
      /\ queue' = Append(queue, cur[c]) /\ ~stopped
      /\ UNCHANGED <<runtimeState, stopped, semaphore, inFlight, drainEvent, workerOps,
                           op, cur, verdict, unlinked, drains, drained>>
  BY DEF EnqueueAsyncOperation, QueueAccepts, Goto, runtimeVars, drainVars
<1> USE <1>1
<1>2. c \in Threads /\ Only(c) /\ cur[c] \in Ops
  BY Constant DEF Only, TypeOK, ThreadsOK
<1>3. /\ \A o : Change(Owners(o), Owners(o)', c) /\ Change(Completing(o), Completing(o)', c)
      /\ Change(Counted, Counted', c)
      /\ Change(Dequeuing, Dequeuing', c) /\ Change(Signalling, Signalling', c)
  BY <1>2, CountsChange
<1>4. TypeOK'
  BY <1>2 DEF TypeOK, Statuses
<1>5. ThreadsOK'
  BY <1>2 DEF ThreadsOK, TypeOK
<1>6. RunOK'
  BY <1>2 DEF RunOK, ThreadsOK, TypeOK
<1>7. PointersOK'
  BY <1>2, Constant DEF PointersOK, IsOpen, TypeOK
<1>8. CompletionOK'
  BY <1>3, <1>2, VerdictsKept DEF Change, Completing, TypeOK, CompletionOK, CompletesOnce, VerdictOK
<1>9. AcceptedOK'
  <2>1. \A o \in Ops : Listed(o) \/ o = cur[c] => Listed(o)'
    <3>1. ASSUME NEW o \in Ops, NEW i \in DOMAIN queue, queue[i] = o
          PROVE  Listed(o)'
      BY <1>2, <3>1 DEF TypeOK, Listed
    <3>2. Listed(cur[c])'
      BY <1>2 DEF TypeOK, Listed
    <3> QED
      BY <3>1, <3>2 DEF Listed
  <2>2. \A o \in Ops : Holds(c, o) => o = cur[c]
    BY DEF Holds
  <2> QED
    BY <1>2, <2>1, <2>2, AcceptedKept
<1>10. DrainedOK' /\ DrainCancelsRunning'
  BY <1>2 DEF DrainedOK, DrainCancelsRunning, RunOK, ThreadsOK, TypeOK
<1>11. ReferencesAreExact'
  <2>1. \A o \in Ops : c \notin Owners(o)' /\ (c \in Owners(o) <=> o = cur[c])
    BY <1>2 DEF Owners, OwnsReference, TypeOK
  <2>2. ASSUME NEW o \in Ops, op[o].memory = "live"
        PROVE  op[o].refs = (IF op[o].closed THEN 0 ELSE 1) + Cardinality(Positions(Append(queue, cur[c]), o))
                  + Cardinality(Positions(unlinked, o)) + Cardinality(Owners(o)')
    <3>1. op[o].refs = (IF op[o].closed THEN 0 ELSE 1) + Cardinality(Positions(queue, o))
                  + Cardinality(Positions(unlinked, o)) + Cardinality(Owners(o))
      BY <2>2 DEF ReferencesAreExact
    <3>2. Cardinality(Positions(queue, o)) \in Nat /\ Cardinality(Positions(unlinked, o)) \in Nat
      BY PositionsType DEF TypeOK
    <3>3. Cardinality(Positions(Append(queue, cur[c]), o))
            = Cardinality(Positions(queue, o)) + (IF cur[c] = o THEN 1 ELSE 0)
      BY <1>2, PositionsAppend DEF TypeOK
    <3>4. CASE o = cur[c]
      <4>1. Cardinality(Owners(o)') = Cardinality(Owners(o)) - 1 /\ Cardinality(Owners(o)) \in Nat
        BY <2>1, <3>4, <1>3 DEF Change
      <4>2. Cardinality(Positions(Append(queue, cur[c]), o)) = Cardinality(Positions(queue, o)) + 1
        BY <3>3, <3>4
      <4> HIDE <1>1
      <4> QED
        BY <3>1, <3>2, <4>1, <4>2
    <3>5. CASE o # cur[c]
      <4>1. Cardinality(Owners(o)') = Cardinality(Owners(o))
        BY <2>1, <3>5, <1>3 DEF Change
      <4>2. Cardinality(Positions(Append(queue, cur[c]), o)) = Cardinality(Positions(queue, o))
        BY <3>2, <3>3, <3>5
      <4> HIDE <1>1
      <4> QED
        BY <3>1, <4>1, <4>2
    <3> QED
      BY <3>4, <3>5
  <2> QED
    BY <2>2 DEF ReferencesAreExact
<1>12. InFlightIsExact'
  BY <1>2, Constant, <1>3 DEF Counted, IsCounted, OwnsReference, TypeOK, Change, InFlightIsExact
<1>13. NoLostWakeup'
  BY <1>2, Constant, <1>3 DEF Dequeuing, Signalling, TypeOK, NoLostWakeup, Change
<1> QED
  BY <1>4, <1>5, <1>6, <1>7, <1>8, <1>9, <1>10, <1>11, <1>12, <1>13

\* The drain stops the queue of a running runtime.
LEMMA DrainBeginsStep ==
    ASSUME AsyncInv, DrainEnter(Drainer), runtimeState = 2
    PROVE  AsyncInv'
<1> USE DEF AsyncInv
<1>1. /\ pc[Drainer] = "idle" /\ pc' = [pc EXCEPT ![Drainer] = "d_unlink"]
      /\ runtimeState = 2 /\ stopped' = TRUE /\ drained' = "pending"
      /\ drains' = drains + 1 /\ drains < MaxDrains
      /\ UNCHANGED <<runtimeState, queue, semaphore, inFlight, drainEvent, workerOps, op,
                           cur, verdict, unlinked>>
  BY DEF DrainEnter, Goto, runtimeVars, drainVars
<1> USE <1>1
<1>2. Drainer \in Threads /\ Only(Drainer)
  BY Constant DEF Only, TypeOK
<1>3. TypeOK'
  <2>1. stopped' \in BOOLEAN
    BY Zenon
  <2>2. drains' \in 0..MaxDrains
    BY RuntimeAssumption DEF TypeOK
  <2> QED
    BY <1>2, <2>1, <2>2 DEF TypeOK
<1>4. ThreadsOK'
  BY <1>2, Constant DEF Only, TypeOK, ThreadsOK
<1>5. RunOK'
  BY <1>2 DEF RunOK, ThreadsOK, TypeOK
<1>6. PointersOK'
  BY <1>2 DEF PointersOK, ThreadsOK, TypeOK, IsOpen
<1>7. CompletionOK'
  <2>1. \A o \in Ops : Cardinality(Completing(o)') = Cardinality(Completing(o))
    BY <1>2, CountsChange DEF Change, Completing, TypeOK
  <2>2. CompletesOnce'
    BY <1>2, <2>1 DEF CompletionOK, CompletesOnce
  <2>3. VerdictOK(Drainer)'
    BY <1>2 DEF CompletionOK, VerdictOK, TypeOK
  <2> QED
    BY <1>2, <2>2, <2>3, VerdictsKept DEF CompletionOK
<1>8. AcceptedOK'
  BY <1>2, AcceptedSteady DEF Holds, ThreadsOK, TypeOK
<1>9. DrainedOK' /\ DrainCancelsRunning'
  BY <1>2 DEF DrainedOK, DrainCancelsRunning, RunOK, ThreadsOK, TypeOK
<1>10. ReferencesAreExact' /\ InFlightIsExact' /\ NoLostWakeup'
  <2>1. /\ \A o \in Ops : Drainer \in Owners(o)' <=> Drainer \in Owners(o)
        /\ Drainer \in Counted' <=> Drainer \in Counted
    BY <1>2 DEF Owners, OwnsReference, Counted, IsCounted, TypeOK
  <2>2. (Drainer \in Dequeuing' <=> Drainer \in Dequeuing) /\ (Drainer \in Signalling' <=> Drainer \in Signalling)
    BY <1>2 DEF Dequeuing, Signalling, TypeOK
  <2> QED
    BY <1>2, <2>1, <2>2, CountsKept DEF TypeOK
<1> QED
  BY <1>3, <1>4, <1>5, <1>6, <1>7, <1>8, <1>9, <1>10

\* The drain finds a runtime that never ran or has stopped.
LEMMA DrainFindsIdleStep ==
    ASSUME AsyncInv, DrainEnter(Drainer), runtimeState # 2
    PROVE  AsyncInv'
<1> USE DEF AsyncInv
<1>1. /\ pc[Drainer] = "idle" /\ runtimeState # 1 /\ runtimeState # 2
      /\ drained' \in {"success", "failure"}
      /\ drains' = drains + 1 /\ drains < MaxDrains
      /\ UNCHANGED <<runtimeState, stopped, queue, semaphore, inFlight, drainEvent,
                           workerOps, op, pc, cur, verdict, unlinked>>
  BY DEF DrainEnter, Goto, runtimeVars, drainVars
<1> USE <1>1
<1>2. Drainer \in Threads /\ Only(Drainer)
  BY Constant DEF Only, TypeOK
<1>3. TypeOK'
  BY RuntimeAssumption, <1>2 DEF TypeOK
<1>4. ThreadsOK'
  BY <1>2 DEF ThreadsOK, TypeOK
<1>5. RunOK'
  BY <1>2 DEF RunOK, ThreadsOK, TypeOK
<1>6. PointersOK'
  BY <1>2 DEF PointersOK, ThreadsOK, TypeOK, IsOpen
<1>7. CompletionOK'
  BY <1>2, CountsChange, VerdictsKept DEF Change, Completing, TypeOK, CompletionOK, CompletesOnce,
     VerdictOK
<1>8. AcceptedOK'
  BY <1>2, AcceptedSteady DEF Holds, ThreadsOK, TypeOK
<1>9. DrainedOK' /\ DrainCancelsRunning'
  BY <1>2 DEF DrainedOK, DrainCancelsRunning, RunOK, ThreadsOK, TypeOK
<1>10. ReferencesAreExact' /\ InFlightIsExact' /\ NoLostWakeup'
  BY <1>2, CountsKept DEF Owners, OwnsReference, Counted, IsCounted, TypeOK, Dequeuing, Signalling
<1> QED
  BY <1>3, <1>4, <1>5, <1>6, <1>7, <1>8, <1>9, <1>10

\* The whole queue becomes the drainer's list.
LEMMA DrainUnlinkStep ==
    ASSUME AsyncInv, DrainUnlink(Drainer)
    PROVE  AsyncInv'
<1> USE DEF AsyncInv
<1>1. /\ pc[Drainer] = "d_unlink" /\ pc' = [pc EXCEPT ![Drainer] = "d_next"]
      /\ unlinked = <<>> /\ unlinked' = queue /\ queue' = <<>>
      /\ UNCHANGED <<runtimeState, stopped, semaphore, inFlight, drainEvent, workerOps,
                           op, cur, verdict, drains, drained>>
  BY DEF DrainUnlink, RunOK, Goto, runtimeVars, drainVars
<1> USE <1>1
<1>2. Drainer \in Threads /\ Only(Drainer)
  BY Constant DEF Only, TypeOK
<1>3. /\ \A o : Change(Owners(o), Owners(o)', Drainer) /\ Change(Completing(o), Completing(o)', Drainer)
      /\ Change(Counted, Counted', Drainer)
      /\ Change(Dequeuing, Dequeuing', Drainer) /\ Change(Signalling, Signalling', Drainer)
  BY <1>2, CountsChange
<1>4. TypeOK'
  BY <1>2 DEF TypeOK, Statuses
<1>5. ThreadsOK'
  BY <1>2 DEF ThreadsOK, TypeOK
<1>6. RunOK'
  BY <1>2 DEF RunOK, ThreadsOK, TypeOK
<1>7. PointersOK'
  BY <1>2 DEF PointersOK, ThreadsOK, TypeOK, IsOpen
<1>8. CompletionOK'
  BY <1>3, <1>2, VerdictsKept DEF Change, Completing, TypeOK, CompletionOK, CompletesOnce, VerdictOK
<1>9. AcceptedOK'
  BY Constant, <1>2, AcceptedKept DEF Listed, Holds, ThreadsOK
<1>10. DrainedOK' /\ DrainCancelsRunning'
  BY <1>2 DEF DrainedOK, DrainCancelsRunning, RunOK, ThreadsOK, TypeOK
<1>11. ReferencesAreExact'
  <2>0. \A o \in Ops : Drainer \notin Owners(o) /\ Drainer \notin Owners(o)'
    BY <1>2, Constant DEF Owners, OwnsReference, TypeOK
  <2>1. \A o \in Ops : Cardinality(Owners(o)') = Cardinality(Owners(o)) /\ Cardinality(Owners(o)) \in Nat
    BY <2>0, <1>3 DEF Change
  <2>2. \A o \in Ops : /\ Cardinality(Positions(unlinked, o)) = 0 /\ Cardinality(Positions(queue', o)) = 0
                       /\ Cardinality(Positions(queue, o)) \in Nat
    BY PositionsEmpty, PositionsType DEF TypeOK
  <2>3. ASSUME NEW o \in Ops, op[o].memory = "live"
        PROVE  op[o].refs = (IF op[o].closed THEN 0 ELSE 1) + Cardinality(Positions(queue', o))
                  + Cardinality(Positions(queue, o)) + Cardinality(Owners(o)')
    <3>1. op[o].refs = (IF op[o].closed THEN 0 ELSE 1) + Cardinality(Positions(queue, o))
                  + Cardinality(Positions(unlinked, o)) + Cardinality(Owners(o))
      BY <2>3 DEF ReferencesAreExact
    <3> HIDE <1>1
    <3> QED
      BY <2>1, <2>2, <3>1
  <2> QED
    BY <2>3 DEF ReferencesAreExact
<1>12. InFlightIsExact'
  <2>1. Cardinality(Counted') = Cardinality(Counted)
    BY <1>2, <1>3 DEF Change, Counted, IsCounted, OwnsReference, ThreadsOK, TypeOK
  <2>2. Len(unlinked) = 0 /\ Len(queue') = 0 /\ Len(queue) \in Nat /\ Cardinality(Counted) \in Nat
    BY <1>3 DEF TypeOK, Change
  <2>3. Len(unlinked') = Len(queue) /\ inFlight' = inFlight
    OBVIOUS
  <2> HIDE <1>1
  <2> QED
    BY <2>1, <2>2, <2>3 DEF InFlightIsExact
<1>13. NoLostWakeup'
  BY <1>3 DEF TypeOK, NoLostWakeup, Change
<1> QED
  BY <1>4, <1>5, <1>6, <1>7, <1>8, <1>9, <1>10, <1>11, <1>12, <1>13

\* The drainer takes the next of its list, with its reference and count.
LEMMA DrainTakesStep ==
    ASSUME AsyncInv, DrainNext(Drainer), unlinked # <<>>
    PROVE  AsyncInv'
<1> USE DEF AsyncInv
<1>1. /\ unlinked # <<>>
      /\ pc[Drainer] = "d_next" /\ pc' = [pc EXCEPT ![Drainer] = "c_cas"]
      /\ unlinked' = Tail(unlinked) /\ cur' = [cur EXCEPT ![Drainer] = Head(unlinked)]
      /\ verdict' = [verdict EXCEPT ![Drainer] = "cancelled"]
      /\ UNCHANGED <<runtimeState, stopped, queue, semaphore, inFlight, drainEvent,
                           workerOps, op, drains, drained>>
  BY DEF DrainNext, EnterComplete, Goto, runtimeVars, drainVars
<1> USE <1>1
<1>2. Drainer \in Threads /\ Only(Drainer)
  BY Constant DEF Only, TypeOK
<1>3. /\ \A o : Change(Owners(o), Owners(o)', Drainer) /\ Change(Completing(o), Completing(o)', Drainer)
      /\ Change(Counted, Counted', Drainer)
      /\ Change(Dequeuing, Dequeuing', Drainer) /\ Change(Signalling, Signalling', Drainer)
  BY <1>2, CountsChange
<1>4. TypeOK'
  BY <1>2 DEF TypeOK, Statuses
<1>5. ThreadsOK'
  BY <1>2, Constant DEF Only, TypeOK, ThreadsOK
<1>6. RunOK'
  BY <1>2 DEF RunOK, ThreadsOK, TypeOK
<1>7. PointersOK'
  BY <1>2 DEF PointersOK, ThreadsOK, TypeOK, IsOpen
<1>8. CompletionOK'
  BY <1>3, <1>2, VerdictsKept DEF Change, Completing, TypeOK, CompletionOK, CompletesOnce, VerdictOK
<1>9. AcceptedOK'
  <2>1. \A o \in Ops : Listed(o) => Listed(o)' \/ Holds(Drainer, o)'
    <3> SUFFICES ASSUME NEW o \in Ops, Listed(o), o # Head(unlinked) PROVE Listed(o)'
      BY <1>2, Constant DEF Holds, TypeOK
    <3>1. ASSUME NEW i \in DOMAIN unlinked, unlinked[i] = o PROVE Listed(o)'
      <4>1. i - 1 \in DOMAIN Tail(unlinked) /\ Tail(unlinked)[i - 1] = o
        BY <3>1 DEF TypeOK
      <4> QED
        BY <4>1 DEF Listed
    <3> QED
      BY <3>1 DEF Listed
  <2>2. \A o \in Ops : ~Holds(Drainer, o)
    BY Constant DEF Holds, ThreadsOK
  <2> QED
    BY <1>2, <2>1, <2>2, AcceptedKept
<1>10. DrainedOK' /\ DrainCancelsRunning'
  BY <1>2 DEF DrainedOK, DrainCancelsRunning, RunOK, ThreadsOK, TypeOK
<1>11. ReferencesAreExact'
  <2>1. \A o \in Ops : Drainer \notin Owners(o) /\ (Drainer \in Owners(o)' <=> o = Head(unlinked))
    BY <1>2, Constant DEF Owners, OwnsReference, TypeOK
  <2>2. \A o \in Ops : /\ Cardinality(Owners(o)) \in Nat
                       /\ Cardinality(Owners(o)') = Cardinality(Owners(o)) + (IF Head(unlinked) = o THEN 1 ELSE 0)
    BY <2>1, <1>3 DEF Change
  <2>3. \A o \in Ops : /\ Cardinality(Positions(unlinked, o)) \in Nat
                       /\ Cardinality(Positions(Tail(unlinked), o)) \in Nat
                       /\ Cardinality(Positions(queue, o)) \in Nat
                       /\ Cardinality(Positions(unlinked, o))
                            = Cardinality(Positions(Tail(unlinked), o)) + (IF Head(unlinked) = o THEN 1 ELSE 0)
    <3>1. unlinked \in Seq(Ops) /\ Tail(unlinked) \in Seq(Ops) /\ queue \in Seq(Ops)
      BY DEF TypeOK
    <3> QED
      BY <3>1, PositionsType, PositionsTail
  <2>5. ASSUME NEW o \in Ops, op[o].memory = "live"
        PROVE  op[o].refs = (IF op[o].closed THEN 0 ELSE 1) + Cardinality(Positions(queue, o))
                  + Cardinality(Positions(Tail(unlinked), o)) + Cardinality(Owners(o)')
    <3> DEFINE h == IF op[o].closed THEN 0 ELSE 1
    <3>0. h \in Nat
      OBVIOUS
    <3>1. op[o].refs = h + Cardinality(Positions(queue, o))
                  + Cardinality(Positions(unlinked, o)) + Cardinality(Owners(o))
      BY <2>5 DEF ReferencesAreExact
    <3> SUFFICES op[o].refs = h + Cardinality(Positions(queue, o))
                  + Cardinality(Positions(Tail(unlinked), o)) + Cardinality(Owners(o)')
      OBVIOUS
    <3> HIDE DEF h
    <3>2. CASE Head(unlinked) = o
      <4>1. /\ Cardinality(Owners(o)') = Cardinality(Owners(o)) + 1
            /\ Cardinality(Positions(unlinked, o)) = Cardinality(Positions(Tail(unlinked), o)) + 1
        BY <2>2, <2>3, <3>2
      <4>2. /\ Cardinality(Owners(o)) \in Nat /\ Cardinality(Positions(queue, o)) \in Nat
            /\ Cardinality(Positions(Tail(unlinked), o)) \in Nat
        BY <2>2, <2>3
      <4> HIDE <1>1
      <4> QED
        BY <3>0, <3>1, <4>1, <4>2
    <3>3. CASE Head(unlinked) # o
      BY <2>2, <2>3, <3>1, <3>3
    <3> QED
      BY <3>2, <3>3
  <2> QED
    BY <2>5 DEF ReferencesAreExact
<1>12. InFlightIsExact'
  BY <1>2, Constant, <1>3 DEF Counted, IsCounted, OwnsReference, TypeOK, InFlightIsExact, Change
<1>13. NoLostWakeup'
  BY <1>2, <1>3 DEF Change, Dequeuing, Signalling, TypeOK, NoLostWakeup
<1> QED
  BY <1>4, <1>5, <1>6, <1>7, <1>8, <1>9, <1>10, <1>11, <1>12, <1>13

\* Every operation the worker table names is cancelled.
LEMMA DrainCancelRunningStep ==
    ASSUME AsyncInv, DrainCancelRunning(Drainer)
    PROVE  AsyncInv'
<1> USE DEF AsyncInv
<1>0. op' = [o \in Ops |-> [op[o] EXCEPT !.canceled = @ \/ \E w \in Workers : workerOps[w] = o]]
  BY DEF DrainCancelRunning, Goto, runtimeVars, drainVars
<1>1. /\ pc[Drainer] = "d_cancel" /\ pc' = [pc EXCEPT ![Drainer] = "d_wake"]
      /\ UNCHANGED <<runtimeState, stopped, queue, semaphore, inFlight, drainEvent,
                           workerOps, cur, verdict, unlinked, drains, drained>>
  BY DEF DrainCancelRunning, Goto, runtimeVars, drainVars
<1> USE <1>1
<1>2. Drainer \in Threads /\ Only(Drainer)
  BY Constant DEF Only, TypeOK
<1>3. \A o \in Ops :
        /\ op'[o].memory = op[o].memory /\ op'[o].refs = op[o].refs /\ op'[o].closed = op[o].closed
        /\ op'[o].queued = op[o].queued /\ op'[o].completed = op[o].completed
        /\ op'[o].canceled <=> (op[o].canceled \/ \E w \in Workers : workerOps[w] = o)
        /\ op'[o].callbacks = op[o].callbacks /\ op'[o].event = op[o].event /\ op'[o].status = op[o].status
  BY <1>0, <1>2 DEF TypeOK, Operations
<1>4. TypeOK'
  <2>1. op \in [Ops -> Operations]
    BY DEF TypeOK
  <2>2. \A r \in Operations, b \in BOOLEAN : [r EXCEPT !.canceled = b] \in Operations
    BY DEF Operations
  <2>3. \A o \in Ops : (op[o].canceled \/ \E w \in Workers : workerOps[w] = o) \in BOOLEAN
    BY Zenon
  <2>4. op' \in [Ops -> Operations]
    BY <1>0, <2>1, <2>2, <2>3
  <2> QED
    BY <1>2, <2>4 DEF TypeOK
<1>5. ThreadsOK'
  BY <1>2 DEF ThreadsOK, TypeOK
<1>6. RunOK'
  BY <1>2 DEF RunOK, ThreadsOK, TypeOK
<1>7. PointersOK'
  BY <1>2, <1>3, PointersKept DEF TypeOK
<1>8. CompletionOK'
  <2>1. \A o \in Ops : Cardinality(Completing(o)') = Cardinality(Completing(o))
    BY <1>2, CountsChange DEF Change, Completing, TypeOK
  <2>2. CompletesOnce'
    BY <1>2, <1>3, <2>1 DEF CompletionOK, CompletesOnce
  <2>3. VerdictOK(Drainer)'
    BY <1>2, <1>3 DEF CompletionOK, VerdictOK, TypeOK
  <2> QED
    BY <1>2, <1>3, <2>2, <2>3, VerdictsKept DEF CompletionOK
<1>9. AcceptedOK'
  BY <1>2, <1>3, AcceptedSteady DEF Holds, ThreadsOK, TypeOK
<1>10. DrainedOK' /\ DrainCancelsRunning'
  BY <1>2, <1>3 DEF DrainedOK, DrainCancelsRunning, RunOK, ThreadsOK, TypeOK
<1>11. ReferencesAreExact' /\ InFlightIsExact' /\ NoLostWakeup'
  BY <1>2, <1>3, CountsKept DEF Owners, OwnsReference, Counted, IsCounted, TypeOK, Dequeuing,
     Signalling
<1> QED
  BY <1>4, <1>5, <1>6, <1>7, <1>8, <1>9, <1>10, <1>11

\* A worker thread is started.
LEMMA WorkerStartedStep ==
    ASSUME AsyncInv, NEW c \in Clients, NEW w \in Workers, WorkerStarted(c, w)
    PROVE  AsyncInv'
<1> USE DEF AsyncInv
<1>1. /\ pc[c] = "start"
      /\ pc[w] = "none" /\ pc' = [pc EXCEPT ![w] = "w_wait"]
      /\ UNCHANGED <<runtimeState, stopped, queue, semaphore, inFlight, drainEvent,
                           workerOps, op, cur, verdict, unlinked, drains, drained>>
  BY DEF WorkerStarted, Goto, runtimeVars, drainVars
<1> USE <1>1
<1>2. w \in Threads /\ Only(w)
  BY Constant DEF Only, TypeOK
<1>3. TypeOK'
  BY <1>2 DEF TypeOK, Statuses
<1>4. ThreadsOK'
  BY <1>2 DEF ThreadsOK, TypeOK
<1>5. RunOK'
  BY <1>2 DEF RunOK, ThreadsOK, TypeOK
<1>6. PointersOK'
  BY <1>2 DEF PointersOK, ThreadsOK, TypeOK, IsOpen
<1>7. CompletionOK'
  BY <1>2, CountsChange, VerdictsKept DEF Change, Completing, TypeOK, CompletionOK, CompletesOnce,
     VerdictOK
<1>8. AcceptedOK'
  BY <1>2, AcceptedSteady DEF Holds, ThreadsOK, TypeOK
<1>9. DrainedOK' /\ DrainCancelsRunning'
  BY <1>2 DEF DrainedOK, DrainCancelsRunning, RunOK, ThreadsOK, TypeOK
<1>10. ReferencesAreExact' /\ InFlightIsExact' /\ NoLostWakeup'
  BY <1>2, CountsKept DEF Owners, OwnsReference, Counted, IsCounted, TypeOK, Dequeuing, Signalling
<1> QED
  BY <1>3, <1>4, <1>5, <1>6, <1>7, <1>8, <1>9, <1>10

\* A worker cannot be started: the queue stops and the workers are woken.
LEMMA StartWorkerFailsStep ==
    ASSUME AsyncInv, NEW c \in Clients, StartWorkerFails(c)
    PROVE  AsyncInv'
<1> USE DEF AsyncInv
<1>1. PICK w \in Workers : pc[w] = "none" /\ \E created \in BOOLEAN :
        pc' = [pc EXCEPT ![c] = "start_failed", ![w] = IF created THEN "w_wait" ELSE @]
  BY DEF StartWorkerFails
<1>2. /\ pc[c] = "start" /\ stopped' = TRUE /\ semaphore' = semaphore + WorkerCount
      /\ UNCHANGED <<runtimeState, queue, inFlight, drainEvent, workerOps, op, cur, verdict,
                     unlinked, drains, drained>>
  BY DEF StartWorkerFails, drainVars
<1> USE <1>2
<1>3. /\ c \in Threads /\ w \in Threads /\ c # w /\ c # Drainer /\ w # Drainer /\ w \notin Clients
      /\ pc'[c] = "start_failed" /\ pc'[w] \in {"none", "w_wait"}
      /\ \A u \in Threads \ {c, w} : pc'[u] = pc[u]
      /\ pc' \in [Threads -> ClientLabels \cup WorkerLabels \cup DrainLabels \cup CompleteLabels]
  BY <1>1, Constant DEF TypeOK
<1>4. TypeOK'
  <2>1. stopped' \in BOOLEAN
    BY Zenon
  <2>2. semaphore' \in Nat
    BY Constant DEF TypeOK
  <2> QED
    BY <1>3, <2>1, <2>2 DEF TypeOK
<1>5. ThreadsOK'
  BY <1>1, <1>3, Constant DEF ThreadsOK
<1>6. RunOK'
  BY <1>3, Constant DEF RunOK
<1>7. PointersOK'
  BY <1>3, Constant DEF PointersOK, IsOpen
<1>8. /\ \A o \in Ops : Owners(o)' = Owners(o) /\ Completing(o)' = Completing(o)
      /\ Counted' = Counted /\ Dequeuing' = Dequeuing /\ Signalling' = Signalling
  BY <1>1, <1>3, Constant DEF Owners, OwnsReference, Completing, Counted, IsCounted, Dequeuing,
     Signalling
<1>9. ReferencesAreExact' /\ InFlightIsExact'
  BY <1>8 DEF ReferencesAreExact, InFlightIsExact
<1>10. CompletionOK'
  BY <1>1, <1>3, <1>8 DEF CompletionOK, CompletesOnce, VerdictOK
<1>11. AcceptedOK'
  BY <1>3 DEF Listed, Holds, AcceptedOK
<1>12. DrainedOK' /\ DrainCancelsRunning'
  BY <1>3, Constant DEF DrainedOK, DrainCancelsRunning, RunOK
<1>13. NoLostWakeup'
  <2>1. Cardinality(Dequeuing) \in Nat /\ Cardinality(Signalling) \in Nat /\ Len(queue) \in Nat
    BY Constant, FS_Subset, FS_CardinalityType DEF Dequeuing, Signalling, TypeOK
  <2> QED
    BY <1>8, <2>1, Constant DEF NoLostWakeup, TypeOK
<1> QED
  BY <1>4, <1>5, <1>6, <1>7, <1>9, <1>10, <1>11, <1>12, <1>13

----------------------------------------
(* The invariant *)

\* The initial state satisfies it.
LEMMA AsyncInvInit == Init => AsyncInv
<1> SUFFICES ASSUME Init PROVE AsyncInv
  OBVIOUS
<1> USE DEF Init
<1>1. /\ queue = <<>> /\ unlinked = <<>> /\ Len(queue) = 0 /\ Len(unlinked) = 0
      /\ semaphore = 0 /\ inFlight = 0
  OBVIOUS
<1>2. \A u \in Threads : cur[u] = NoOp /\ verdict[u] = "pending" /\ pc[u] \in {"none", "idle"}
  OBVIOUS
<1>3. \A o \in Ops : op[o] = AbsentOperation
  OBVIOUS
<1>4. AbsentOperation \in Operations /\ AbsentOperation.memory = "absent" /\ ~AbsentOperation.queued
      /\ ~AbsentOperation.completed /\ ~AbsentOperation.event /\ AbsentOperation.callbacks = 0
  BY DEF AbsentOperation, NewOperation, Operations, Statuses
<1>5. TypeOK
  <2>1. stopped \in BOOLEAN /\ drainEvent \in BOOLEAN
    BY Zenon
  <2>2. op \in [Ops -> Operations]
    BY <1>4
  <2>3. /\ pc \in [Threads -> ClientLabels \cup WorkerLabels \cup DrainLabels \cup CompleteLabels]
        /\ cur \in [Threads -> Ops \cup {NoOp}] /\ verdict \in [Threads -> Statuses]
        /\ workerOps \in [Workers -> Ops \cup {NoOp}]
    BY DEF Statuses
  <2>4. runtimeState \in 0..3 /\ semaphore \in Nat /\ inFlight \in Nat /\ drains \in 0..MaxDrains
    BY RuntimeAssumption
  <2> QED
    BY <1>1, <2>1, <2>2, <2>3, <2>4 DEF TypeOK
<1>6. ThreadsOK
  BY Constant DEF ThreadsOK
<1>7. RunOK
  BY Constant DEF RunOK
<1>8. ReferencesAreExact
  BY <1>3, <1>4 DEF ReferencesAreExact
<1>9. PointersOK
  BY <1>1, <1>2, Constant DEF PointersOK
<1>10. Counted = {} /\ Dequeuing = {} /\ Signalling = {} /\ \A o \in Ops : Completing(o) = {}
  BY <1>2, Constant DEF Counted, IsCounted, OwnsReference, Dequeuing, Signalling, Completing
<1>11. InFlightIsExact /\ NoLostWakeup
  BY <1>1, <1>10, FS_EmptySet DEF InFlightIsExact, NoLostWakeup
<1>12. CompletionOK
  BY <1>2, <1>3, <1>4, <1>10, FS_EmptySet DEF CompletionOK, CompletesOnce, VerdictOK
<1>13. AcceptedOK
  BY <1>3, <1>4 DEF AcceptedOK
<1>14. DrainedOK /\ DrainCancelsRunning
  BY Constant DEF DrainedOK, DrainCancelsRunning
<1> QED
  BY <1>5, <1>6, <1>7, <1>8, <1>9, <1>11, <1>12, <1>13, <1>14 DEF AsyncInv

\* A step of CompleteOperation, whoever calls it.
LEMMA CompleteOperationStep ==
    ASSUME AsyncInv, NEW t \in Threads, CompleteOperation(t)
    PROVE  AsyncInv'
BY CompleteLostStep, CompleteWonStep, PublishCompletionStep, SignalCompletionStep,
   InvokeCallbackStep DEF CompleteOperation

\* Every step inside a client's call keeps the invariant.
LEMMA ClientStepKeeps ==
    ASSUME AsyncInv, NEW c \in Clients, ClientStep(c)
    PROVE  AsyncInv'
<1>1. CASE EnsureRunning(c)
  BY <1>1, ClientGoesOn, EnsureStartsStep DEF EnsureRunning
<1>2. CASE StartWorker(c)
  BY <1>2, WorkerStartedStep, ClientGoesOn DEF StartWorker, WorkerStarted, StartEnds
<1>3. CASE StartWorkerFails(c) \/ StartFailedWake(c) \/ StartFailedJoin(c)
  BY <1>3, StartWorkerFailsStep, ClientGoesOn
<1>4. CASE QueueClaim(c)
  BY <1>4, ClientGoesOn, QueueClaimedStep
<1>5. CASE QueueCheckCanceled(c)
  BY <1>5, ClientGoesOn, QueueTakesReferenceStep
<1>6. CASE BeginCount(c) \/ BeginClearEvent(c) \/ EnqueueSignal(c) \/ CancelSetFlag(c)
  BY <1>6, BeginCountStep, ClientGoesOn, EnqueueSignalStep, CancelSetFlagStep
<1>7. CASE EnqueueAsyncOperation(c)
  BY <1>7, EnqueueAcceptsStep, ClientGoesOn
<1>8. CASE QueueRefused(c)
  BY <1>8, EndsOperationStep, ClientGoesOn, ReleasesStep, Constant DEF QueueRefused, Return, Goto
<1>9. CASE CancelIfPending(c)
  BY <1>9, ClientGoesOn
<1>10. CASE CompleteOperation(c)
  BY <1>10, CompleteOperationStep, Constant
<1> QED
  BY <1>1, <1>2, <1>3, <1>4, <1>5, <1>6, <1>7, <1>8, <1>9, <1>10 DEF ClientStep

\* Every step of a worker keeps the invariant.
LEMMA WorkerStepKeeps ==
    ASSUME AsyncInv, NEW w \in Workers, WorkerStep(w)
    PROVE  AsyncInv'
BY WorkerWakesStep, DequeueAsyncOperationStep, DequeueNothingStep, WorkerGoesOn, RunMarkRunningStep,
   ReleasesStep, Constant, EndsOperationStep, CompleteOperationStep DEF WorkerEnds, WorkerStep

\* Every step of EngineDrainAsync keeps the invariant.
LEMMA DrainStepKeeps ==
    ASSUME AsyncInv, DrainEnter(Drainer) \/ DrainStep(Drainer)
    PROVE  AsyncInv'
<1>1. CASE DrainEnter(Drainer)
  BY <1>1, DrainBeginsStep, DrainFindsIdleStep
<1>2. CASE DrainUnlink(Drainer) \/ DrainCancelRunning(Drainer) \/ WakeAsyncWorkers(Drainer)
  BY <1>2, DrainUnlinkStep, DrainCancelRunningStep, DrainerGoesOn
<1>3. CASE DrainNext(Drainer)
  BY <1>3, DrainTakesStep, DrainerGoesOn
<1>4. CASE DrainReleases(Drainer)
  BY <1>4, EndsOperationStep, DrainerGoesOn, ReleasesStep, Constant DEF DrainReleases, Return, Goto
<1>5. CASE DrainWait(Drainer) \/ DrainJoined(Drainer) \/ DrainTimesOut(Drainer)
  BY <1>5, DrainerGoesOn
<1>6. CASE CompleteOperation(Drainer)
  BY <1>6, CompleteOperationStep, Constant
<1> QED
  BY <1>1, <1>2, <1>3, <1>4, <1>5, <1>6 DEF DrainStep

\* Every step of the runtime keeps the invariant.
LEMMA AsyncInvNext == AsyncInv /\ [Next]_vars => AsyncInv'
<1> SUFFICES ASSUME AsyncInv, [Next]_vars PROVE AsyncInv'
  OBVIOUS
<1>1. CASE UNCHANGED vars
  BY <1>1 DEF vars, runtimeVars, drainVars, AsyncInv, TypeOK, ThreadsOK, RunOK, ReferencesAreExact,
     PointersOK, IsOpen, InFlightIsExact, CompletionOK, CompletesOnce, VerdictOK, AcceptedOK, Listed,
     Holds, DrainedOK, DrainCancelsRunning, NoLostWakeup, Owners, OwnsReference, Counted, IsCounted,
     Dequeuing, Signalling, Completing
<1>2. CASE \E c \in Clients : ClientStep(c)
  BY <1>2, ClientStepKeeps
<1>3. CASE \E c \in Clients, o \in Ops :
             AsyncOperationCreate(c, o) \/ EnterCall(c, o) \/ AsyncOperationRelease(c, o)
  <2>1. ASSUME NEW c \in Clients, NEW o \in Ops, EnterCall(c, o)
        PROVE  AsyncInv'
    <3>1. PICK first \in {"q_ensure", "x_flag"} : pc' = [pc EXCEPT ![c] = first]
      BY <2>1 DEF EnterCall, Goto
    <3> QED
      BY <2>1, <3>1, EnterCallStep
  <2> QED
    BY <1>3, <2>1, AsyncOperationCreateStep, AsyncOperationReleaseStep
<1>4. CASE \E w \in Workers : WorkerStep(w)
  BY <1>4, WorkerStepKeeps
<1>5. CASE DrainEnter(Drainer) \/ DrainStep(Drainer)
  BY <1>5, DrainStepKeeps
<1> QED
  BY <1>1, <1>2, <1>3, <1>4, <1>5 DEF Next

\* The inductive invariant holds of every behaviour of the runtime.
THEOREM AsyncInvariant == Spec => []AsyncInv
BY AsyncInvInit, AsyncInvNext, PTL DEF Spec

\* What the invariant says of references, pointers, the in-flight count and tokens.
LEMMA InvCounts == AsyncInv => OperationsAreCounted
<1> SUFFICES ASSUME AsyncInv PROVE NoUseAfterFree
  BY DEF AsyncInv, OperationsAreCounted
<1> USE DEF AsyncInv
<1>1. ASSUME NEW t \in Threads, cur[t] # NoOp, pc[t] \in TouchLabels
      PROVE  op[cur[t]].memory = "live"
  BY <1>1 DEF TouchLabels, PointersOK, IsOpen
<1>2. \A w \in Workers : workerOps[w] # NoOp => op[workerOps[w]].memory = "live"
  BY Constant DEF PointersOK, ThreadsOK
<1>3. \A o \in ToSet(queue) \cup ToSet(unlinked) : op[o].memory = "live"
  BY DEF PointersOK, ToSet
<1> QED
  BY <1>1, <1>2, <1>3 DEF NoUseAfterFree

\* Every reference and every operation in flight is counted exactly, no thread
\* touches freed memory and no wakeup is lost, for any number of operations,
\* clients and workers and any queue depth (AddRef, ReleaseRef,
\* BeginAsyncOperation, EndAsyncOperation, EnqueueAsyncOperation).
THEOREM OperationsCounted == Spec => []OperationsAreCounted
BY AsyncInvariant, InvCounts, PTL

----------------------------------------
\* What EngineDrainAsync guarantees, on top of AsyncInv.
\*
\* That the semaphore stays within the limit it was initialised with is
\* not a consequence of AsyncInv: it needs that until the runtime stops
\* there are exactly as many tokens, due, available or taken, as queued
\* operations (TokensOK), so that the one token per worker the drain adds
\* still fits.  A second drain adds them again: the bound is proved for
\* programs that drain once, when they unload.

\* The drainer before it woke the workers.
UnwokenLabels == {"d_unlink", "d_cancel", "d_wake"} \cup SweepLabels

\* Tokens of the semaphore, due or taken but not used yet.
Tokens == semaphore + Cardinality(Dequeuing) + Cardinality(Signalling)

\* Tokens stay within the limit as long as one drain wakes the workers.
TokensOK ==
    /\ Tokens <= SemaphoreLimit /\ Len(queue) <= MaxQueueDepth
    /\ runtimeState = 0 => Tokens = 0
    /\ \A c \in Clients : /\ pc[c] = "start" => Tokens = 0 /\ ~stopped
                          /\ pc[c] = "start_failed" => Tokens <= WorkerCount
    /\ runtimeState = 2 /\ ~stopped => Tokens = Len(queue)
    /\ drains = 0 => pc[Drainer] = "idle" /\ (runtimeState = 2 => ~stopped)
    /\ pc[Drainer] \in UnwokenLabels => Tokens <= MaxQueueDepth

----------------------------------------
(* The tokens *)

\* Tokens of thread t: it owes one, or has taken one.
Carries(t, l) ==
    IF (t \in Workers /\ l = "w_dequeue") \/ (t \in Clients /\ l = "q_signal") THEN 1 ELSE 0

\* Thread t moves to label l: the tokens change by what it carries.
LEMMA TokensMove ==
    ASSUME TypeOK, NEW t \in Threads, NEW l, pc' = [pc EXCEPT ![t] = l], semaphore' \in Nat
    PROVE  /\ Tokens \in Nat /\ Tokens' \in Nat
           /\ Tokens' = Tokens + semaphore' - semaphore + Carries(t, l) - Carries(t, pc[t])
           /\ Carries(t, pc[t]) <= Tokens - semaphore
<1>1. Dequeuing \in SUBSET Threads /\ Dequeuing' \in SUBSET Threads
  BY Constant DEF Dequeuing
<1>2. Signalling \in SUBSET Threads /\ Signalling' \in SUBSET Threads
  BY Constant DEF Signalling
<1>3. Dequeuing' \ {t} = Dequeuing \ {t} /\ Signalling' \ {t} = Signalling \ {t}
  BY Constant DEF Dequeuing, Signalling, TypeOK
<1>4. /\ t \in Dequeuing <=> t \in Workers /\ pc[t] = "w_dequeue"
      /\ t \in Dequeuing' <=> t \in Workers /\ l = "w_dequeue"
      /\ t \in Signalling <=> t \in Clients /\ pc[t] = "q_signal"
      /\ t \in Signalling' <=> t \in Clients /\ l = "q_signal"
  BY DEF Dequeuing, Signalling, TypeOK
<1>5. Change(Dequeuing, Dequeuing', t)
  BY <1>1, <1>3, OneThread DEF Change
<1>6. Change(Signalling, Signalling', t)
  BY <1>2, <1>3, OneThread DEF Change
<1>7. ~(t \in Workers /\ t \in Clients)
  BY Constant
<1> DEFINE d == Cardinality(Dequeuing)
           e == Cardinality(Dequeuing')
           s == Cardinality(Signalling)
           r == Cardinality(Signalling')
           n == semaphore'
<1>8. d \in Nat /\ e \in Nat /\ s \in Nat /\ r \in Nat /\ semaphore \in Nat /\ n \in Nat
  BY <1>5, <1>6 DEF Change, TypeOK
<1>9. Tokens = semaphore + d + s /\ Tokens' = n + e + r
  BY DEF Tokens
<1>10. CASE t \in Workers
  <2>1. Carries(t, l) = (IF t \in Dequeuing' THEN 1 ELSE 0) /\ Carries(t, pc[t]) = (IF t \in Dequeuing THEN 1 ELSE 0)
    BY <1>4, <1>7, <1>10 DEF Carries
  <2>2. r = s
    BY <1>4, <1>5, <1>6, <1>7, <1>10 DEF Change
  <2>3. /\ (t \in Dequeuing' <=> t \in Dequeuing) => e = d
        /\ t \in Dequeuing' /\ t \notin Dequeuing => e = d + 1
        /\ t \in Dequeuing /\ t \notin Dequeuing' => e = d - 1
        /\ t \in Dequeuing => d >= 1
    BY <1>1, <1>2, Constant, FS_Subset, FS_EmptySet, <1>5, <1>6, <1>8 DEF Change
  <2> DEFINE a == Carries(t, pc[t])
             b == Carries(t, l)
  <2>4. /\ a \in {0, 1} /\ b \in {0, 1}
        /\ e = d + b - a /\ a <= d
    BY <1>8, <2>1, <2>3
  <2> HIDE DEF d, e, s, r, n, a, b
  <2>5. /\ n + e + r = semaphore + d + s + n - semaphore + b - a
        /\ a <= (semaphore + d + s) - semaphore
    BY <1>8, <2>2, <2>4
  <2>6. semaphore + d + s \in Nat /\ n + e + r \in Nat
    BY <1>8
  <2>7. Tokens \in Nat /\ Tokens' \in Nat
    BY <1>9, <2>6
  <2>8. Tokens' = Tokens + n - semaphore + b - a
    BY <1>9, <2>5, Zenon
  <2>9. a <= Tokens - semaphore
    BY <1>9, <2>5, Zenon
  <2> QED
    BY <2>7, <2>8, <2>9, Zenon DEF a, b, n
<1>11. CASE t \notin Workers
  <2>1. Carries(t, l) = (IF t \in Signalling' THEN 1 ELSE 0) /\ Carries(t, pc[t]) = (IF t \in Signalling THEN 1 ELSE 0)
    BY <1>4, <1>7, <1>11 DEF Carries
  <2>2. e = d
    BY <1>4, <1>5, <1>6, <1>7, <1>11 DEF Change
  <2>3. /\ (t \in Signalling' <=> t \in Signalling) => r = s
        /\ t \in Signalling' /\ t \notin Signalling => r = s + 1
        /\ t \in Signalling /\ t \notin Signalling' => r = s - 1
        /\ t \in Signalling => s >= 1
    BY <1>1, <1>2, Constant, FS_Subset, FS_EmptySet, <1>5, <1>6, <1>8 DEF Change
  <2> DEFINE a == Carries(t, pc[t])
             b == Carries(t, l)
  <2>4. /\ a \in {0, 1} /\ b \in {0, 1}
        /\ r = s + b - a /\ a <= s
    BY <1>8, <2>1, <2>3
  <2> HIDE DEF d, e, s, r, n, a, b
  <2>5. /\ n + e + r = semaphore + d + s + n - semaphore + b - a
        /\ a <= (semaphore + d + s) - semaphore
    BY <1>8, <2>2, <2>4
  <2>6. semaphore + d + s \in Nat /\ n + e + r \in Nat
    BY <1>8
  <2>7. Tokens \in Nat /\ Tokens' \in Nat
    BY <1>9, <2>6
  <2>8. Tokens' = Tokens + n - semaphore + b - a
    BY <1>9, <2>5, Zenon
  <2>9. a <= Tokens - semaphore
    BY <1>9, <2>5, Zenon
  <2> QED
    BY <2>7, <2>8, <2>9, Zenon DEF a, b, n
<1> QED
  BY <1>10, <1>11

\* A step that leaves the runtime, the queue and the tokens alone.
Calm(t, l) ==
    /\ pc' = [pc EXCEPT ![t] = l] /\ pc[t] # l
    /\ UNCHANGED <<runtimeState, stopped, queue, semaphore, drains>>
    /\ pc[t] \notin {"w_dequeue", "q_signal"}
    /\ l \notin {"w_dequeue", "q_signal", "start", "start_failed"}
    /\ t = Drainer => pc[t] # "idle" /\ (l \in UnwokenLabels => pc[t] \in UnwokenLabels)

\* Such a step keeps the tokens within the limit.
LEMMA CalmStep ==
    ASSUME AsyncInv, TokensOK, NEW t \in Threads, NEW l, Calm(t, l)
    PROVE  TokensOK'
<1>1. Tokens' = Tokens /\ Tokens \in Nat
  <2>1. pc' = [pc EXCEPT ![t] = l] /\ semaphore' = semaphore /\ semaphore \in Nat /\ TypeOK
    BY DEF Calm, AsyncInv, TypeOK
  <2>2. Carries(t, l) = 0 /\ Carries(t, pc[t]) = 0
    BY DEF Calm, Carries
  <2>3. /\ Tokens \in Nat /\ Tokens' \in Nat
        /\ Tokens' = Tokens + semaphore' - semaphore + Carries(t, l) - Carries(t, pc[t])
    BY <2>1, TokensMove
  <2> HIDE DEF Tokens
  <2> QED
    BY <2>1, <2>2, <2>3
<1>2. /\ \A c \in Clients : pc'[c] \in {"start", "start_failed"} => pc'[c] = pc[c]
      /\ pc'[Drainer] = pc[Drainer] \/ (t = Drainer /\ pc'[Drainer] = l)
  BY Constant DEF AsyncInv, TypeOK, Calm
<1>3. WorkerCount' = WorkerCount /\ SemaphoreLimit' = SemaphoreLimit /\ MaxQueueDepth \in Nat
  BY Constant DEF WorkerCount, SemaphoreLimit
<1> QED
  BY <1>1, <1>2, <1>3 DEF TokensOK, Calm

\* The steps of CompleteOperation are calm.
LEMMA CompleteCalm ==
    ASSUME AsyncInv, NEW t \in Threads, CompleteOperation(t)
    PROVE  \E l : Calm(t, l)
<1>1. pc[t] \in CompleteLabels
  BY DEF CompleteOperation, TryComplete, PublishCompletion, SignalCompletion, InvokeCallback,
       LeaveComplete, Goto
<1>2. AfterComplete(t) \in {"idle", "w_clear", "d_release"} /\ (t = Drainer => AfterComplete(t) = "d_release")
  BY <1>1, InsideComplete DEF AsyncInv
<1>3. PICK l \in CompleteLabels \cup {AfterComplete(t)} : pc' = [pc EXCEPT ![t] = l] /\ pc[t] # l
  BY <1>2 DEF CompleteOperation, TryComplete, PublishCompletion, SignalCompletion, InvokeCallback,
       LeaveComplete, Goto
<1>4. UNCHANGED <<runtimeState, stopped, queue, semaphore, drains>>
  BY DEF CompleteOperation, TryComplete, PublishCompletion, SignalCompletion, InvokeCallback,
         runtimeVars, drainVars
<1>5. Calm(t, l)
  BY <1>1, <1>2, <1>3, <1>4 DEF Calm, UnwokenLabels
<1> QED
  BY <1>5

\* The steps of a client that neither start the runtime nor touch the queue.
LEMMA ClientCalm ==
    ASSUME AsyncInv, NEW c \in Clients,
           \/ EnsureRunning(c) /\ runtimeState # 0
           \/ QueueClaim(c) \/ QueueCheckCanceled(c) \/ BeginCount(c) \/ BeginClearEvent(c)
           \/ EnqueueAsyncOperation(c) /\ ~QueueAccepts
           \/ QueueRefused(c) \/ CancelSetFlag(c) \/ CancelIfPending(c)
    PROVE  \E l : Calm(c, l)
<1> DEFINE Labels == {"idle", "q_claim", "q_check", "q_begin", "q_clear", "q_enqueue", "q_end",
                      "q_set", "q_release", "x_state", "c_cas"}
           Move(l) == pc' = [pc EXCEPT ![c] = l] /\ pc[c] # l /\ pc[c] \notin {"w_dequeue", "q_signal"}
<1>1. \E l \in Labels : Move(l)
  BY DEF EnsureRunning, Return, Goto, QueueClaim, QueueCheckCanceled, EnterComplete, BeginCount,
     BeginClearEvent, EnqueueAsyncOperation, QueueRefused, EndAsyncOperation, SetDrainEvent,
     CancelSetFlag, CancelIfPending
<1>2. UNCHANGED <<runtimeState, stopped, queue, semaphore, drains>>
  BY DEF EnsureRunning, QueueClaim, QueueCheckCanceled, BeginCount, BeginClearEvent,
         EnqueueAsyncOperation, QueueRefused, EndAsyncOperation, SetDrainEvent, CancelSetFlag,
         CancelIfPending, runtimeVars, drainVars
<1>3. PICK l \in Labels : Move(l)
  BY <1>1
<1>4. Calm(c, l)
  BY <1>2, <1>3, Constant DEF Calm
<1> QED
  BY <1>4

\* The steps of a worker that does not look at the queue.
LEMMA WorkerCalm ==
    ASSUME AsyncInv, NEW w \in Workers,
           \/ RunCheck(w) \/ RunMarkRunning(w) \/ RunWork(w) \/ ClearWorkerOperation(w)
           \/ WorkerReleases(w) \/ WorkerEnds(w)
    PROVE  \E l : Calm(w, l)
<1> DEFINE Labels == {"r_running", "r_work", "c_cas", "w_clear", "w_release", "w_end", "w_set", "w_wait"}
           Move(l) == pc' = [pc EXCEPT ![w] = l] /\ pc[w] # l /\ pc[w] \notin {"w_dequeue", "q_signal"}
<1>1. \E l \in Labels : Move(l)
  BY DEF RunCheck, RunMarkRunning, RunWork, EnterComplete, Goto, ClearWorkerOperation,
     WorkerReleases, WorkerEnds, EndAsyncOperation, SetDrainEvent, Return
<1>2. UNCHANGED <<runtimeState, stopped, queue, semaphore, drains>>
  BY DEF RunCheck, RunMarkRunning, RunWork, ClearWorkerOperation, WorkerReleases, WorkerEnds,
         EndAsyncOperation, SetDrainEvent, runtimeVars, drainVars
<1>3. PICK l \in Labels : Move(l)
  BY <1>1
<1>4. Calm(w, l)
  BY <1>2, <1>3, Constant DEF Calm
<1> QED
  BY <1>4

\* The steps of the drainer that leave the queue and the semaphore alone.
LEMMA DrainCalm ==
    ASSUME AsyncInv,
           \/ DrainNext(Drainer) \/ DrainReleases(Drainer) \/ DrainCancelRunning(Drainer)
           \/ DrainWait(Drainer) \/ DrainTimesOut(Drainer)
    PROVE  \E l : Calm(Drainer, l)
<1> DEFINE Labels == {"c_cas", "d_cancel", "d_end", "d_set", "d_next", "d_wake", "d_join", "d_event", "idle"}
           Move(l) == /\ pc' = [pc EXCEPT ![Drainer] = l] /\ pc[Drainer] # l
                      /\ pc[Drainer] \in DrainLabels \ {"idle"}
                      /\ l \in UnwokenLabels => pc[Drainer] \in UnwokenLabels
<1> USE DEF DrainLabels, UnwokenLabels, SweepLabels, CompleteLabels
<1>1. \E l \in Labels : Move(l)
  BY DEF DrainNext, DrainCancelRunning, EnterComplete, Goto, DrainReleases, EndAsyncOperation,
     SetDrainEvent, Return, DrainWait, DrainTimesOut
<1>2. UNCHANGED <<runtimeState, stopped, queue, semaphore, drains>>
  BY DEF DrainNext, DrainReleases, DrainCancelRunning, DrainWait, DrainTimesOut,
         EndAsyncOperation, SetDrainEvent, runtimeVars, drainVars
<1>3. PICK l \in Labels : Move(l)
  BY <1>1
<1>4. Calm(Drainer, l)
  BY <1>2, <1>3, Constant DEF Calm
<1> QED
  BY <1>4

----------------------------------------
(* The steps that move tokens *)

\* EnsureAsyncRuntimeInitialized starts from a semaphore without tokens.
LEMMA StartTokens ==
    ASSUME AsyncInv, TokensOK, NEW c \in Clients, EnsureRunning(c), runtimeState = 0
    PROVE  TokensOK'
<1>1. /\ pc[c] = "q_ensure" /\ pc' = [pc EXCEPT ![c] = "start"]
      /\ runtimeState' = 1 /\ stopped' = FALSE /\ queue' = <<>> /\ semaphore' = 0 /\ drains' = drains
  BY DEF EnsureRunning, Return, drainVars
<1>2. c \in Threads /\ c # Drainer /\ pc'[Drainer] = pc[Drainer] /\ TypeOK
  BY <1>1, Constant DEF AsyncInv, TypeOK
<1>3. Tokens' = 0
  <2>1. Tokens = 0 /\ semaphore \in Nat
    BY DEF TokensOK, AsyncInv, TypeOK
  <2>2. semaphore' \in Nat /\ Carries(c, "start") = 0 /\ Carries(c, pc[c]) = 0
    BY <1>1 DEF Carries
  <2>3. /\ Tokens \in Nat /\ Tokens' \in Nat
        /\ Tokens' = Tokens + semaphore' - semaphore + Carries(c, "start") - Carries(c, pc[c])
    BY <1>1, <1>2, <2>2, TokensMove
  <2> QED
    BY <1>1, <2>1, <2>2, <2>3
<1>4. \A d \in Clients : pc'[d] = "start_failed" => FALSE
  BY <1>1, <1>2, Constant DEF AsyncInv, TypeOK, RunOK
<1>5. WorkerCount' = WorkerCount /\ SemaphoreLimit' = SemaphoreLimit /\ SemaphoreLimit >= 0
      /\ MaxQueueDepth >= 0 /\ Len(queue') = 0
  BY <1>1, Constant DEF WorkerCount, SemaphoreLimit
<1> QED
  BY <1>1, <1>2, <1>3, <1>4, <1>5 DEF TokensOK

\* The start of the workers: none of them has a token yet.
LEMMA WorkersStart ==
    ASSUME AsyncInv, TokensOK, NEW c \in Clients, StartWorker(c)
    PROVE  TokensOK'
<1>1. pc[c] = "start" /\ UNCHANGED <<stopped, queue, semaphore, drains>> /\ TypeOK
  BY DEF StartWorker, AsyncInv, drainVars
<1>2. PICK t \in Threads, l \in {"w_wait", "q_claim"} :
        /\ pc' = [pc EXCEPT ![t] = l] /\ pc[t] \in {"none", "start"} /\ t # Drainer
        /\ \/ runtimeState' = runtimeState
           \/ runtimeState' = 2 /\ l = "q_claim" /\ t = c
  BY <1>1, Constant DEF StartWorker
<1>3. Tokens' = Tokens /\ Tokens = 0
  <2>1. Tokens = 0
    BY <1>1 DEF TokensOK
  <2>2. semaphore' \in Nat /\ semaphore' = semaphore /\ Carries(t, l) = 0 /\ Carries(t, pc[t]) = 0
    BY <1>1, <1>2 DEF Carries, TypeOK
  <2>3. Tokens' = Tokens + semaphore' - semaphore + Carries(t, l) - Carries(t, pc[t])
    BY <1>1, <1>2, <2>2, TokensMove
  <2> QED
    BY <1>1, <2>1, <2>2, <2>3 DEF TypeOK
<1>4. /\ \A d \in Clients : pc'[d] \in {"start", "start_failed"} => pc'[d] = pc[d]
      /\ pc'[Drainer] = pc[Drainer]
  BY <1>1, <1>2, Constant DEF TypeOK
<1>5. queue = <<>> /\ Len(queue) = 0 /\ ~stopped
  BY <1>1 DEF AsyncInv, RunOK, TokensOK
<1>6. WorkerCount' = WorkerCount /\ SemaphoreLimit' = SemaphoreLimit /\ SemaphoreLimit >= 0
      /\ MaxQueueDepth >= 0
  BY Constant DEF WorkerCount, SemaphoreLimit
<1> QED
  BY <1>1, <1>2, <1>3, <1>4, <1>5, <1>6 DEF TokensOK

\* The wakes of a failed start: twice a token per worker still fits.
LEMMA StartFails ==
    ASSUME AsyncInv, TokensOK, NEW c \in Clients,
           StartWorkerFails(c) \/ StartFailedWake(c) \/ StartFailedJoin(c)
    PROVE  TokensOK'
<1> USE DEF AsyncInv
<1>1. CASE StartWorkerFails(c)
  <2>1. /\ pc[c] = "start" /\ stopped' = TRUE /\ semaphore' = semaphore + WorkerCount
        /\ UNCHANGED <<runtimeState, queue, drains>>
    BY <1>1 DEF StartWorkerFails, drainVars
  <2>2. PICK w \in Workers : pc[w] = "none" /\ \E created \in BOOLEAN :
          pc' = [pc EXCEPT ![c] = "start_failed", ![w] = IF created THEN "w_wait" ELSE @]
    BY <1>1 DEF StartWorkerFails
  <2>3. /\ c \in Threads /\ c # w /\ w \notin Clients /\ c # Drainer /\ pc'[c] = "start_failed"
        /\ pc'[w] \in {"none", "w_wait"} /\ \A u \in Threads \ {c, w} : pc'[u] = pc[u]
        /\ pc'[Drainer] = pc[Drainer]
    BY <2>2, Constant DEF TypeOK
  <2>4. Dequeuing' = Dequeuing /\ Signalling' = Signalling
    BY <2>1, <2>2, <2>3, Constant DEF Dequeuing, Signalling
  <2>5. Tokens = 0 /\ Tokens' = Tokens + WorkerCount
    <3>1. Cardinality(Dequeuing) \in Nat /\ Cardinality(Signalling) \in Nat /\ semaphore \in Nat
      BY Constant, FS_Subset, FS_CardinalityType DEF Dequeuing, Signalling, TypeOK
    <3>2. Tokens = 0
      BY <2>1 DEF TokensOK
    <3> QED
      BY <2>1, <2>4, <3>1, <3>2, Constant DEF Tokens
  <2>6. runtimeState = 1 /\ \A d \in Clients : pc'[d] # "start"
    BY <2>1, <2>3, Constant DEF RunOK
  <2>7. pc[Drainer] = "idle"
    BY <2>6 DEF RunOK
  <2>8. WorkerCount' = WorkerCount /\ SemaphoreLimit' = SemaphoreLimit
    BY DEF WorkerCount, SemaphoreLimit
  <2> QED
    BY <2>1, <2>3, <2>5, <2>6, <2>7, <2>8, Constant DEF TokensOK, UnwokenLabels
<1>2. CASE StartFailedWake(c)
  <2>1. /\ pc[c] = "start_failed" /\ pc' = [pc EXCEPT ![c] = "start_join"]
        /\ semaphore' = semaphore + WorkerCount /\ UNCHANGED <<runtimeState, stopped, queue, drains>>
    BY <1>2 DEF StartFailedWake, Goto, drainVars
  <2>2. c \in Threads /\ semaphore \in Nat /\ semaphore' \in Nat /\ c # Drainer /\ pc'[Drainer] = pc[Drainer]
    BY <2>1, Constant DEF TypeOK
  <2>3. Carries(c, pc[c]) = 0 /\ Carries(c, "start_join") = 0
    BY <2>1 DEF Carries
  <2>4. Tokens' = Tokens + WorkerCount /\ Tokens \in Nat /\ Tokens <= WorkerCount
    <3>1. Tokens' = Tokens + semaphore' - semaphore + Carries(c, "start_join") - Carries(c, pc[c])
          /\ Tokens \in Nat
      BY <2>1, <2>2, TokensMove
    <3> QED
      BY <2>1, <2>2, <2>3, <3>1, Constant DEF TokensOK
  <2>5. /\ runtimeState = 1 /\ pc[Drainer] = "idle"
        /\ \A d \in Clients : pc'[d] \notin {"start", "start_failed"}
    BY <2>1, <2>2, Constant DEF RunOK, TypeOK
  <2>6. WorkerCount <= MaxQueueDepth /\ WorkerCount' = WorkerCount /\ SemaphoreLimit' = SemaphoreLimit
    BY RuntimeAssumption DEF WorkerCount, SemaphoreLimit
  <2> QED
    BY <2>1, <2>2, <2>4, <2>5, <2>6, Constant DEF TokensOK, UnwokenLabels
<1>3. CASE StartFailedJoin(c)
  <2>1. /\ pc[c] = "start_join" /\ pc' = [pc EXCEPT ![c] = "idle"]
        /\ runtimeState' = 3 /\ UNCHANGED <<stopped, queue, semaphore, drains>>
    BY <1>3 DEF StartFailedJoin, Return, Goto, drainVars
  <2>2. c \in Threads /\ semaphore \in Nat /\ semaphore' \in Nat /\ c # Drainer /\ pc'[Drainer] = pc[Drainer]
    BY <2>1, Constant DEF TypeOK
  <2>3. Carries(c, pc[c]) = 0 /\ Carries(c, "idle") = 0
    BY <2>1 DEF Carries
  <2>4. Tokens' = Tokens
    <3>1. Tokens' = Tokens + semaphore' - semaphore + Carries(c, "idle") - Carries(c, pc[c])
          /\ Tokens \in Nat
      BY <2>1, <2>2, TokensMove
    <3> QED
      BY <2>1, <2>2, <2>3, <3>1
  <2>5. \A d \in Clients : pc'[d] \in {"start", "start_failed"} => pc'[d] = pc[d]
    BY <2>1, <2>2, Constant DEF TypeOK
  <2>6. WorkerCount' = WorkerCount /\ SemaphoreLimit' = SemaphoreLimit
    BY DEF WorkerCount, SemaphoreLimit
  <2> QED
    BY <2>1, <2>2, <2>4, <2>5, <2>6, Constant DEF TokensOK
<1> QED
  BY <1>1, <1>2, <1>3

\* A step of one client or worker behind the start: it keeps the drainer and the starters.
LEMMA QuietFrame ==
    ASSUME AsyncInv, NEW t \in Threads, t # Drainer, NEW l, pc' = [pc EXCEPT ![t] = l],
           l \notin {"start", "start_failed"}
    PROVE  /\ \A c \in Clients : pc'[c] \in {"start", "start_failed"} => pc'[c] = pc[c]
           /\ pc'[Drainer] = pc[Drainer]
           /\ WorkerCount' = WorkerCount /\ SemaphoreLimit' = SemaphoreLimit /\ MaxQueueDepth \in Nat
           /\ WorkerCount \in Nat /\ SemaphoreLimit = MaxQueueDepth + WorkerCount
BY Constant DEF AsyncInv, TypeOK, WorkerCount, SemaphoreLimit

\* Linking an operation and owing its token.
LEMMA EnqueueTokens ==
    ASSUME AsyncInv, TokensOK, NEW c \in Clients, EnqueueAsyncOperation(c), QueueAccepts
    PROVE  TokensOK'
<1> USE DEF AsyncInv
<1>1. /\ pc[c] = "q_enqueue" /\ pc' = [pc EXCEPT ![c] = "q_signal"] /\ queue' = Append(queue, cur[c])
      /\ UNCHANGED <<runtimeState, stopped, semaphore, drains>> /\ ~stopped /\ Len(queue) < MaxQueueDepth
  BY DEF EnqueueAsyncOperation, QueueAccepts, Goto, drainVars
<1>2. c \in Threads /\ c # Drainer /\ c \notin Workers /\ semaphore \in Nat /\ semaphore' \in Nat
      /\ Len(queue) \in Nat /\ Len(queue') = Len(queue) + 1
  BY <1>1, Constant DEF TypeOK
<1>3. Tokens' = Tokens + 1 /\ Tokens \in Nat
  <2>1. Carries(c, pc[c]) = 0 /\ Carries(c, "q_signal") = 1
    BY <1>1 DEF Carries
  <2>2. Tokens' = Tokens + semaphore' - semaphore + Carries(c, "q_signal") - Carries(c, pc[c])
        /\ Tokens \in Nat
    BY <1>1, <1>2, TokensMove
  <2> QED
    BY <1>1, <1>2, <2>1, <2>2
<1>4. runtimeState = 2
  BY <1>1, Constant DEF TypeOK, RunOK
<1>5. Tokens = Len(queue) /\ \A d \in Clients : pc[d] \notin {"start", "start_failed"}
  BY <1>1, <1>4 DEF TokensOK, RunOK
<1>6. pc[Drainer] = "idle"
  BY <1>1 DEF RunOK
<1>7. /\ \A d \in Clients : pc'[d] \in {"start", "start_failed"} => pc'[d] = pc[d]
      /\ pc'[Drainer] = pc[Drainer] /\ WorkerCount' = WorkerCount /\ SemaphoreLimit' = SemaphoreLimit
      /\ MaxQueueDepth \in Nat /\ WorkerCount \in Nat /\ SemaphoreLimit = MaxQueueDepth + WorkerCount
  BY <1>1, <1>2, QuietFrame
<1>8. Tokens' = Len(queue') /\ Tokens' <= MaxQueueDepth /\ Tokens' <= SemaphoreLimit
  BY <1>1, <1>2, <1>3, <1>5, <1>7
<1> QED
  BY <1>1, <1>4, <1>5, <1>6, <1>7, <1>8 DEF TokensOK, UnwokenLabels

\* The token that was owed is released: none is added.
LEMMA SignalTokens ==
    ASSUME AsyncInv, TokensOK, NEW c \in Clients, EnqueueSignal(c)
    PROVE  TokensOK'
<1> USE DEF AsyncInv
<1>1. /\ pc[c] = "q_signal" /\ pc' = [pc EXCEPT ![c] = "idle"] /\ semaphore' = semaphore + 1
      /\ UNCHANGED <<runtimeState, stopped, queue, drains>>
  BY DEF EnqueueSignal, Return, Goto, drainVars
<1>2. c \in Threads /\ c # Drainer /\ semaphore \in Nat /\ semaphore' \in Nat
  BY <1>1, Constant DEF TypeOK
<1>3. Tokens' = Tokens
  <2>1. Carries(c, pc[c]) = 1 /\ Carries(c, "idle") = 0
    BY <1>1 DEF Carries
  <2>2. Tokens' = Tokens + semaphore' - semaphore + Carries(c, "idle") - Carries(c, pc[c])
        /\ Tokens \in Nat
    BY <1>1, <1>2, TokensMove
  <2> QED
    BY <1>1, <1>2, <2>1, <2>2
<1> QED
  BY <1>1, <1>2, <1>3, QuietFrame DEF TokensOK

\* A worker takes a token: it is not used yet.
LEMMA WakeTokens ==
    ASSUME AsyncInv, TokensOK, NEW w \in Workers, WorkerWakes(w)
    PROVE  TokensOK'
<1> USE DEF AsyncInv
<1>1. /\ pc[w] = "w_wait" /\ pc' = [pc EXCEPT ![w] = "w_dequeue"] /\ semaphore' = semaphore - 1
      /\ UNCHANGED <<runtimeState, stopped, queue, drains>> /\ semaphore > 0
  BY DEF WorkerWakes, Goto, drainVars
<1>2. w \in Threads /\ w # Drainer /\ semaphore \in Nat /\ semaphore' \in Nat
  BY <1>1, Constant DEF TypeOK
<1>3. Tokens' = Tokens
  <2>1. Carries(w, pc[w]) = 0 /\ Carries(w, "w_dequeue") = 1
    BY <1>1, Constant DEF Carries
  <2>2. Tokens' = Tokens + semaphore' - semaphore + Carries(w, "w_dequeue") - Carries(w, pc[w])
        /\ Tokens \in Nat
    BY <1>1, <1>2, TokensMove
  <2> QED
    BY <1>1, <1>2, <2>1, <2>2
<1> QED
  BY <1>1, <1>2, <1>3, QuietFrame DEF TokensOK

\* A dequeue uses a token, for the head of the queue or for nothing once it has stopped.
LEMMA DequeueTokens ==
    ASSUME AsyncInv, TokensOK, NEW w \in Workers, DequeueAsyncOperation(w) \/ DequeueNothing(w)
    PROVE  TokensOK'
<1> USE DEF AsyncInv
<1>1. PICK l \in {"r_check", "exited", "w_wait"} :
        /\ pc[w] = "w_dequeue" /\ pc' = [pc EXCEPT ![w] = l]
        /\ UNCHANGED <<runtimeState, stopped, semaphore, drains>>
        /\ \/ queue # <<>> /\ queue' = Tail(queue)
           \/ queue = <<>> /\ queue' = queue
  BY DEF DequeueAsyncOperation, DequeueNothing, Goto, runtimeVars, drainVars
<1>2. w \in Threads /\ w # Drainer /\ semaphore \in Nat /\ semaphore' \in Nat
  BY <1>1, Constant DEF TypeOK
<1>3. Tokens' = Tokens - 1 /\ Tokens \in Nat /\ Tokens >= 1
  <2>1. Carries(w, pc[w]) = 1 /\ Carries(w, l) = 0
    BY <1>1, Constant DEF Carries
  <2>2. /\ Tokens' = Tokens + semaphore' - semaphore + Carries(w, l) - Carries(w, pc[w])
        /\ Tokens \in Nat /\ Carries(w, pc[w]) <= Tokens - semaphore
    BY <1>1, <1>2, TokensMove
  <2> QED
    BY <1>1, <1>2, <2>1, <2>2
<1>4. /\ queue # <<>> => Len(queue') = Len(queue) - 1
      /\ queue = <<>> => Len(queue') = Len(queue) /\ Len(queue) = 0
      /\ Len(queue) \in Nat
  BY <1>1 DEF TypeOK
<1>5. runtimeState = 2 /\ ~stopped => queue # <<>>
  BY <1>3, <1>4 DEF TokensOK
<1>6. /\ \A d \in Clients : pc'[d] \in {"start", "start_failed"} => pc'[d] = pc[d]
      /\ pc'[Drainer] = pc[Drainer] /\ WorkerCount' = WorkerCount /\ SemaphoreLimit' = SemaphoreLimit
      /\ MaxQueueDepth \in Nat /\ WorkerCount \in Nat /\ SemaphoreLimit = MaxQueueDepth + WorkerCount
  BY <1>1, <1>2, QuietFrame
<1>7. /\ Tokens' <= Tokens /\ Tokens # 0 /\ Len(queue') <= Len(queue) /\ Tokens' \in Nat /\ Len(queue') \in Nat
      /\ runtimeState = 2 /\ ~stopped => Tokens' = Len(queue')
  BY <1>3, <1>4, <1>5 DEF TokensOK
<1>8. \A d \in Clients : pc'[d] # "start"
  BY <1>6, <1>7 DEF TokensOK
<1>9. Tokens' <= SemaphoreLimit /\ Len(queue') <= MaxQueueDepth
  BY <1>3, <1>4, <1>6, <1>7 DEF TokensOK
<1>10. \A d \in Clients : pc'[d] = "start_failed" => Tokens' <= WorkerCount
  BY <1>3, <1>6, <1>7 DEF TokensOK
<1>11. pc'[Drainer] \in UnwokenLabels => Tokens' <= MaxQueueDepth
  BY <1>3, <1>6, <1>7 DEF TokensOK
<1> QED
  BY <1>1, <1>6, <1>7, <1>8, <1>9, <1>10, <1>11 DEF TokensOK

\* The steps of the drain: it stops a queue whose operations have one token each,
\* and adds a token per worker once.
LEMMA DrainTokens ==
    ASSUME AsyncInv, TokensOK, MaxDrains <= 1,
           \/ DrainEnter(Drainer) \/ DrainUnlink(Drainer) \/ WakeAsyncWorkers(Drainer)
           \/ DrainJoined(Drainer)
    PROVE  TokensOK'
<1> USE DEF AsyncInv
<1> DEFINE l == pc'[Drainer]
<1>1. PICK n \in {0, WorkerCount} :
        pc' = [pc EXCEPT ![Drainer] = l] /\ semaphore' = semaphore + n
  BY Constant DEF TypeOK, DrainEnter, Goto, DrainUnlink, DrainJoined, WakeAsyncWorkers
<1>2. Tokens' = Tokens + n /\ Tokens \in Nat /\ n \in Nat
  BY <1>1, Constant, TokensMove DEF TypeOK, Carries
<1>3. \A c \in Clients : pc'[c] = pc[c]
  BY <1>1, Constant DEF TypeOK
<1>4. /\ WorkerCount' = WorkerCount /\ SemaphoreLimit' = SemaphoreLimit /\ MaxQueueDepth \in Nat
      /\ WorkerCount \in Nat /\ SemaphoreLimit = MaxQueueDepth + WorkerCount /\ Len(queue) \in Nat
      /\ drains \in Nat
  BY Constant, RuntimeAssumption DEF WorkerCount, SemaphoreLimit, TypeOK
<1>5. CASE DrainEnter(Drainer)
  BY <1>4, <1>5, RuntimeAssumption, <1>1, <1>2, <1>3 DEF DrainEnter, Goto, TypeOK, TokensOK, RunOK,
     UnwokenLabels
<1>6. CASE DrainUnlink(Drainer)
  <2>1. /\ pc[Drainer] = "d_unlink" /\ pc'[Drainer] = "d_next" /\ queue' = <<>> /\ semaphore' = semaphore
        /\ UNCHANGED <<runtimeState, stopped, drains>>
    BY <1>6, Constant DEF DrainUnlink, Goto, TypeOK
  <2>2. Tokens' = Tokens /\ stopped /\ runtimeState = 2 /\ Len(queue') = 0
    <3>1. n = 0
      BY <1>1, <1>4, <2>1 DEF TypeOK
    <3> QED
      BY <1>2, <2>1, <3>1 DEF RunOK
  <2> QED
    BY <1>3, <1>4, <2>1, <2>2 DEF TokensOK, UnwokenLabels
<1>7. CASE WakeAsyncWorkers(Drainer)
  BY <1>7, Constant, <1>1, <1>2, <1>4, <1>3 DEF WakeAsyncWorkers, Goto, TypeOK, drainVars, RunOK,
     TokensOK, UnwokenLabels
<1>8. CASE DrainJoined(Drainer)
  <2>1. /\ pc[Drainer] = "d_join" /\ pc'[Drainer] = "idle" /\ queue' = <<>> /\ semaphore' = semaphore
        /\ runtimeState' = 3 /\ UNCHANGED <<stopped, drains>>
    BY <1>8, Constant DEF DrainJoined, Goto, TypeOK
  <2>2. /\ Tokens' = Tokens /\ runtimeState = 2 /\ Len(queue') = 0
        /\ \A c \in Clients : pc[c] \notin {"start", "start_failed"}
    <3>1. n = 0
      BY <1>1, <1>4, <2>1 DEF TypeOK
    <3> QED
      BY <1>2, <2>1, <3>1 DEF RunOK
  <2> QED
    BY <1>3, <1>4, <2>1, <2>2 DEF TokensOK, UnwokenLabels
<1> QED
  BY <1>5, <1>6, <1>7, <1>8

----------------------------------------
(* The drain *)

\* The initial state has no tokens.
LEMMA TokensInit == Init => TokensOK
<1> SUFFICES ASSUME Init PROVE TokensOK
  OBVIOUS
<1>1. Dequeuing = {} /\ Signalling = {}
  BY Constant DEF Init, Dequeuing, Signalling
<1>2. Tokens = 0
  BY <1>1, FS_EmptySet DEF Init, Tokens
<1>3. Len(queue) = 0 /\ runtimeState = 0 /\ pc[Drainer] = "idle" /\ ~stopped
  BY Constant DEF Init
<1>4. \A c \in Clients : pc[c] = "idle"
  BY Constant DEF Init
<1> QED
  BY <1>2, <1>3, <1>4, Constant DEF TokensOK, UnwokenLabels

\* Every step keeps the tokens within the limit, while one drain is all there is.
LEMMA TokensNext ==
    ASSUME MaxDrains <= 1, AsyncInv, TokensOK, [Next]_vars
    PROVE  TokensOK'
<1>1. CASE UNCHANGED vars
  BY <1>1 DEF vars, runtimeVars, drainVars, TokensOK, Tokens, Dequeuing, Signalling, SemaphoreLimit, WorkerCount
<1>2. ASSUME NEW c \in Clients, ClientStep(c)
      PROVE  TokensOK'
  <2>1. CASE EnsureRunning(c) /\ runtimeState = 0
    BY <2>1, StartTokens
  <2>2. CASE StartWorker(c)
    BY <2>2, WorkersStart
  <2>3. CASE StartWorkerFails(c) \/ StartFailedWake(c) \/ StartFailedJoin(c)
    BY <2>3, StartFails
  <2>4. CASE EnqueueAsyncOperation(c) /\ QueueAccepts
    BY <2>4, EnqueueTokens
  <2>5. CASE EnqueueSignal(c)
    BY <2>5, SignalTokens
  <2>6. CASE CompleteOperation(c)
    BY <2>6, CompleteCalm, CalmStep, Constant
  <2>7. CASE \/ EnsureRunning(c) /\ runtimeState # 0
             \/ QueueClaim(c) \/ QueueCheckCanceled(c) \/ BeginCount(c) \/ BeginClearEvent(c)
             \/ EnqueueAsyncOperation(c) /\ ~QueueAccepts
             \/ QueueRefused(c) \/ CancelSetFlag(c) \/ CancelIfPending(c)
    BY <2>7, ClientCalm, CalmStep, Constant
  <2> QED
    BY <1>2, <2>1, <2>2, <2>3, <2>4, <2>5, <2>6, <2>7 DEF ClientStep
<1>3. ASSUME NEW c \in Clients, NEW o \in Ops,
             AsyncOperationCreate(c, o) \/ AsyncOperationRelease(c, o)
      PROVE  TokensOK'
  <2>1. UNCHANGED <<runtimeState, stopped, queue, semaphore, drains, pc>>
    BY <1>3 DEF AsyncOperationCreate, AsyncOperationRelease, runtimeVars, drainVars
  <2> QED
    BY <2>1 DEF TokensOK, Tokens, Dequeuing, Signalling, SemaphoreLimit, WorkerCount
<1>4. ASSUME NEW c \in Clients, NEW o \in Ops, EnterCall(c, o)
      PROVE  TokensOK'
  <2>1. PICK first \in {"q_ensure", "x_flag"} : pc' = [pc EXCEPT ![c] = first] /\ pc[c] = "idle"
    BY <1>4 DEF EnterCall, Goto
  <2>2. Calm(c, first)
    BY <1>4, <2>1, Constant DEF Calm, EnterCall, runtimeVars, drainVars
  <2> QED
    BY <2>2, CalmStep, Constant
<1>5. ASSUME NEW w \in Workers, WorkerStep(w)
      PROVE  TokensOK'
  BY WakeTokens, DequeueTokens, CompleteCalm, CalmStep, Constant, WorkerCalm, <1>5 DEF WorkerStep
<1>6. CASE DrainEnter(Drainer) \/ DrainStep(Drainer)
  BY DrainTokens, CompleteCalm, CalmStep, Constant, DrainCalm, <1>6 DEF DrainStep
<1> QED
  BY <1>1, <1>2, <1>3, <1>4, <1>5, <1>6 DEF Next

\* After a drain that joined the workers nothing is queued, no worker is left and
\* every accepted operation had its callback: whoever held it is gone.
LEMMA InvDrained == AsyncInv => DrainLeavesNothing
<1> SUFFICES ASSUME AsyncInv, drained = "drained"
             PROVE  /\ queue = <<>> /\ unlinked = <<>>
                    /\ \A w \in Workers : pc[w] = "exited"
                    /\ \A o \in Ops : op[o].queued /\ (\A c \in Clients : cur[c] # o)
                                         => op[o].callbacks = 1
  BY DEF DrainLeavesNothing
<1> USE DEF AsyncInv
<1>1. runtimeState = 3 /\ pc[Drainer] = "idle" /\ \A w \in Workers : pc[w] = "exited"
  BY DEF DrainedOK
<1>2. stopped /\ queue = <<>> /\ unlinked = <<>>
  BY <1>1 DEF RunOK
<1>3. \A t \in Threads \ Clients : cur[t] = NoOp
  BY <1>1 DEF Threads, ThreadsOK
<1>4. ASSUME NEW o \in Ops, op[o].queued, \A c \in Clients : cur[c] # o
      PROVE  op[o].callbacks = 1
  BY <1>3, <1>4, Constant, <1>2, FS_EmptySet DEF AcceptedOK, Listed, Holds, Completing, TypeOK,
     Operations, CompletionOK, CompletesOnce
<1> QED
  BY <1>1, <1>2, <1>4

\* A drain that joined the workers has ended every operation the queue accepted, once,
\* and left nothing behind, however often EngineDrainAsync is called and whatever the
\* clients do meanwhile.
THEOREM DrainEndsEverything == Spec => [](DrainLeavesNothing /\ DrainCancelsRunning /\ CompletesOnce)
<1>1. AsyncInv => DrainLeavesNothing /\ DrainCancelsRunning /\ CompletesOnce
  BY InvDrained DEF AsyncInv, CompletionOK
<1> QED
  BY <1>1, AsyncInvariant, PTL

\* In a program that calls EngineDrainAsync once, as a driver does when it unloads, the
\* drain is safe and the semaphore never exceeds the limit that KeReleaseSemaphore enforces.
THEOREM DrainSafe ==
    ASSUME MaxDrains <= 1
    PROVE  Spec => []DrainIsSafe
<1>1. AsyncInv /\ TokensOK => DrainIsSafe
  <2> SUFFICES ASSUME AsyncInv, TokensOK PROVE SemaphoreWithinLimit
    BY InvDrained DEF AsyncInv, CompletionOK, DrainIsSafe
  <2>1. Cardinality(Dequeuing) \in Nat /\ Cardinality(Signalling) \in Nat /\ semaphore \in Nat
    BY Constant, FS_Subset, FS_CardinalityType DEF Dequeuing, Signalling, AsyncInv, TypeOK
  <2> QED
    BY <2>1, Constant DEF TokensOK, Tokens, SemaphoreWithinLimit
<1>2. Init => AsyncInv /\ TokensOK
  BY AsyncInvInit, TokensInit
<1>3. AsyncInv /\ TokensOK /\ [Next]_vars => AsyncInv' /\ TokensOK'
  BY AsyncInvNext, TokensNext
<1> QED
  BY <1>1, <1>2, <1>3, PTL DEF Spec

----------------------------------------
\* The runtime implements AsyncLifecycle: whatever threads, queue and
\* reference counts do, each operation lives as its caller was promised.
\*
\* A step moves the phase of one operation or of none.  That an accepted
\* operation is never reclaimed, and no completed one before its callback,
\* rests on AsyncInv: whoever releases the last reference has served the
\* operation, and the thread that completes it owns a reference or works
\* under an open handle.


\* Operation o is listed, or a worker or the drainer has it.
Taken(o) == Listed(o) \/ \E t \in Workers \cup {Drainer} : cur[t] = o

Notified == [o \in Ops |-> op[o].callbacks]

\* Nothing that the phase of o depends on changes.
Same(o) == /\ op'[o].memory = op[o].memory /\ op'[o].callbacks = op[o].callbacks
           /\ op'[o].completed <=> op[o].completed
           /\ op[o].memory = "live" /\ ~op[o].completed => (Taken(o)' <=> Taken(o))

----------------------------------------
(* Phases *)

\* An operation is in a list exactly if it has a place there.
LEMMA InList ==
    ASSUME NEW s \in Seq(Ops), NEW o
    PROVE  o \in ToSet(s) <=> \E i \in DOMAIN s : s[i] = o
BY DEF ToSet

\* The phase of an operation, read off its record.
PhaseRead ==
    \A o \in Ops :
       /\ op[o].memory = "absent" => Phase[o] = "absent"
       /\ op[o].memory = "freed" => Phase[o] = "reclaimed"
       /\ op[o].memory = "live" /\ op[o].completed => Phase[o] = "completed"
       /\ op[o].memory = "live" /\ ~op[o].completed /\ Taken(o) => Phase[o] = "accepted"
       /\ op[o].memory = "live" /\ ~op[o].completed /\ ~Taken(o) => Phase[o] = "open"

\* Phase is what PhaseRead says.
LEMMA PhaseIs == TypeOK => PhaseRead
<1> SUFFICES ASSUME TypeOK, NEW o \in Ops
             PROVE  /\ op[o].memory = "absent" => Phase[o] = "absent"
                    /\ op[o].memory = "freed" => Phase[o] = "reclaimed"
                    /\ op[o].memory = "live" /\ op[o].completed => Phase[o] = "completed"
                    /\ op[o].memory = "live" /\ ~op[o].completed /\ Taken(o) => Phase[o] = "accepted"
                    /\ op[o].memory = "live" /\ ~op[o].completed /\ ~Taken(o) => Phase[o] = "open"
  BY DEF PhaseRead
<1>1. queue \in Seq(Ops) /\ unlinked \in Seq(Ops)
  BY DEF TypeOK
<1>2. o \in ToSet(queue) \cup ToSet(unlinked) <=> Listed(o)
  BY <1>1, InList DEF Listed
<1>3. (\/ o \in ToSet(queue) \cup ToSet(unlinked)
       \/ \E t \in Workers \cup {Drainer} : cur[t] = o) <=> Taken(o)
  BY <1>2 DEF Taken
<1>4. op[o].memory \in {"absent", "live", "freed"}
  BY DEF TypeOK, Operations
<1> QED
  BY <1>3, <1>4 DEF Phase

\* An operation of which nothing changes keeps its phase.
LEMMA SamePhase ==
    ASSUME TypeOK, TypeOK', NEW o \in Ops, Same(o)
    PROVE  Phase'[o] = Phase[o]
<1>1. op[o].memory \in {"absent", "live", "freed"}
  BY DEF TypeOK, Operations
<1>2. PhaseRead /\ PhaseRead'
  BY PhaseIs, PTL
<1> QED
  BY <1>1, <1>2 DEF PhaseRead, Same

\* A step that changes no operation is a stutter of the lifecycle.
LEMMA Stutters ==
    ASSUME TypeOK, TypeOK', \A o \in Ops : Same(o)
    PROVE  Phase' = Phase /\ Notified' = Notified
BY SamePhase DEF Phase, Notified, Same

\* A step that changes operation x alone moves its phase alone.
LEMMA OneMoves ==
    ASSUME TypeOK, TypeOK', NEW x \in Ops, \A o \in Ops \ {x} : Same(o)
    PROVE  /\ Phase' = [Phase EXCEPT ![x] = Phase'[x]]
           /\ Notified' = [Notified EXCEPT ![x] = op'[x].callbacks]
<1>1. \A o \in Ops \ {x} : Phase'[o] = Phase[o]
  BY SamePhase
<1>2. Phase = [o \in Ops |-> Phase[o]] /\ Phase' = [o \in Ops |-> Phase'[o]]
  BY DEF Phase
<1>3. Phase' = [Phase EXCEPT ![x] = Phase'[x]]
  BY <1>1, <1>2
<1>4. Notified' = [Notified EXCEPT ![x] = op'[x].callbacks]
  BY DEF Notified, Same
<1> QED
  BY <1>3, <1>4

----------------------------------------
(* Steps that leave every phase alone *)

\* The records keep memory, completion and callbacks; lists, workers and drainer
\* keep their operations.
Untouched ==
    /\ \A o \in Ops : /\ op'[o].memory = op[o].memory /\ op'[o].callbacks = op[o].callbacks
                      /\ op'[o].completed <=> op[o].completed
    /\ UNCHANGED <<queue, unlinked>>
    /\ \A t \in Workers \cup {Drainer} : cur'[t] = cur[t]

\* Such a step changes no operation.
LEMMA UntouchedSame == Untouched => \A o \in Ops : Same(o)
BY DEF Untouched, Same, Taken, Listed

\* The steps of a client except the linking, the completion and the handle's release.
LEMMA ClientUntouched ==
    ASSUME AsyncInv, NEW c \in Clients,
           \/ EnsureRunning(c) \/ StartWorker(c) \/ StartWorkerFails(c) \/ StartFailedWake(c)
           \/ StartFailedJoin(c) \/ QueueClaim(c) \/ QueueCheckCanceled(c) \/ BeginCount(c)
           \/ BeginClearEvent(c) \/ (EnqueueAsyncOperation(c) /\ ~QueueAccepts)
           \/ EnqueueSignal(c) \/ QueueRefused(c) \/ CancelSetFlag(c) \/ CancelIfPending(c)
           \/ \E o \in Ops : EnterCall(c, o)
    PROVE  Untouched
<1> USE DEF AsyncInv
<1>0. /\ c \in Threads /\ c \notin Workers \cup {Drainer}
      /\ op \in [Ops -> Operations] /\ cur \in [Threads -> Ops \cup {NoOp}]
      /\ Workers \cup {Drainer} \subseteq Threads
  BY Constant DEF TypeOK
<1>1. CASE EnsureRunning(c)
  BY <1>0, <1>1 DEF EnsureRunning, Return, Goto, Untouched, RunOK, runtimeVars, drainVars
<1>2. CASE StartWorker(c) \/ StartWorkerFails(c) \/ StartFailedWake(c) \/ StartFailedJoin(c)
  BY <1>0, <1>2 DEF StartWorker, StartWorkerFails, StartFailedWake, StartFailedJoin, Return, Goto,
                    Untouched, drainVars
<1>3. CASE QueueClaim(c)
  BY <1>0, <1>3 DEF QueueClaim, Return, Goto, Untouched, Operations, runtimeVars, drainVars
<1>4. CASE QueueCheckCanceled(c)
  BY <1>0, <1>4 DEF QueueCheckCanceled, EnterComplete, Goto, Untouched, Operations, runtimeVars, drainVars
<1>5. CASE BeginCount(c) \/ BeginClearEvent(c) \/ EnqueueSignal(c)
  BY <1>0, <1>5 DEF BeginCount, BeginClearEvent, EnqueueSignal, Return, Goto, Untouched, runtimeVars, drainVars
<1>6. CASE EnqueueAsyncOperation(c) /\ ~QueueAccepts
  BY <1>0, <1>6 DEF EnqueueAsyncOperation, Goto, Untouched, drainVars
<1>7. CASE QueueRefused(c)
  <2>1. CASE EndAsyncOperation(c, "q_end", "q_set", "q_release") \/ SetDrainEvent(c, "q_set", "q_release")
    BY <1>0, <2>1 DEF EndAsyncOperation, SetDrainEvent, Untouched, runtimeVars, drainVars
  <2>2. CASE /\ Return(c, "q_release", "idle")
             /\ op' = [op EXCEPT ![cur[c]] = [Released(@) EXCEPT !.queued = FALSE]]
             /\ UNCHANGED <<runtimeVars, inFlight, drainEvent, workerOps, verdict, drainVars>>
    <3>1. pc[c] = "q_release" /\ cur[c] \in Ops /\ IsOpen(cur[c])
      BY <1>0, <2>2 DEF Return, Goto, ThreadsOK, PointersOK, TypeOK
    <3>2. c \in Owners(cur[c])
      BY <1>0, <3>1 DEF Owners, OwnsReference
    <3>3. op[cur[c]].refs # 1
      BY <3>1, <3>2, LastReference DEF IsOpen
    <3> QED
      BY <1>0, <2>2, <3>1, <3>3 DEF Return, Released, Operations, Untouched, runtimeVars, drainVars
  <2> QED
    BY <1>7, <2>1, <2>2 DEF QueueRefused
<1>8. CASE CancelSetFlag(c)
  BY <1>0, <1>8 DEF CancelSetFlag, Goto, Untouched, Operations, runtimeVars, drainVars
<1>9. CASE CancelIfPending(c)
  BY <1>0, <1>9 DEF CancelIfPending, EnterComplete, Return, Goto, Untouched, runtimeVars, drainVars
<1>10. CASE \E o \in Ops : EnterCall(c, o)
  BY <1>0, <1>10 DEF EnterCall, Untouched, runtimeVars, drainVars
<1> QED
  BY <1>1, <1>2, <1>3, <1>4, <1>5, <1>6, <1>7, <1>8, <1>9, <1>10

\* The steps of a worker except the dequeue, the completion and the release.
LEMMA WorkerUntouched ==
    ASSUME AsyncInv, NEW w \in Workers,
           \/ WorkerWakes(w) \/ DequeueNothing(w) \/ RunCheck(w) \/ RunMarkRunning(w) \/ RunWork(w)
           \/ ClearWorkerOperation(w) \/ WorkerEnds(w)
    PROVE  Untouched
<1>1. op \in [Ops -> Operations]
  BY DEF AsyncInv, TypeOK
<1>2. UNCHANGED <<queue, unlinked, cur>>
  BY DEF WorkerWakes, DequeueNothing, RunCheck, RunMarkRunning, RunWork, ClearWorkerOperation, WorkerEnds,
         EndAsyncOperation, SetDrainEvent, runtimeVars, drainVars
<1>3. op' = op \/ op' = [op EXCEPT ![cur[w]].state = "Running"]
  BY DEF WorkerWakes, DequeueNothing, RunCheck, RunMarkRunning, RunWork, ClearWorkerOperation, WorkerEnds,
         EndAsyncOperation, SetDrainEvent
<1> QED
  BY <1>1, <1>2, <1>3 DEF Untouched, Operations

\* The steps of the drainer except the unlinking, the completion and the release.
LEMMA DrainUntouched ==
    ASSUME AsyncInv,
           \/ DrainEnter(Drainer) \/ DrainCancelRunning(Drainer) \/ WakeAsyncWorkers(Drainer)
           \/ DrainWait(Drainer) \/ DrainJoined(Drainer) \/ DrainTimesOut(Drainer)
           \/ EndAsyncOperation(Drainer, "d_end", "d_set", "d_next")
           \/ SetDrainEvent(Drainer, "d_set", "d_next")
    PROVE  Untouched
<1>1. op \in [Ops -> Operations]
  BY DEF AsyncInv, TypeOK
<1>2. UNCHANGED <<unlinked, cur>>
  BY DEF DrainEnter, DrainCancelRunning, WakeAsyncWorkers, DrainWait, DrainJoined, DrainTimesOut,
         EndAsyncOperation, SetDrainEvent, drainVars
<1>3. queue' = queue
  BY DEF DrainEnter, DrainCancelRunning, WakeAsyncWorkers, DrainWait, DrainJoined, DrainTimesOut,
         EndAsyncOperation, SetDrainEvent, runtimeVars, Goto, AsyncInv, RunOK
<1>4. CASE DrainCancelRunning(Drainer)
  BY <1>1, <1>2, <1>3, <1>4 DEF DrainCancelRunning, Untouched, Operations
<1>5. CASE ~DrainCancelRunning(Drainer)
  <2>1. op' = op
    BY <1>5 DEF DrainEnter, WakeAsyncWorkers, DrainWait, DrainJoined, DrainTimesOut,
         EndAsyncOperation, SetDrainEvent
  <2> QED
    BY <1>1, <1>2, <1>3, <2>1 DEF Untouched
<1> QED
  BY <1>4, <1>5

----------------------------------------
(* Steps that hand an operation on *)

\* The head of a list, and what is left of it.
LEMMA HeadOrTail ==
    ASSUME NEW s \in Seq(Ops), s # <<>>, NEW o
    PROVE  (\E i \in DOMAIN s : s[i] = o) <=> (o = Head(s) \/ \E i \in DOMAIN Tail(s) : Tail(s)[i] = o)
<1>1. /\ Len(s) \in Nat /\ Len(s) >= 1 /\ DOMAIN s = 1..Len(s) /\ Head(s) = s[1]
      /\ DOMAIN Tail(s) = 1..(Len(s) - 1) /\ \A i \in 1..(Len(s) - 1) : Tail(s)[i] = s[i + 1]
  OBVIOUS
<1>2. ASSUME NEW i \in DOMAIN s, s[i] = o, i # 1
      PROVE  i - 1 \in DOMAIN Tail(s) /\ Tail(s)[i - 1] = o
  BY <1>1, <1>2
<1>3. ASSUME NEW i \in DOMAIN Tail(s), Tail(s)[i] = o
      PROVE  i + 1 \in DOMAIN s /\ s[i + 1] = o
  BY <1>1, <1>3
<1>4. (\E i \in DOMAIN s : s[i] = o) => (o = Head(s) \/ \E i \in DOMAIN Tail(s) : Tail(s)[i] = o)
  <2> SUFFICES ASSUME NEW i \in DOMAIN s, s[i] = o, o # Head(s)
               PROVE  \E j \in DOMAIN Tail(s) : Tail(s)[j] = o
    OBVIOUS
  <2>1. i # 1
    BY <1>1
  <2> QED
    BY <1>2, <2>1
<1>5. (\E i \in DOMAIN Tail(s) : Tail(s)[i] = o) => \E i \in DOMAIN s : s[i] = o
  <2> SUFFICES ASSUME NEW i \in DOMAIN Tail(s), Tail(s)[i] = o
               PROVE  \E j \in DOMAIN s : s[j] = o
    OBVIOUS
  <2> QED
    BY <1>3
<1>6. o = Head(s) => \E i \in DOMAIN s : s[i] = o
  BY <1>1
<1> QED
  BY <1>4, <1>5, <1>6

\* A dequeued operation goes from the queue to the worker; an unlinked one to the drainer.
LEMMA HandedOn ==
    ASSUME AsyncInv,
           \/ \E w \in Workers : DequeueAsyncOperation(w)
           \/ DrainUnlink(Drainer) \/ DrainNext(Drainer)
    PROVE  \A o \in Ops : Same(o)
<1> USE DEF AsyncInv
<1>1. /\ op \in [Ops -> Operations] /\ cur \in [Threads -> Ops \cup {NoOp}] /\ NoOp \notin Ops
      /\ Workers \cup {Drainer} \subseteq Threads /\ queue \in Seq(Ops) /\ unlinked \in Seq(Ops)
  BY Constant DEF TypeOK
<1>2. ASSUME NEW w \in Workers, DequeueAsyncOperation(w), NEW o \in Ops
      PROVE  Same(o)
  <2>1. /\ queue # <<>> /\ queue' = Tail(queue) /\ cur' = [cur EXCEPT ![w] = Head(queue)]
        /\ pc[w] = "w_dequeue" /\ UNCHANGED <<op, unlinked>>
    BY <1>2 DEF DequeueAsyncOperation, Goto, drainVars
  <2>2. cur[w] = NoOp
    BY <2>1 DEF ThreadsOK
  <2>3. (\E i \in DOMAIN queue : queue[i] = o) <=> (o = Head(queue) \/ \E i \in DOMAIN Tail(queue) : Tail(queue)[i] = o)
    BY <1>1, <2>1, HeadOrTail, Zenon
  <2>4. (\E t \in Workers \cup {Drainer} : cur'[t] = o)
          <=> (o = Head(queue) \/ \E t \in Workers \cup {Drainer} : cur[t] = o)
    BY <1>1, <2>1, <2>2
  <2>5. Taken(o)' <=> Taken(o)
    BY <2>1, <2>3, <2>4 DEF Taken, Listed
  <2> QED
    BY <2>1, <2>5 DEF Same
<1>3. ASSUME DrainUnlink(Drainer), NEW o \in Ops
      PROVE  Same(o)
  BY <1>3 DEF DrainUnlink, Goto, RunOK, Taken, Listed, Same
<1>4. ASSUME DrainNext(Drainer), NEW o \in Ops
      PROVE  Same(o)
  <2>1. CASE unlinked = <<>>
    BY <1>4, <2>1 DEF DrainNext, runtimeVars, Same, Taken, Listed
  <2>2. CASE unlinked # <<>>
    <3>1. /\ unlinked' = Tail(unlinked) /\ cur' = [cur EXCEPT ![Drainer] = Head(unlinked)]
          /\ pc[Drainer] = "d_next" /\ UNCHANGED <<op, queue>>
      BY <1>4, <2>2 DEF DrainNext, EnterComplete, Goto, runtimeVars
    <3>2. cur[Drainer] = NoOp
      BY <3>1 DEF ThreadsOK
    <3>3. (\E i \in DOMAIN unlinked : unlinked[i] = o)
            <=> (o = Head(unlinked) \/ \E i \in DOMAIN Tail(unlinked) : Tail(unlinked)[i] = o)
      BY <1>1, <2>2, HeadOrTail, Zenon
    <3>4. (\E t \in Workers \cup {Drainer} : cur'[t] = o)
            <=> (o = Head(unlinked) \/ \E t \in Workers \cup {Drainer} : cur[t] = o)
      BY <1>1, <3>1, <3>2
    <3>5. Taken(o)' <=> Taken(o)
      BY <3>1, <3>3, <3>4 DEF Taken, Listed
    <3> QED
      BY <3>1, <3>5 DEF Same
  <2> QED
    BY <2>1, <2>2
<1> QED
  BY <1>2, <1>3, <1>4

----------------------------------------
(* Steps of the lifecycle *)

\* An object that was never allocated was never completed.
AbsentOK == \A o \in Ops : op[o].memory = "absent" => ~op[o].completed

\* What a step does to the lifecycle.
LifecycleStep == Lifecycle!Next \/ (Phase' = Phase /\ Notified' = Notified)

\* A step that changes no operation.
LEMMA SameStep ==
    ASSUME AsyncInv, AsyncInv', AbsentOK, \A o \in Ops : Same(o)
    PROVE  LifecycleStep /\ AbsentOK'
BY Stutters DEF LifecycleStep, AsyncInv, AbsentOK, Same

\* A step that changes operation x alone.
LEMMA MoveStep ==
    ASSUME AsyncInv, AsyncInv', AbsentOK, NEW x \in Ops, \A o \in Ops \ {x} : Same(o),
           op'[x].memory # "absent"
    PROVE  /\ AbsentOK' /\ PhaseRead /\ PhaseRead'
           /\ Phase' = [Phase EXCEPT ![x] = Phase'[x]]
           /\ op'[x].callbacks = op[x].callbacks => Notified' = Notified
           /\ Notified' = [Notified EXCEPT ![x] = op'[x].callbacks]
           /\ Notified[x] = op[x].callbacks
<1>1. TypeOK /\ TypeOK'
  BY DEF AsyncInv
<1>2. /\ Phase' = [Phase EXCEPT ![x] = Phase'[x]]
      /\ Notified' = [Notified EXCEPT ![x] = op'[x].callbacks]
  BY <1>1, OneMoves
<1>3. PhaseRead /\ PhaseRead'
  BY <1>1, PhaseIs, PTL
<1>4. AbsentOK'
  BY DEF AbsentOK, Same
<1>5. Notified[x] = op[x].callbacks
  BY DEF Notified
<1>6. op'[x].callbacks = op[x].callbacks => Notified' = Notified
  BY <1>2 DEF Notified
<1> QED
  BY <1>2, <1>3, <1>4, <1>5, <1>6

\* A fresh operation is in no list and in nobody's hands.
LEMMA CreateStep ==
    ASSUME AsyncInv, AsyncInv', AbsentOK, NEW c \in Clients, NEW x \in Ops, AsyncOperationCreate(c, x)
    PROVE  LifecycleStep /\ AbsentOK'
<1> USE DEF AsyncInv
<1>1. /\ op[x].memory = "absent" /\ op' = [op EXCEPT ![x] = NewOperation]
      /\ UNCHANGED <<queue, unlinked, cur>> /\ op \in [Ops -> Operations]
  BY DEF AsyncOperationCreate, runtimeVars, drainVars, TypeOK
<1>2. \A o \in Ops \ {x} : Same(o)
  BY <1>1 DEF Same, Taken, Listed
<1>3. ~Taken(x)
  BY <1>1, Constant DEF Taken, Listed, PointersOK
<1>4. ~Taken(x)'
  BY <1>1, <1>3 DEF Taken, Listed
<1>5. op'[x].memory = "live" /\ ~op'[x].completed /\ op'[x].callbacks = 0
  BY <1>1 DEF NewOperation
<1>6. op[x].callbacks = 0
  <2>1. op[x].callbacks + Cardinality(Completing(x)) = 0
    BY <1>1 DEF AbsentOK, CompletionOK, CompletesOnce
  <2>2. op[x].callbacks \in Nat /\ Cardinality(Completing(x)) \in Nat
    BY <1>1, Constant, FS_Subset, FS_CardinalityType DEF Operations, Completing
  <2> QED
    BY <2>1, <2>2
<1>7. /\ AbsentOK' /\ PhaseRead /\ PhaseRead' /\ Phase' = [Phase EXCEPT ![x] = Phase'[x]]
      /\ Notified' = Notified
  BY <1>2, <1>5, <1>6, MoveStep
<1>8. Phase[x] = "absent" /\ Phase'[x] = "open"
  BY <1>1, <1>4, <1>5, <1>7 DEF PhaseRead
<1>9. Lifecycle!Create(x)
  BY <1>7, <1>8 DEF Lifecycle!Create, Lifecycle!Move, Notified
<1> QED
  BY <1>7, <1>9 DEF LifecycleStep, Lifecycle!Next

\* The queue takes an operation: it is accepted, unless a cancellation completed it first.
LEMMA AcceptStep ==
    ASSUME AsyncInv, AsyncInv', AbsentOK, NEW c \in Clients, EnqueueAsyncOperation(c), QueueAccepts
    PROVE  LifecycleStep /\ AbsentOK'
<1> USE DEF AsyncInv
<1>0. pc[c] = "q_enqueue" /\ queue' = Append(queue, cur[c]) /\ UNCHANGED <<op, unlinked, cur>>
  BY DEF EnqueueAsyncOperation, Goto, drainVars
<1>2. PICK x \in Ops : x = cur[c] /\ c \in Threads /\ op[x].memory = "live" /\ queue \in Seq(Ops)
  BY <1>0, Constant DEF ThreadsOK, TypeOK, PointersOK, IsOpen
<1>1. queue' = Append(queue, x) /\ UNCHANGED <<op, unlinked, cur>>
  BY <1>0, <1>2
<1>3. \A o : (\E i \in DOMAIN queue' : queue'[i] = o) <=> (o = x \/ \E i \in DOMAIN queue : queue[i] = o)
  BY <1>1, <1>2
<1>4. Taken(x)' /\ \A o \in Ops \ {x} : Taken(o)' <=> Taken(o)
  BY <1>1, <1>3 DEF Taken, Listed
<1>5. \A o \in Ops \ {x} : Same(o)
  BY <1>1, <1>4 DEF Same
<1>6. /\ AbsentOK' /\ PhaseRead /\ PhaseRead' /\ Phase' = [Phase EXCEPT ![x] = Phase'[x]]
      /\ Notified' = Notified
  BY <1>1, <1>2, <1>5, MoveStep
<1>7. CASE op[x].completed \/ Taken(x)
  <2>1. Same(x)
    BY <1>1, <1>4, <1>7 DEF Same
  <2> QED
    BY <1>5, <2>1, SameStep
<1>8. CASE ~op[x].completed /\ ~Taken(x)
  BY <1>1, <1>2, <1>4, <1>6, <1>8 DEF PhaseRead, Lifecycle!Accept, Lifecycle!Move, Notified,
     LifecycleStep, Lifecycle!Next
<1> QED
  BY <1>7, <1>8

\* CompleteOperation: the compare-and-swap completes, the callback notifies, the rest
\* is not seen from outside.
LEMMA CompleteStep ==
    ASSUME AsyncInv, AsyncInv', AbsentOK, NEW t \in Threads, CompleteOperation(t)
    PROVE  LifecycleStep /\ AbsentOK'
<1> USE DEF AsyncInv
<1>1. pc[t] \in CompleteLabels
  BY DEF CompleteOperation, TryComplete, PublishCompletion, SignalCompletion, InvokeCallback,
       LeaveComplete, Goto
<1>2. PICK x \in Ops : x = cur[t] /\ (t \in Clients => t \notin Workers \cup {Drainer})
  BY <1>1, InsideComplete
<1>3. op[x].memory = "live" /\ op \in [Ops -> Operations] /\ cur \in [Threads -> Ops \cup {NoOp}]
      /\ Workers \cup {Drainer} \subseteq Threads
  BY <1>1, <1>2, Constant DEF PointersOK, IsOpen, TypeOK
<1>4. /\ UNCHANGED <<queue, unlinked>>
      /\ cur' = cur \/ cur' = [cur EXCEPT ![t] = IF t \in Clients THEN NoOp ELSE @]
  BY DEF CompleteOperation, TryComplete, PublishCompletion, SignalCompletion, InvokeCallback,
         LeaveComplete, runtimeVars, drainVars
<1>5. \A u \in Workers \cup {Drainer} : cur'[u] = cur[u]
  BY <1>2, <1>3, <1>4
<1>6. \A o \in Ops : Taken(o)' <=> Taken(o)
  BY <1>4, <1>5 DEF Taken, Listed
<1>7. CASE pc[t] = "c_cas" /\ ~op[x].completed
  <2>1. op' = [op EXCEPT ![x].completed = TRUE]
    BY <1>2, <1>7 DEF CompleteOperation, TryComplete, PublishCompletion, SignalCompletion, InvokeCallback,
                LeaveComplete, Goto
  <2>2. /\ op'[x].completed /\ op'[x].memory = "live" /\ op'[x].callbacks = op[x].callbacks
        /\ \A o \in Ops \ {x} : op'[o] = op[o]
    BY <1>2, <1>3, <2>1 DEF Operations
  <2>3. \A o \in Ops \ {x} : Same(o)
    BY <1>6, <2>2 DEF Same
  <2>4. /\ AbsentOK' /\ PhaseRead /\ PhaseRead' /\ Phase' = [Phase EXCEPT ![x] = Phase'[x]]
        /\ Notified' = Notified
    BY <1>2, <2>2, <2>3, MoveStep
  <2>5. Phase[x] \in {"open", "accepted"} /\ Phase'[x] = "completed"
    BY <1>2, <1>3, <1>7, <2>2, <2>4 DEF PhaseRead
  <2>6. Lifecycle!Complete(x)
    BY <2>4, <2>5 DEF Lifecycle!Complete, Lifecycle!Move, Notified
  <2> QED
    BY <1>2, <2>4, <2>6 DEF LifecycleStep, Lifecycle!Next
<1>8. CASE pc[t] = "c_callback"
  <2>1. op' = [op EXCEPT ![x].callbacks = @ + 1]
    BY <1>2, <1>8 DEF CompleteOperation, TryComplete, PublishCompletion, SignalCompletion, InvokeCallback,
                LeaveComplete, Goto
  <2>2. /\ op'[x].completed <=> op[x].completed
        /\ op'[x].memory = "live" /\ op'[x].callbacks = op[x].callbacks + 1
        /\ \A o \in Ops \ {x} : op'[o] = op[o]
    BY <1>2, <1>3, <2>1 DEF Operations
  <2>3. \A o \in Ops \ {x} : Same(o)
    BY <1>6, <2>2 DEF Same
  <2>4. op[x].completed /\ op[x].callbacks = 0
    <3>1. t \in Completing(x) /\ IsFiniteSet(Completing(x))
      BY <1>2, <1>8, Constant, FS_Subset DEF Completing
    <3>2. Cardinality(Completing(x)) \in Nat /\ Cardinality(Completing(x)) # 0
      BY <3>1, FS_EmptySet, FS_CardinalityType
    <3>3. op[x].callbacks \in Nat
      BY <1>2, <1>3 DEF Operations
    <3>4. op[x].callbacks + Cardinality(Completing(x)) = IF op[x].completed THEN 1 ELSE 0
      BY <1>2 DEF CompletionOK, CompletesOnce
    <3> QED
      BY <3>2, <3>3, <3>4
  <2>5. /\ AbsentOK' /\ PhaseRead /\ PhaseRead' /\ Phase' = [Phase EXCEPT ![x] = Phase'[x]]
        /\ Notified' = [Notified EXCEPT ![x] = op'[x].callbacks] /\ Notified[x] = op[x].callbacks
    BY <1>2, <2>2, <2>3, MoveStep
  <2>6. Phase[x] = "completed" /\ Phase'[x] = "completed"
    BY <1>2, <1>3, <2>2, <2>4, <2>5 DEF PhaseRead
  <2>7. Phase' = Phase
    BY <1>2, <2>5, <2>6 DEF Phase
  <2>8. Notified' = [Notified EXCEPT ![x] = 1] /\ Notified[x] = 0
    <3>1. op'[x].callbacks = 1
      BY <2>2, <2>4
    <3> QED
      BY <2>4, <2>5, <3>1
  <2>9. Lifecycle!Notify(x)
    BY <2>6, <2>7, <2>8 DEF Lifecycle!Notify, Notified
  <2> QED
    BY <1>2, <2>5, <2>9 DEF LifecycleStep, Lifecycle!Next
<1>9. CASE pc[t] # "c_callback" /\ ~(pc[t] = "c_cas" /\ ~op[x].completed)
  BY <1>2, <1>9, <1>3, <1>6, SameStep DEF CompleteOperation, TryComplete, PublishCompletion,
     SignalCompletion, InvokeCallback, LeaveComplete, Goto, Operations, Same
<1> QED
  BY <1>7, <1>8, <1>9

\* Thread t, which completes operation o, owns a reference or is a client under an
\* open handle.
LEMMA CompleterHolds ==
    ASSUME AsyncInv, NEW o \in Ops, NEW t \in Completing(o)
    PROVE  /\ t \notin Clients => t \in Owners(o)
           /\ t \in Clients => /\ cur[t] = o /\ pc[t] \in TouchLabels /\ ~op[o].closed
BY Constant DEF AsyncInv, Completing, Owners, OwnsReference, TouchLabels, PointersOK, IsOpen

\* Who releases a reference: a worker or the drainer that has served the operation.
\* If it is the last one, no thread completes it any more, so that its callback has run.
LEMMA ReleaseStep ==
    ASSUME AsyncInv, AsyncInv', AbsentOK, NEW t \in Workers \cup {Drainer},
           pc[t] \in {"w_release", "d_release"}, UNCHANGED <<queue, unlinked>>,
           op' = [op EXCEPT ![cur[t]] = Released(@)], cur' = [cur EXCEPT ![t] = NoOp]
    PROVE  LifecycleStep /\ AbsentOK'
<1> USE DEF AsyncInv
<1>1. t \in Threads /\ t \notin Clients
  BY Constant
<1>2. PICK x \in Ops : x = cur[t]
  <2>1. cur[t] \in Ops
    BY <1>1, HasOperation
  <2> QED
    BY <2>1
<1>3. op[x].completed /\ op[x].memory = "live" /\ t \in Owners(x)
  BY <1>1, <1>2, Constant DEF CompletionOK, VerdictOK, PointersOK, Owners, OwnsReference
<1>4. op \in [Ops -> Operations] /\ cur \in [Threads -> Ops \cup {NoOp}]
  BY DEF TypeOK
<1>5. /\ op'[x].completed /\ op'[x].callbacks = op[x].callbacks
      /\ op'[x].memory = IF op[x].refs = 1 THEN "freed" ELSE "live"
      /\ \A o \in Ops \ {x} : op'[o] = op[o]
  BY <1>2, <1>3, <1>4 DEF Released, Operations
<1>6. \A o \in Ops \ {x} : Taken(o)' <=> Taken(o)
  BY <1>4, Constant, <1>2 DEF Taken, Listed
<1>7. \A o \in Ops \ {x} : Same(o)
  BY <1>5, <1>6 DEF Same
<1>8. CASE op[x].refs # 1
  <2>1. Same(x)
    BY <1>3, <1>5, <1>8 DEF Same
  <2> QED
    BY <1>7, <2>1, SameStep
<1>9. CASE op[x].refs = 1
  <2>1. op[x].closed /\ Owners(x) = {t}
    BY <1>3, <1>9, LastReference
  <2>2. Completing(x) = {}
    <3> SUFFICES ASSUME NEW u \in Completing(x) PROVE FALSE
      OBVIOUS
    <3>1. u = t
      BY <2>1, CompleterHolds DEF Completing
    <3> QED
      BY <3>1 DEF Completing
  <2>3. op[x].callbacks = 1
    <3>1. op[x].callbacks + Cardinality(Completing(x)) = 1 /\ op[x].callbacks \in Nat
      BY <1>3, <1>4 DEF CompletionOK, CompletesOnce, Operations
    <3> QED
      BY <2>2, <3>1, FS_EmptySet
  <2>4. /\ AbsentOK' /\ PhaseRead /\ PhaseRead' /\ Phase' = [Phase EXCEPT ![x] = Phase'[x]]
        /\ Notified' = Notified /\ Notified[x] = 1
    BY <1>5, <1>7, <1>9, <2>3, MoveStep
  <2>5. Phase[x] = "completed" /\ Phase'[x] = "reclaimed"
    BY <1>3, <1>5, <1>9, <2>4 DEF PhaseRead
  <2>6. Lifecycle!Reclaim(x)
    BY <2>4, <2>5 DEF Lifecycle!Reclaim, Lifecycle!Move, Notified
  <2> QED
    BY <2>4, <2>6 DEF LifecycleStep, Lifecycle!Next
<1> QED
  BY <1>8, <1>9

\* A handle is released: if it was the last reference, nothing is left of the operation
\* anywhere, and it was completed with its callback or never accepted.
LEMMA CloseStep ==
    ASSUME AsyncInv, AsyncInv', AbsentOK, NEW c \in Clients, NEW x \in Ops, AsyncOperationRelease(c, x)
    PROVE  LifecycleStep /\ AbsentOK'
<1> USE DEF AsyncInv
<1>1. /\ op' = [op EXCEPT ![x] = [Released(@) EXCEPT !.closed = TRUE]]
      /\ UNCHANGED <<queue, unlinked, cur>> /\ op[x].memory = "live" /\ ~op[x].closed
      /\ \A d \in Clients : cur[d] = x => pc[d] \notin TouchLabels
  BY DEF AsyncOperationRelease, IsOpen, runtimeVars, drainVars
<1>2. op \in [Ops -> Operations]
  BY DEF TypeOK
<1>3. /\ op'[x].completed <=> op[x].completed
      /\ op'[x].callbacks = op[x].callbacks
      /\ op'[x].memory = IF op[x].refs = 1 THEN "freed" ELSE "live"
      /\ \A o \in Ops \ {x} : op'[o] = op[o]
  BY <1>1, <1>2 DEF Released, Operations
<1>4. \A o \in Ops : Taken(o)' <=> Taken(o)
  BY <1>1 DEF Taken, Listed
<1>5. \A o \in Ops \ {x} : Same(o)
  BY <1>3, <1>4 DEF Same
<1>6. CASE op[x].refs # 1
  <2>1. Same(x)
    BY <1>1, <1>3, <1>4, <1>6 DEF Same
  <2> QED
    BY <1>5, <2>1, SameStep
<1>7. CASE op[x].refs = 1
  <2>1. ~Listed(x) /\ Owners(x) = {}
    BY <1>1, <1>7, LastReference
  <2>2. Completing(x) = {}
    <3> SUFFICES ASSUME NEW u \in Completing(x) PROVE FALSE
      OBVIOUS
    <3> QED
      BY <1>1, <2>1, CompleterHolds
  <2>3. ~Taken(x)
    <3>1. ASSUME NEW t \in Workers \cup {Drainer}, cur[t] = x PROVE FALSE
      BY <3>1, Constant, <2>1 DEF ThreadsOK, Owners, OwnsReference
    <3> QED
      BY <2>1, <3>1 DEF Taken
  <2>4. op[x].completed => op[x].callbacks = 1
    <3>1. op[x].callbacks + Cardinality(Completing(x)) = (IF op[x].completed THEN 1 ELSE 0)
          /\ op[x].callbacks \in Nat
      BY <1>2 DEF CompletionOK, CompletesOnce, Operations
    <3> QED
      BY <2>2, <3>1, FS_EmptySet
  <2>5. /\ AbsentOK' /\ PhaseRead /\ PhaseRead' /\ Phase' = [Phase EXCEPT ![x] = Phase'[x]]
        /\ Notified' = Notified /\ Notified[x] = op[x].callbacks
    BY <1>3, <1>5, <1>7, MoveStep
  <2>6. /\ Phase[x] \in {"open", "completed"} /\ Phase'[x] = "reclaimed"
        /\ Phase[x] = "completed" => op[x].completed
    BY <1>1, <1>3, <1>7, <2>3, <2>5 DEF PhaseRead
  <2>7. Lifecycle!Reclaim(x)
    BY <2>4, <2>5, <2>6 DEF Lifecycle!Reclaim, Lifecycle!Move, Notified
  <2> QED
    BY <2>5, <2>7 DEF LifecycleStep, Lifecycle!Next
<1> QED
  BY <1>6, <1>7

----------------------------------------
(* The refinement *)

\* The initial state maps to the initial state of the lifecycle.
LEMMA LifecycleInit == Init => Lifecycle!Init /\ AbsentOK
<1> SUFFICES ASSUME Init PROVE Lifecycle!Init /\ AbsentOK
  OBVIOUS
<1>1. \A o \in Ops : op[o].memory = "absent" /\ op[o].callbacks = 0 /\ ~op[o].completed
  BY DEF Init, AbsentOperation, NewOperation
<1>2. \A o \in Ops : Phase[o] = "absent"
  BY <1>1 DEF Phase
<1>3. Phase = [o \in Ops |-> "absent"]
  BY <1>2 DEF Phase
<1>4. [o \in Ops |-> op[o].callbacks] = [o \in Ops |-> 0]
  BY <1>1
<1> QED
  BY <1>1, <1>3, <1>4 DEF Lifecycle!Init, AbsentOK

\* Every step maps to a step of the lifecycle or to none.
LEMMA LifecycleNext ==
    ASSUME AsyncInv, AsyncInv', AbsentOK, [Next]_vars
    PROVE  LifecycleStep /\ AbsentOK'
<1>1. CASE UNCHANGED vars
  BY <1>1, UntouchedSame, SameStep DEF vars, runtimeVars, drainVars, Untouched
<1>2. ASSUME NEW c \in Clients, ClientStep(c)
      PROVE  LifecycleStep /\ AbsentOK'
  <2>1. CASE EnqueueAsyncOperation(c) /\ QueueAccepts
    BY <2>1, AcceptStep
  <2>2. CASE CompleteOperation(c)
    BY <2>2, CompleteStep, Constant
  <2>3. CASE ~(EnqueueAsyncOperation(c) /\ QueueAccepts) /\ ~CompleteOperation(c)
    <3>1. Untouched
      BY <1>2, <2>3, ClientUntouched DEF ClientStep
    <3> QED
      BY <3>1, UntouchedSame, SameStep
  <2> QED
    BY <2>1, <2>2, <2>3
<1>3. ASSUME NEW c \in Clients, NEW o \in Ops,
             AsyncOperationCreate(c, o) \/ EnterCall(c, o) \/ AsyncOperationRelease(c, o)
      PROVE  LifecycleStep /\ AbsentOK'
  BY <1>3, CreateStep, CloseStep, ClientUntouched, UntouchedSame, SameStep
<1>4. ASSUME NEW w \in Workers, WorkerStep(w)
      PROVE  LifecycleStep /\ AbsentOK'
  BY HandedOn, SameStep, CompleteStep, Constant, ReleaseStep, WorkerUntouched, UntouchedSame, <1>4
     DEF WorkerReleases, Return, Goto, runtimeVars, drainVars, WorkerStep
<1>5. CASE DrainEnter(Drainer) \/ DrainStep(Drainer)
  BY HandedOn, SameStep, CompleteStep, Constant, ReleaseStep, DrainUntouched, UntouchedSame, <1>5
     DEF Return, Goto, runtimeVars, drainVars, DrainStep, DrainReleases
<1> QED
  BY <1>1, <1>2, <1>3, <1>4, <1>5 DEF Next

\* The runtime implements the lifecycle, for any number of operations, clients and workers,
\* any queue depth and any number of drains: an accepted operation is completed and its
\* callback runs once before its memory goes (CompleteOperation, ReleaseRef).
THEOREM LifecycleImplemented == Spec => ImplementsLifecycle
<1>1. Init => AsyncInv /\ AbsentOK /\ Lifecycle!Init
  BY AsyncInvInit, LifecycleInit
<1>2. AsyncInv /\ AbsentOK /\ [Next]_vars => (AsyncInv /\ AbsentOK)' /\ [Lifecycle!Next]_Lifecycle!lifecycleVars
  <2> SUFFICES ASSUME AsyncInv, AbsentOK, [Next]_vars
               PROVE  (AsyncInv /\ AbsentOK)' /\ [Lifecycle!Next]_Lifecycle!lifecycleVars
    OBVIOUS
  <2>1. AsyncInv'
    BY AsyncInvNext
  <2>2. LifecycleStep /\ AbsentOK'
    BY <2>1, LifecycleNext
  <2> QED
    BY <2>1, <2>2 DEF LifecycleStep, Lifecycle!lifecycleVars, Notified
<1> QED
  BY <1>1, <1>2, PTL DEF Spec, ImplementsLifecycle, Lifecycle!Spec

\* What the lifecycle promises therefore holds of the runtime: a completion callback that
\* has run belongs to an operation that was completed, it runs once at most, and nothing
\* runs it later (CompleteOperation).
THEOREM CallbackFollowsCompletion ==
    Spec => [](Lifecycle!TypeOK /\ Lifecycle!NotifiedAfterCompletion)
<1> DEFINE Inv == Lifecycle!TypeOK /\ Lifecycle!NotifiedAfterCompletion
<1>1. Lifecycle!Init => Inv
  BY DEF Lifecycle!Init, Lifecycle!TypeOK, Lifecycle!NotifiedAfterCompletion
<1>2. Inv /\ [Lifecycle!Next]_Lifecycle!lifecycleVars => Inv'
  BY DEF Lifecycle!TypeOK, Lifecycle!NotifiedAfterCompletion, Lifecycle!Next,
         Lifecycle!lifecycleVars, Lifecycle!Create, Lifecycle!Accept, Lifecycle!Complete,
         Lifecycle!Notify, Lifecycle!Reclaim, Lifecycle!Move
<1> QED
  BY <1>1, <1>2, LifecycleImplemented, PTL DEF ImplementsLifecycle, Lifecycle!Spec
=============================================================================
