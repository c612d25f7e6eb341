------------------------- MODULE QuicWorker_proofs -------------------------
\* A QUIC connection stops cleanly (WorkerStopsCleanly of QuicWorker), for
\* any callers, any commands and any length of the queue.
\*
\* The buffer is safe because a receive the worker collects has set the
\* event, one that it arms is armed on an open socket, and StopNetwork
\* frees a socket only once the receive has left it. Callers are answered
\* because a claimed operation is always in one of four places, and when
\* Shutdown drains the worker has left: it holds no command any more.
EXTENDS QuicWorker, TLAPS

IsConn(c) ==
    c = [state |-> c.state, queue |-> c.queue, deferred |-> c.deferred, current |-> c.current,
         established |-> c.established, connectQueued |-> c.connectQueued,
         closeQueued |-> c.closeQueued, stop |-> c.stop, wake |-> c.wake,
         receiveReady |-> c.receiveReady, receivePending |-> c.receivePending,
         deadline |-> c.deadline, at |-> c.at]

IsSocket(d) ==
    d = [open |-> d.open, receive |-> d.receive, inFlight |-> d.inFlight, rundown |-> d.rundown,
         event |-> d.event, notify |-> d.notify, calling |-> d.calling]

Answers == [Operations -> {"Pending", "Queued", "Completed"}]

Shapes ==
    /\ IsConn(conn) /\ IsSocket(dg) /\ op \in Answers
    /\ conn.queue \in Seq(Commands)

\* The receive, the socket and the worker that owns them.
ReceiveOwned ==
    /\ BufferOutlivesReceive
    /\ dg.event => ~dg.inFlight
    /\ conn.receivePending /\ stopper # "done" => dg.open
    /\ stopper \in {"drain", "done"} => conn.at = "exited"

InQueue(s, o) == \E i \in DOMAIN s : s[i] = o

\* A command the worker holds is the only one it has; WaitEstablished is
\* refused from the moment Shutdown has begun.
HandsOK ==
    /\ conn.at = "process" => conn.deferred = NoOp
    /\ conn.at # "process" => conn.current = NoOp
    /\ stopper # "outside" => conn.established = NoOp

\* Who still has to answer operation o.
Held(o) == InQueue(conn.queue, o) \/ o = conn.deferred \/ o = conn.current \/ o = conn.established

ClaimsHeld == \A o \in Operations : op[o] = "Queued" => Held(o)

StopInv ==
    /\ Shapes /\ ReceiveOwned /\ HandsOK /\ ClaimsHeld
    /\ stopper = "done" => \A o \in Operations : op[o] # "Queued"

----------------------------------------
(* Lemmas *)

\* Complete answers its operation and claims none.
LEMMA CompleteAnswers ==
    ASSUME NEW ops \in Answers, NEW o
    PROVE  /\ Complete(ops, o) \in Answers
           /\ \A p \in Operations : Complete(ops, o)[p] = "Queued" => ops[p] = "Queued" /\ p # o
BY QuicWorkerConstants DEF Complete, Answers, Operations, Commands, NoOp

\* Tail drops the head and nothing else; Append drops nothing.
LEMMA QueueEnds ==
    ASSUME NEW s \in Seq(Commands)
    PROVE  /\ \A o \in Commands : /\ Append(s, o) \in Seq(Commands) /\ InQueue(Append(s, o), o)
                                  /\ \A p : InQueue(s, p) => InQueue(Append(s, o), p)
           /\ s # <<>> => /\ Tail(s) \in Seq(Commands) /\ Head(s) \in Commands
                          /\ \A p : InQueue(s, p) => p = Head(s) \/ InQueue(Tail(s), p)
<1>1. ASSUME NEW o \in Commands
      PROVE  /\ Append(s, o) \in Seq(Commands) /\ InQueue(Append(s, o), o)
             /\ \A p : InQueue(s, p) => InQueue(Append(s, o), p)
  <2>1. Append(s, o) \in Seq(Commands) /\ Len(Append(s, o)) = Len(s) + 1
    OBVIOUS
  <2>2. Append(s, o)[Len(s) + 1] = o /\ \A i \in 1..Len(s) : Append(s, o)[i] = s[i]
    OBVIOUS
  <2> QED  BY <2>1, <2>2 DEF InQueue
<1>2. ASSUME s # <<>>
      PROVE  /\ Tail(s) \in Seq(Commands) /\ Head(s) \in Commands
             /\ \A p : InQueue(s, p) => p = Head(s) \/ InQueue(Tail(s), p)
  <2>1. Tail(s) \in Seq(Commands) /\ Head(s) = s[1] /\ Head(s) \in Commands
    BY <1>2
  <2>2. Len(Tail(s)) = Len(s) - 1 /\ \A i \in 1..Len(Tail(s)) : Tail(s)[i] = s[i + 1]
    BY <1>2
  <2>3. ASSUME NEW p, NEW i \in 1..Len(s), s[i] = p, i # 1
        PROVE  InQueue(Tail(s), p)
    <3>1. i - 1 \in 1..Len(Tail(s)) /\ Tail(s)[i - 1] = p
      BY <2>2, <2>3
    <3>2. DOMAIN Tail(s) = 1..Len(Tail(s))
      BY <2>1
    <3> QED  BY <3>1, <3>2 DEF InQueue
  <2> QED  BY <2>1, <2>3 DEF InQueue
<1> QED  BY <1>1, <1>2

\* A step that leaves claims and their holders alone keeps every claim held.
LEMMA HeldFrame ==
    ASSUME ClaimsHeld, op' = op, conn'.queue = conn.queue, conn'.deferred = conn.deferred,
           conn'.current = conn.current, conn'.established = conn.established
    PROVE  ClaimsHeld'
BY DEF ClaimsHeld, Held, InQueue

----------------------------------------
(* Callers and the datagram socket *)

LEMMA StopEnqueue ==
    ASSUME StopInv, NEW o \in Commands, Enqueue(o)
    PROVE  StopInv'
<1>1. conn.queue \in Seq(Commands) /\ IsConn(conn) /\ op \in Answers /\ o \in Operations
  BY DEF StopInv, Shapes, Operations
<1>2. /\ conn'.queue = Append(conn.queue, o) /\ conn'.deferred = conn.deferred
      /\ conn'.current = conn.current /\ conn'.established = conn.established
      /\ conn'.at = conn.at /\ conn'.receivePending = conn.receivePending /\ IsConn(conn')
  BY <1>1 DEF Enqueue, IsConn
<1>3. op' \in Answers /\ \A p \in Operations : op'[p] = "Queued" => p = o \/ op[p] = "Queued"
  BY <1>1 DEF Enqueue, Answers
<1>4. Shapes' /\ ReceiveOwned' /\ HandsOK'
  BY <1>1, <1>2, <1>3, QueueEnds
  DEF StopInv, Shapes, ReceiveOwned, HandsOK, BufferOutlivesReceive, Enqueue
<1>5. ClaimsHeld'
  BY <1>1, <1>2, <1>3, QueueEnds DEF StopInv, ClaimsHeld, Held
<1> QED  BY <1>4, <1>5 DEF StopInv, Enqueue

LEMMA StopWaitEstablished ==
    ASSUME StopInv, NEW o \in Waits, WaitEstablished(o)
    PROVE  StopInv'
<1>1. IsConn(conn) /\ op \in Answers /\ o \in Operations /\ stopper = "outside"
  BY DEF StopInv, Shapes, Operations, WaitEstablished
<1>2. CASE op' = [op EXCEPT ![o] = "Completed"] /\ UNCHANGED conn
  <2>1. op' \in Answers /\ \A p \in Operations : op'[p] = "Queued" => op[p] = "Queued"
    BY <1>1, <1>2 DEF Answers
  <2> QED
    BY <1>1, <1>2, <2>1 DEF StopInv, Shapes, ReceiveOwned, HandsOK, BufferOutlivesReceive,
       ClaimsHeld, Held, InQueue, WaitEstablished
<1>3. CASE /\ op' = [op EXCEPT ![o] = "Queued"] /\ conn.established = NoOp
           /\ conn' = [conn EXCEPT !.established = o]
  <2>1. op' \in Answers /\ \A p \in Operations : op'[p] = "Queued" => p = o \/ op[p] = "Queued"
    BY <1>1, <1>3 DEF Answers
  <2>2. /\ conn'.queue = conn.queue /\ conn'.deferred = conn.deferred
        /\ conn'.current = conn.current /\ conn'.established = o
        /\ conn'.at = conn.at /\ conn'.receivePending = conn.receivePending /\ IsConn(conn')
    BY <1>1, <1>3 DEF IsConn
  <2>3. Shapes' /\ ReceiveOwned' /\ HandsOK'
    BY <1>1, <2>1, <2>2
    DEF StopInv, Shapes, ReceiveOwned, HandsOK, BufferOutlivesReceive, WaitEstablished
  <2>4. ClaimsHeld'
    BY <1>1, <1>3, <2>1, <2>2, QuicWorkerConstants
    DEF StopInv, ClaimsHeld, Held, InQueue, NoOp, Operations, Commands
  <2> QED  BY <1>1, <2>3, <2>4 DEF StopInv, WaitEstablished
<1> QED  BY <1>2, <1>3 DEF WaitEstablished

LEMMA StopReceiveCompletes ==
    ASSUME StopInv, ReceiveCompletes
    PROVE  StopInv'
<1>1. /\ IsSocket(dg') /\ ~dg'.inFlight /\ dg'.open = dg.open
  BY DEF StopInv, Shapes, IsSocket, ReceiveCompletes
<1>2. Shapes' /\ ReceiveOwned' /\ HandsOK'
  BY <1>1 DEF StopInv, Shapes, ReceiveOwned, HandsOK, BufferOutlivesReceive, ReceiveCompletes
<1>3. ClaimsHeld'
  BY HeldFrame DEF StopInv, ReceiveCompletes
<1> QED  BY <1>2, <1>3 DEF StopInv, ReceiveCompletes

LEMMA StopReceiveNotification ==
    ASSUME StopInv, ReceiveNotification
    PROVE  StopInv'
<1>1. /\ IsSocket(dg') /\ dg'.inFlight = dg.inFlight /\ dg'.open = dg.open
      /\ dg'.event = dg.event /\ dg'.receive = dg.receive
  BY DEF StopInv, Shapes, IsSocket, ReceiveNotification
<1>2. /\ conn'.queue = conn.queue /\ conn'.deferred = conn.deferred
      /\ conn'.current = conn.current /\ conn'.established = conn.established
      /\ conn'.at = conn.at /\ conn'.receivePending = conn.receivePending /\ IsConn(conn')
  BY DEF StopInv, Shapes, IsConn, ReceiveNotification
<1>3. Shapes' /\ ReceiveOwned' /\ HandsOK'
  BY <1>1, <1>2
  DEF StopInv, Shapes, ReceiveOwned, HandsOK, BufferOutlivesReceive, ReceiveNotification
<1>4. ClaimsHeld'
  BY <1>2, HeldFrame DEF StopInv, ReceiveNotification
<1> QED  BY <1>3, <1>4 DEF StopInv, ReceiveNotification

----------------------------------------
(* The worker *)

\* A step of the worker that answers nobody and leaves the socket alone.
LEMMA WorkerMoves ==
    ASSUME StopInv, UNCHANGED <<op, dg, stopper>>, IsConn(conn'), conn'.queue \in Seq(Commands),
           conn.at # "exited", conn'.receivePending => conn.receivePending,
           HandsOK', ClaimsHeld'
    PROVE  StopInv'
BY DEF StopInv, Shapes, ReceiveOwned, BufferOutlivesReceive

LEMMA StopWakes ==
    ASSUME StopInv, QuicWorkerWakes
    PROVE  StopInv'
<1>1. /\ conn'.queue = conn.queue /\ conn'.deferred = conn.deferred
      /\ conn'.current = conn.current /\ conn'.established = conn.established
      /\ conn'.at \in {"exited", "deferred"} /\ conn.at = "wait"
      /\ conn'.receivePending = conn.receivePending /\ IsConn(conn')
      /\ conn.queue \in Seq(Commands)
  BY DEF StopInv, Shapes, IsConn, QuicWorkerWakes
<1>2. HandsOK' /\ ClaimsHeld'
  BY <1>1, HeldFrame DEF StopInv, HandsOK, QuicWorkerWakes
<1> QED  BY <1>1, <1>2, WorkerMoves DEF QuicWorkerWakes

LEMMA StopRetryDeferred ==
    ASSUME StopInv, RetryDeferred
    PROVE  StopInv'
<1>1. /\ conn'.queue = conn.queue /\ conn'.established = conn.established /\ conn.at = "deferred"
      /\ conn'.receivePending = conn.receivePending /\ IsConn(conn')
      /\ conn.queue \in Seq(Commands) /\ conn.current = NoOp
      /\ \/ conn'.at = "queue" /\ conn'.deferred = conn.deferred /\ conn'.current = conn.current
         \/ conn'.at = "process" /\ conn'.deferred = NoOp /\ conn'.current = conn.deferred
  BY DEF StopInv, Shapes, HandsOK, IsConn, RetryDeferred
<1>2. NoOp \notin Operations
  BY QuicWorkerConstants DEF NoOp, Operations, Commands
<1>3. HandsOK' /\ ClaimsHeld'
  BY <1>1, <1>2 DEF StopInv, HandsOK, ClaimsHeld, Held, InQueue, RetryDeferred
<1> QED  BY <1>1, <1>3, WorkerMoves DEF RetryDeferred

LEMMA StopDequeue ==
    ASSUME StopInv, Dequeue
    PROVE  StopInv'
<1>1. /\ conn'.established = conn.established /\ conn'.deferred = conn.deferred
      /\ conn.at = "queue" /\ conn'.receivePending = conn.receivePending /\ IsConn(conn')
      /\ conn.queue \in Seq(Commands) /\ conn.current = NoOp
      /\ \/ /\ conn'.at = "receive" /\ conn'.queue = conn.queue /\ conn'.current = conn.current
         \/ /\ conn'.at = "process" /\ conn.deferred = NoOp /\ conn.queue # <<>>
            /\ conn'.current = Head(conn.queue) /\ conn'.queue = Tail(conn.queue)
  BY DEF StopInv, Shapes, HandsOK, IsConn, Dequeue
<1>2. NoOp \notin Operations
  BY QuicWorkerConstants DEF NoOp, Operations, Commands
<1>3. conn'.queue \in Seq(Commands)
  BY <1>1, QueueEnds
<1>4. HandsOK'
  BY <1>1 DEF StopInv, HandsOK, Dequeue
<1>5. conn.queue # <<>> =>
         \A p : InQueue(conn.queue, p) => p = Head(conn.queue) \/ InQueue(Tail(conn.queue), p)
  BY <1>1, QueueEnds
<1>6. ASSUME NEW p \in Operations, op'[p] = "Queued"
      PROVE  Held(p)'
  <2>1. Held(p)
    BY <1>6 DEF StopInv, ClaimsHeld, Dequeue
  <2>2. CASE conn'.queue = conn.queue /\ conn'.current = conn.current
    BY <1>1, <2>1, <2>2 DEF Held, InQueue
  <2>3. CASE /\ conn.queue # <<>> /\ conn'.current = Head(conn.queue)
             /\ conn'.queue = Tail(conn.queue)
    <3>1. InQueue(conn.queue, p) => p = conn'.current \/ InQueue(conn'.queue, p)
      BY <1>5, <2>3
    <3> QED  BY <1>1, <1>2, <2>1, <3>1 DEF Held, InQueue
  <2> QED  BY <1>1, <2>2, <2>3
<1>7. ClaimsHeld'
  BY <1>6 DEF ClaimsHeld
<1> QED  BY <1>1, <1>3, <1>4, <1>7, WorkerMoves DEF Dequeue

\* What Processed changes.
LEMMA ProcessedFields ==
    ASSUME NEW c, IsConn(c)
    PROVE  /\ IsConn(Processed(c)) /\ Processed(c).current = NoOp
           /\ Processed(c).at \in {"receive", "queue"} /\ Processed(c).queue = c.queue
           /\ Processed(c).deferred = c.deferred /\ Processed(c).established = c.established
           /\ Processed(c).receivePending = c.receivePending
<1>a. PICK d : d = [c EXCEPT !.current = NoOp]
  OBVIOUS
<1>1. /\ IsConn(d) /\ d.current = NoOp /\ d.queue = c.queue /\ d.deferred = c.deferred
      /\ d.established = c.established /\ d.receivePending = c.receivePending
  BY <1>a DEF IsConn
<1>2. Processed(c) = [d EXCEPT !.at = AfterProcess(c)] /\ AfterProcess(c) \in {"receive", "queue"}
  BY <1>a DEF Processed, AfterProcess
<1> QED  BY <1>1, <1>2 DEF IsConn

\* Once Shutdown waits for the worker no more, the worker has left.
LEMMA WorkerRuns ==
    ASSUME StopInv, conn.at # "exited"
    PROVE  stopper \notin {"drain", "done"}
BY DEF StopInv, ReceiveOwned

\* What StartReceive changes.
LEMMA Armed ==
    ASSUME NEW d, IsSocket(d), NEW r, r = StartReceive(d)
    PROVE  /\ IsSocket(r) /\ r.receive = "Pending" /\ r.inFlight /\ ~r.event
           /\ r.open = d.open
BY DEF IsSocket, StartReceive

\* An operation of the worker answers whom it lets go.
LEMMA ClaimsAnswered ==
    ASSUME ClaimsHeld, conn'.queue = conn.queue,
           \A p \in Operations : op'[p] = "Queued" => op[p] = "Queued",
           \A p \in Operations : op'[p] = "Queued" =>
              /\ p = conn.deferred => p = conn'.deferred
              /\ p = conn.current => p = conn'.current \/ p = conn'.deferred
              /\ p = conn.established => p = conn'.established
    PROVE  ClaimsHeld'
BY DEF ClaimsHeld, Held, InQueue

LEMMA StopProcessConnect ==
    ASSUME StopInv, ProcessConnect
    PROVE  StopInv'
<1>1. /\ IsConn(conn) /\ IsSocket(dg) /\ op \in Answers /\ conn.queue \in Seq(Commands)
      /\ stopper \notin {"drain", "done"} /\ stopper' = stopper /\ conn.at = "process"
      /\ conn.deferred = NoOp
  BY WorkerRuns DEF StopInv, Shapes, HandsOK, ProcessConnect
<1>2. NoOp \notin Operations
  BY QuicWorkerConstants DEF NoOp, Operations, Commands
<1>3. CASE /\ conn' = Processed([conn EXCEPT !.connectQueued = FALSE, !.state = "Handshaking",
                                             !.receivePending = TRUE])
           /\ dg' = StartReceive([dg EXCEPT !.open = TRUE, !.notify = TRUE])
           /\ op' = Complete(op, conn.current)
  <2>a. PICK c : c = [conn EXCEPT !.connectQueued = FALSE, !.state = "Handshaking",
                                 !.receivePending = TRUE]
    OBVIOUS
  <2>b. PICK d : d = [dg EXCEPT !.open = TRUE, !.notify = TRUE]
    OBVIOUS
  <2>1. /\ IsConn(c) /\ c.queue = conn.queue /\ c.deferred = conn.deferred
        /\ c.established = conn.established
    BY <1>1, <2>a DEF IsConn
  <2>2. IsSocket(d) /\ d.open = TRUE
    BY <1>1, <2>b DEF IsSocket
  <2>3. /\ IsConn(conn') /\ conn'.current = NoOp /\ conn'.at \in {"receive", "queue"}
        /\ conn'.queue = conn.queue /\ conn'.deferred = conn.deferred
        /\ conn'.established = conn.established
    BY <1>3, <2>a, <2>1, ProcessedFields
  <2>4. IsSocket(dg') /\ dg'.open /\ dg'.receive = "Pending" /\ ~dg'.event
    BY <1>3, <2>b, <2>2, Armed
  <2>5. /\ op' \in Answers
        /\ \A p \in Operations : op'[p] = "Queued" => op[p] = "Queued" /\ p # conn.current
    BY <1>1, <1>3, CompleteAnswers
  <2>6. ClaimsHeld'
    BY <2>3, <2>5, ClaimsAnswered DEF StopInv
  <2> QED
    BY <1>1, <2>3, <2>4, <2>5, <2>6
    DEF StopInv, Shapes, ReceiveOwned, HandsOK, BufferOutlivesReceive
<1>4. CASE /\ conn' = Processed([conn EXCEPT !.connectQueued = FALSE, !.state = "Failed",
                                             !.established = NoOp])
           /\ op' = Complete(Complete(op, conn.established), conn.current) /\ UNCHANGED dg
  <2>a. PICK c : c = [conn EXCEPT !.connectQueued = FALSE, !.state = "Failed",
                                 !.established = NoOp]
    OBVIOUS
  <2>1. /\ IsConn(c) /\ c.queue = conn.queue /\ c.deferred = conn.deferred
        /\ c.established = NoOp /\ c.receivePending = conn.receivePending
    BY <1>1, <2>a DEF IsConn
  <2>2. /\ IsConn(conn') /\ conn'.current = NoOp /\ conn'.at \in {"receive", "queue"}
        /\ conn'.queue = conn.queue /\ conn'.deferred = conn.deferred
        /\ conn'.established = NoOp /\ conn'.receivePending = conn.receivePending
    BY <1>4, <2>a, <2>1, ProcessedFields
  <2>3. /\ Complete(op, conn.established) \in Answers
        /\ \A p \in Operations : Complete(op, conn.established)[p] = "Queued" =>
                                   op[p] = "Queued" /\ p # conn.established
    BY <1>1, CompleteAnswers
  <2>4. /\ op' \in Answers
        /\ \A p \in Operations : op'[p] = "Queued" =>
               op[p] = "Queued" /\ p # conn.established /\ p # conn.current
    BY <1>4, <2>3, CompleteAnswers
  <2>5. ClaimsHeld'
    BY <2>2, <2>4, ClaimsAnswered DEF StopInv
  <2> QED
    BY <1>1, <1>4, <2>2, <2>4, <2>5
    DEF StopInv, Shapes, ReceiveOwned, HandsOK, BufferOutlivesReceive
<1> QED  BY <1>3, <1>4 DEF ProcessConnect

LEMMA StopProcessWrite ==
    ASSUME StopInv, ProcessWrite
    PROVE  StopInv'
<1>1. /\ IsConn(conn) /\ IsSocket(dg) /\ op \in Answers /\ conn.queue \in Seq(Commands)
      /\ stopper \notin {"drain", "done"} /\ UNCHANGED <<dg, stopper>> /\ conn.at = "process"
      /\ conn.deferred = NoOp
  BY WorkerRuns DEF StopInv, Shapes, HandsOK, ProcessWrite
<1>2. NoOp \notin Operations
  BY QuicWorkerConstants DEF NoOp, Operations, Commands
<1>3. CASE conn' = Processed(conn) /\ op' = Complete(op, conn.current)
  <2>1. /\ IsConn(conn') /\ conn'.current = NoOp /\ conn'.at \in {"receive", "queue"}
        /\ conn'.queue = conn.queue /\ conn'.deferred = conn.deferred
        /\ conn'.established = conn.established /\ conn'.receivePending = conn.receivePending
    BY <1>1, <1>3, ProcessedFields
  <2>2. /\ op' \in Answers
        /\ \A p \in Operations : op'[p] = "Queued" => op[p] = "Queued" /\ p # conn.current
    BY <1>1, <1>3, CompleteAnswers
  <2>3. ClaimsHeld'
    BY <2>1, <2>2, ClaimsAnswered DEF StopInv
  <2> QED
    BY <1>1, <2>1, <2>2, <2>3
    DEF StopInv, Shapes, ReceiveOwned, HandsOK, BufferOutlivesReceive
<1>4. CASE conn' = Processed([conn EXCEPT !.deferred = conn.current]) /\ UNCHANGED op
  <2>a. PICK c : c = [conn EXCEPT !.deferred = conn.current]
    OBVIOUS
  <2>1. /\ IsConn(c) /\ c.queue = conn.queue /\ c.deferred = conn.current
        /\ c.established = conn.established /\ c.receivePending = conn.receivePending
    BY <1>1, <2>a DEF IsConn
  <2>2. /\ IsConn(conn') /\ conn'.current = NoOp /\ conn'.at \in {"receive", "queue"}
        /\ conn'.queue = conn.queue /\ conn'.deferred = conn.current
        /\ conn'.established = conn.established /\ conn'.receivePending = conn.receivePending
    BY <1>4, <2>a, <2>1, ProcessedFields
  <2>3. ClaimsHeld'
    BY <1>1, <1>2, <1>4, <2>2, ClaimsAnswered DEF StopInv
  <2> QED
    BY <1>1, <1>4, <2>2, <2>3
    DEF StopInv, Shapes, ReceiveOwned, HandsOK, BufferOutlivesReceive
<1> QED  BY <1>3, <1>4 DEF ProcessWrite

LEMMA StopProcessClose ==
    ASSUME StopInv, ProcessClose
    PROVE  StopInv'
<1>1. /\ IsConn(conn) /\ IsSocket(dg) /\ op \in Answers /\ conn.queue \in Seq(Commands)
      /\ stopper \notin {"drain", "done"} /\ UNCHANGED <<dg, stopper>> /\ conn.at = "process"
      /\ conn.deferred = NoOp
  BY WorkerRuns DEF StopInv, Shapes, HandsOK, ProcessClose
<1>a. PICK c : c = [conn EXCEPT !.closeQueued = FALSE, !.state = "Closing",
                               !.deadline = TRUE, !.established = NoOp]
  OBVIOUS
<1>2. /\ IsConn(c) /\ c.queue = conn.queue /\ c.deferred = conn.deferred
      /\ c.established = NoOp /\ c.receivePending = conn.receivePending
  BY <1>1, <1>a DEF IsConn
<1>3. conn' = Processed(c)
  BY <1>a DEF ProcessClose
<1>4. /\ IsConn(conn') /\ conn'.current = NoOp /\ conn'.at \in {"receive", "queue"}
      /\ conn'.queue = conn.queue /\ conn'.deferred = conn.deferred
      /\ conn'.established = NoOp /\ conn'.receivePending = conn.receivePending
  BY <1>2, <1>3, ProcessedFields
<1>5. /\ Complete(op, conn.established) \in Answers
      /\ \A p \in Operations : Complete(op, conn.established)[p] = "Queued" =>
                                 op[p] = "Queued" /\ p # conn.established
  BY <1>1, CompleteAnswers
<1>6. /\ op' \in Answers
      /\ \A p \in Operations : op'[p] = "Queued" =>
             op[p] = "Queued" /\ p # conn.established /\ p # conn.current
  BY <1>5, CompleteAnswers DEF ProcessClose
<1>7. ClaimsHeld'
  BY <1>4, <1>6, ClaimsAnswered DEF StopInv
<1> QED
  BY <1>1, <1>4, <1>6, <1>7
  DEF StopInv, Shapes, ReceiveOwned, HandsOK, BufferOutlivesReceive

LEMMA StopCollectReceive ==
    ASSUME StopInv, CollectReceive
    PROVE  StopInv'
<1>1. /\ conn'.queue = conn.queue /\ conn'.deferred = conn.deferred
      /\ conn'.current = conn.current /\ conn'.established = conn.established
      /\ conn'.at \in {"datagram", "deadlines"} /\ conn.at = "receive"
      /\ conn'.receivePending = conn.receivePending /\ IsConn(conn')
      /\ conn.queue \in Seq(Commands)
  BY DEF StopInv, Shapes, IsConn, CollectReceive
<1>2. HandsOK' /\ ClaimsHeld'
  BY <1>1, HeldFrame DEF StopInv, HandsOK, CollectReceive
<1> QED  BY <1>1, <1>2, WorkerMoves DEF CollectReceive

\* The worker ends a step: it answers WaitEstablished or leaves it registered.
LEMMA WorkerEnds ==
    ASSUME StopInv, UNCHANGED stopper, conn.at \notin {"exited", "process"}, IsConn(conn'),
           conn'.at \notin {"exited", "process"}, conn'.queue = conn.queue,
           conn'.deferred = conn.deferred, conn'.current = conn.current,
           \/ conn'.established = conn.established /\ op' = op
           \/ conn'.established = NoOp /\ op' = Complete(op, conn.established),
           IsSocket(dg'), BufferOutlivesReceive', dg'.event => ~dg'.inFlight,
           conn'.receivePending => dg'.open
    PROVE  StopInv'
<1>1. /\ op \in Answers /\ conn.queue \in Seq(Commands) /\ stopper \notin {"drain", "done"}
  BY WorkerRuns DEF StopInv, Shapes
<1>2. /\ op' \in Answers
      /\ \A p \in Operations : op'[p] = "Queued" =>
             op[p] = "Queued" /\ (p = conn.established => p = conn'.established)
  BY <1>1, CompleteAnswers
<1>3. ClaimsHeld'
  BY <1>2, ClaimsAnswered DEF StopInv
<1> QED
  BY <1>1, <1>2, <1>3 DEF StopInv, Shapes, ReceiveOwned, HandsOK

\* What CompleteReceive changes.
LEMMA Collected ==
    ASSUME NEW d, IsSocket(d), NEW r, r = CompleteReceive(d)
    PROVE  /\ IsSocket(r) /\ r.receive = "Idle" /\ ~r.event
           /\ r.inFlight = d.inFlight /\ r.open = d.open
BY DEF IsSocket, CompleteReceive

LEMMA StopProcessDatagram ==
    ASSUME StopInv, ProcessDatagram
    PROVE  StopInv'
<1>1. /\ IsConn(conn) /\ IsSocket(dg) /\ stopper \notin {"drain", "done"} /\ UNCHANGED stopper
      /\ conn.at = "datagram" /\ (conn.receivePending => dg.event)
      /\ BufferOutlivesReceive /\ (dg.event => ~dg.inFlight)
      /\ (conn.receivePending => dg.open)
  BY WorkerRuns DEF StopInv, Shapes, ReceiveOwned, ProcessDatagram
<1>a. PICK c : c = [conn EXCEPT !.receivePending = FALSE, !.at = "deadlines"]
  OBVIOUS
<1>b. PICK d : d = CompleteReceive(dg)
  OBVIOUS
<1>c. PICK r : r = StartReceive(d)
  OBVIOUS
<1>2. /\ IsConn(c) /\ c.queue = conn.queue /\ c.deferred = conn.deferred /\ c.at = "deadlines"
      /\ c.current = conn.current /\ c.established = conn.established /\ ~c.receivePending
  BY <1>1, <1>a DEF IsConn
<1>3. /\ IsSocket(d) /\ ~d.event /\ d.inFlight = dg.inFlight /\ d.open = dg.open
      /\ d.receive = "Idle"
  BY <1>1, <1>b, Collected
<1>4. /\ IsSocket(r) /\ ~r.event /\ r.inFlight /\ r.open = dg.open /\ r.receive = "Pending"
  BY <1>3, <1>c, Armed
<1>5. CASE /\ ~conn.receivePending /\ conn' = Failed([conn EXCEPT !.at = "deadlines"])
           /\ UNCHANGED dg /\ op' = Complete(op, conn.established)
  <2>a. PICK e : e = [conn EXCEPT !.at = "deadlines"]
    OBVIOUS
  <2>1. /\ IsConn(e) /\ e.queue = conn.queue /\ e.deferred = conn.deferred /\ e.at = "deadlines"
        /\ e.current = conn.current /\ e.receivePending = conn.receivePending
    BY <1>1, <2>a DEF IsConn
  <2>2. conn' = [e EXCEPT !.state = "Failed", !.deadline = TRUE, !.established = NoOp]
    BY <1>5, <2>a DEF Failed
  <2>3. /\ IsConn(conn') /\ conn'.queue = conn.queue /\ conn'.deferred = conn.deferred
        /\ conn'.at = "deadlines" /\ conn'.current = conn.current /\ conn'.established = NoOp
        /\ conn'.receivePending = conn.receivePending
    BY <2>1, <2>2 DEF IsConn
  <2> QED  BY <1>1, <1>5, <2>3, WorkerEnds DEF BufferOutlivesReceive
<1>6. CASE conn.receivePending /\ dg' = r
           /\ \/ conn' = [c EXCEPT !.receivePending = TRUE] /\ UNCHANGED op
              \/ /\ conn' = [c EXCEPT !.state = "Established", !.receivePending = TRUE,
                                      !.established = NoOp]
                 /\ op' = Complete(op, conn.established)
  <2>1. /\ IsConn(conn') /\ conn'.queue = conn.queue /\ conn'.deferred = conn.deferred
        /\ conn'.at = "deadlines" /\ conn'.current = conn.current
        /\ \/ conn'.established = conn.established /\ op' = op
           \/ conn'.established = NoOp /\ op' = Complete(op, conn.established)
    BY <1>2, <1>6 DEF IsConn
  <2> QED  BY <1>1, <1>4, <1>6, <2>1, WorkerEnds DEF BufferOutlivesReceive
<1>7. CASE conn.receivePending /\ dg' = d
           /\ \/ /\ conn' = [c EXCEPT !.state = "Draining", !.deadline = TRUE, !.established = NoOp]
                 /\ op' = Complete(op, conn.established)
              \/ conn' = Failed(c) /\ op' = Complete(op, conn.established)
              \/ conn' = c /\ UNCHANGED op
  <2>1. /\ IsConn(conn') /\ conn'.queue = conn.queue /\ conn'.deferred = conn.deferred
        /\ conn'.at = "deadlines" /\ conn'.current = conn.current /\ ~conn'.receivePending
        /\ \/ conn'.established = conn.established /\ op' = op
           \/ conn'.established = NoOp /\ op' = Complete(op, conn.established)
    BY <1>2, <1>7 DEF IsConn, Failed
  <2> QED  BY <1>1, <1>3, <1>7, <2>1, WorkerEnds DEF BufferOutlivesReceive
<1> QED  BY <1>5, <1>6, <1>7, <1>a, <1>b, <1>c DEF ProcessDatagram

\* What the first half of StopNetwork changes: the buffer stays with the provider.
LEMMA Cancelled ==
    ASSUME NEW d, IsSocket(d), NEW r,
           r = d \/ r = CancelReceive(d) \/ r = BeginStopNetwork(d)
    PROVE  /\ IsSocket(r) /\ r.event = d.event /\ r.inFlight = d.inFlight /\ r.open = d.open
           /\ r.receive = d.receive \/ (d.receive = "Pending" /\ r.receive = "CancelPending")
<1>a. PICK e : e = [d EXCEPT !.notify = FALSE]
  OBVIOUS
<1>1. /\ IsSocket(e) /\ e.event = d.event /\ e.inFlight = d.inFlight /\ e.open = d.open
      /\ e.receive = d.receive
  BY <1>a DEF IsSocket
<1>2. CASE r = d \/ r = CancelReceive(d)
  BY <1>2 DEF IsSocket, CancelReceive
<1>3. CASE r = CancelReceive(e)
  BY <1>1, <1>3 DEF IsSocket, CancelReceive
<1> QED  BY <1>2, <1>3, <1>a DEF BeginStopNetwork

\* What the second half changes: nothing is freed that the provider still has.
LEMMA SocketFreed ==
    ASSUME NEW r, IsSocket(dg), BufferOutlivesReceive, CanStopNetwork, r = StoppedNetwork(dg)
    PROVE  IsSocket(r) /\ ~r.event /\ ~r.inFlight
BY DEF IsSocket, StoppedNetwork, CanStopNetwork, BufferOutlivesReceive

LEMMA StopProcessDeadlines ==
    ASSUME StopInv, ProcessDeadlines
    PROVE  StopInv'
<1>1. /\ IsConn(conn) /\ IsSocket(dg) /\ stopper \notin {"drain", "done"} /\ UNCHANGED stopper
      /\ conn.at = "deadlines"
      /\ BufferOutlivesReceive /\ (dg.event => ~dg.inFlight)
      /\ (conn.receivePending => dg.open)
  BY WorkerRuns DEF StopInv, Shapes, ReceiveOwned, ProcessDeadlines
<1>2. /\ IsConn(conn') /\ conn'.queue = conn.queue /\ conn'.deferred = conn.deferred
      /\ conn'.at \in {"wait", "stopping"} /\ conn'.current = conn.current
      /\ conn'.receivePending = conn.receivePending
      /\ \/ conn'.established = conn.established /\ op' = op
         \/ conn'.established = NoOp /\ op' = Complete(op, conn.established)
      /\ dg' = dg \/ dg' = BeginStopNetwork(dg)
  <2>1. CASE conn' = [conn EXCEPT !.at = "wait"] /\ UNCHANGED <<op, dg>>
    BY <1>1, <2>1 DEF IsConn
  <2>2. CASE /\ conn' = [conn EXCEPT !.at = "wait", !.state = "Closing", !.deadline = TRUE]
             /\ UNCHANGED <<op, dg>>
    BY <1>1, <2>2 DEF IsConn
  <2>3. CASE /\ conn' = [conn EXCEPT !.at = "stopping", !.state = "Closed", !.established = NoOp]
             /\ op' = Complete(op, conn.established) /\ dg' = BeginStopNetwork(dg)
    BY <1>1, <2>3 DEF IsConn
  <2> QED  BY <2>1, <2>2, <2>3 DEF ProcessDeadlines
<1>3. /\ IsSocket(dg') /\ dg'.event = dg.event /\ dg'.inFlight = dg.inFlight
      /\ dg'.open = dg.open
      /\ dg'.receive = dg.receive \/ (dg.receive = "Pending" /\ dg'.receive = "CancelPending")
  BY <1>1, <1>2, Cancelled
<1> QED  BY <1>1, <1>2, <1>3, WorkerEnds DEF BufferOutlivesReceive

LEMMA StopTransitionToClosed ==
    ASSUME StopInv, TransitionToClosed
    PROVE  StopInv'
<1>1. /\ IsConn(conn) /\ IsSocket(dg) /\ BufferOutlivesReceive /\ UNCHANGED stopper
      /\ conn.at = "stopping"
  BY DEF StopInv, Shapes, ReceiveOwned, TransitionToClosed
<1>2. /\ IsConn(conn') /\ conn'.queue = conn.queue /\ conn'.deferred = conn.deferred
      /\ conn'.at = "wait" /\ conn'.current = conn.current /\ ~conn'.receivePending
      /\ conn'.established = conn.established /\ op' = op
  BY <1>1 DEF IsConn, TransitionToClosed
<1>3. IsSocket(dg') /\ ~dg'.event /\ ~dg'.inFlight
  BY <1>1, SocketFreed DEF TransitionToClosed
<1> QED  BY <1>1, <1>2, <1>3, WorkerEnds DEF BufferOutlivesReceive

----------------------------------------
(* Shutdown *)

LEMMA StopShutdownBegins ==
    ASSUME StopInv, ShutdownBegins
    PROVE  StopInv'
<1>1. /\ IsConn(conn) /\ op \in Answers /\ stopper = "outside" /\ stopper' = "stop"
      /\ UNCHANGED dg
  BY DEF StopInv, Shapes, ShutdownBegins
<1>2. /\ IsConn(conn') /\ conn'.queue = conn.queue /\ conn'.deferred = conn.deferred
      /\ conn'.at = conn.at /\ conn'.current = conn.current /\ conn'.established = NoOp
      /\ conn'.receivePending = conn.receivePending
  BY <1>1 DEF IsConn, ShutdownBegins
<1>3. /\ op' \in Answers
      /\ \A p \in Operations : op'[p] = "Queued" => op[p] = "Queued" /\ p # conn.established
  BY <1>1, CompleteAnswers DEF ShutdownBegins
<1>4. ClaimsHeld'
  BY <1>2, <1>3, ClaimsAnswered DEF StopInv
<1> QED
  BY <1>1, <1>2, <1>3, <1>4
  DEF StopInv, Shapes, ReceiveOwned, HandsOK, BufferOutlivesReceive

\* A step of Shutdown before it drains: it answers nobody.
LEMMA ShutdownMoves ==
    ASSUME StopInv, UNCHANGED op, IsConn(conn'), conn'.queue = conn.queue,
           conn'.deferred = conn.deferred, conn'.current = conn.current,
           conn'.established = conn.established, conn'.at = conn.at,
           conn'.receivePending = conn.receivePending,
           dg' = dg \/ dg' = CancelReceive(dg) \/ dg' = BeginStopNetwork(dg),
           stopper \notin {"outside", "done"}, stopper' \in {"cancel", "join", "drain"},
           stopper' = "drain" => conn.at = "exited"
    PROVE  StopInv'
<1>1. /\ IsSocket(dg') /\ dg'.event = dg.event /\ dg'.inFlight = dg.inFlight
      /\ dg'.open = dg.open
      /\ dg'.receive = dg.receive \/ (dg.receive = "Pending" /\ dg'.receive = "CancelPending")
  BY Cancelled DEF StopInv, Shapes
<1>2. ClaimsHeld'
  BY HeldFrame DEF StopInv
<1> QED
  BY <1>1, <1>2 DEF StopInv, Shapes, ReceiveOwned, HandsOK, BufferOutlivesReceive

LEMMA StopShutdownMoves ==
    ASSUME StopInv, ShutdownSetsStop \/ ShutdownCancels \/ ShutdownJoins
    PROVE  StopInv'
<1>1. IsConn(conn)
  BY DEF StopInv, Shapes
<1>2. CASE ShutdownSetsStop
  <2>1. /\ IsConn(conn') /\ conn'.queue = conn.queue /\ conn'.deferred = conn.deferred
        /\ conn'.at = conn.at /\ conn'.current = conn.current
        /\ conn'.established = conn.established
        /\ conn'.receivePending = conn.receivePending
    BY <1>1, <1>2 DEF IsConn, ShutdownSetsStop
  <2> QED  BY <1>2, <2>1, ShutdownMoves DEF ShutdownSetsStop
<1>3. CASE ShutdownCancels
  BY <1>1, <1>3, ShutdownMoves DEF ShutdownCancels
<1>4. CASE ShutdownJoins
  BY <1>1, <1>4, ShutdownMoves DEF ShutdownJoins
<1> QED  BY <1>2, <1>3, <1>4

\* AllOf answers every operation of the list and claims none.
LEMMA AllAnswered ==
    ASSUME NEW ops \in Answers, NEW s
    PROVE  /\ AllOf(ops, s) \in Answers
           /\ \A p \in Operations : AllOf(ops, s)[p] = "Queued" => ops[p] = "Queued" /\ ~InQueue(s, p)
<1>1. \A p \in Operations : /\ Complete(ops, p)[p] \in {"Pending", "Queued", "Completed"}
                            /\ Complete(ops, p)[p] # "Queued"
  BY CompleteAnswers DEF Answers
<1>2. \A p \in Operations :
         AllOf(ops, s)[p] = IF InQueue(s, p) THEN Complete(ops, p)[p] ELSE ops[p]
  BY DEF AllOf, InQueue
<1>3. AllOf(ops, s) = [p \in Operations |-> AllOf(ops, s)[p]]
  BY DEF AllOf
<1> QED  BY <1>1, <1>2, <1>3 DEF Answers

\* When Shutdown drains, the worker has left and every claim is on the list or deferred.
LEMMA StopShutdownDrains ==
    ASSUME StopInv, ShutdownDrains
    PROVE  StopInv'
<1>1. /\ IsConn(conn) /\ IsSocket(dg) /\ op \in Answers /\ BufferOutlivesReceive
      /\ conn.at = "exited" /\ conn.current = NoOp /\ conn.established = NoOp
      /\ stopper' = "done" /\ NoOp \notin Operations
  BY QuicWorkerConstants
  DEF StopInv, Shapes, ReceiveOwned, HandsOK, ShutdownDrains, NoOp, Operations, Commands
<1>2. /\ IsConn(conn') /\ conn'.queue = <<>> /\ conn'.deferred = NoOp
      /\ conn'.at = "exited" /\ conn'.current = NoOp /\ conn'.established = NoOp
  BY <1>1 DEF IsConn, ShutdownDrains
<1>3. IsSocket(dg') /\ ~dg'.event /\ ~dg'.inFlight
  BY <1>1, SocketFreed DEF ShutdownDrains
<1>4. /\ AllOf(op, conn.queue) \in Answers
      /\ \A p \in Operations : AllOf(op, conn.queue)[p] = "Queued" =>
                                 op[p] = "Queued" /\ ~InQueue(conn.queue, p)
  BY <1>1, AllAnswered
<1>5. /\ op' \in Answers
      /\ \A p \in Operations : op'[p] = "Queued" =>
             op[p] = "Queued" /\ ~InQueue(conn.queue, p) /\ p # conn.deferred
  BY <1>4, CompleteAnswers DEF ShutdownDrains
<1>6. \A p \in Operations : op'[p] # "Queued"
  BY <1>1, <1>5 DEF StopInv, ClaimsHeld, Held
<1>7. conn'.queue \in Seq(Commands)
  BY <1>2
<1> QED
  BY <1>1, <1>2, <1>3, <1>5, <1>6, <1>7
  DEF StopInv, Shapes, ReceiveOwned, HandsOK, ClaimsHeld, BufferOutlivesReceive

----------------------------------------
(* The theorem *)

LEMMA StopInit == QuicInit => StopInv
<1> SUFFICES ASSUME QuicInit PROVE StopInv
  OBVIOUS
<1>1. /\ IsConn(conn) /\ conn.at = "wait" /\ ~conn.receivePending /\ conn.queue = <<>>
      /\ conn.current = NoOp
  BY DEF QuicInit, IsConn
<1>2. IsSocket(dg) /\ ~dg.inFlight /\ ~dg.event
  BY DEF QuicInit, IsSocket
<1>3. op \in Answers /\ (\A o \in Operations : op[o] = "Pending") /\ stopper = "outside"
  BY DEF QuicInit, Answers
<1>4. conn.queue \in Seq(Commands)
  BY <1>1
<1> QED
  BY <1>1, <1>2, <1>3, <1>4
  DEF StopInv, Shapes, ReceiveOwned, HandsOK, ClaimsHeld, BufferOutlivesReceive

LEMMA StopNext == StopInv /\ [QuicNext]_quicVars => StopInv'
<1> SUFFICES ASSUME StopInv, [QuicNext]_quicVars PROVE StopInv'
  OBVIOUS
<1>1. ASSUME NEW o \in Commands, Enqueue(o) PROVE StopInv'
  BY <1>1, StopEnqueue
<1>2. ASSUME NEW o \in Waits, WaitEstablished(o) PROVE StopInv'
  BY <1>2, StopWaitEstablished
<1>3. CASE ReceiveCompletes \/ ReceiveNotification
  BY <1>3, StopReceiveCompletes, StopReceiveNotification
<1>4. CASE QuicWorkerStep
  BY <1>4, StopWakes, StopRetryDeferred, StopDequeue, StopProcessConnect, StopProcessWrite,
     StopProcessClose, StopCollectReceive, StopProcessDatagram, StopProcessDeadlines,
     StopTransitionToClosed DEF QuicWorkerStep
<1>5. CASE ShutdownBegins \/ ShutdownStep
  BY <1>5, StopShutdownBegins, StopShutdownMoves, StopShutdownDrains DEF ShutdownStep
<1>6. CASE UNCHANGED quicVars
  BY <1>6 DEF quicVars, StopInv, Shapes, ReceiveOwned, HandsOK, ClaimsHeld, Held, InQueue,
     BufferOutlivesReceive
<1> QED  BY <1>1, <1>2, <1>3, <1>4, <1>5, <1>6 DEF QuicNext

(* The provider never completes a receive into a buffer or a socket that was  *)
(* given back, and when Shutdown has returned no caller waits for an answer:  *)
(* whoever stops the worker, at whatever point of its loop, and however late  *)
(* the receive completes.                                                     *)
THEOREM WorkerEndsCleanly == QuicSpec => []WorkerStopsCleanly
<1>1. StopInv => WorkerStopsCleanly
  BY DEF StopInv, ReceiveOwned, WorkerStopsCleanly, ShutdownAnswersAll
<1>2. QuicSpec => []StopInv
  BY StopInit, StopNext, PTL DEF QuicSpec
<1> QED  BY <1>1, <1>2, PTL
=============================================================================
