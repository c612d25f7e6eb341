----------------------------- MODULE QuicWorker -----------------------------
(* One QUIC connection as threads see it: commands queued for the worker,     *)
(* the worker's loop and its wake-up event, the receive that the datagram     *)
(* socket keeps outstanding, the connection's states, and Shutdown            *)
(* (quic/QuicConnection.cpp, quic/QuicConnectionIo.cpp,                       *)
(* net/WskDatagramSocket.cpp). Packets are what they do to the connection:    *)
(* they finish the handshake, close it, or are refused.                       *)
EXTENDS Naturals, Sequences

CONSTANTS Connects, Writes, Closes, Waits,   \* operations, by the command they carry
          QueueLimit                         \* WKNET_HARD_MAX_QUIC_COMMANDS

\* No operation is the null pointer.
ASSUME QuicWorkerConstants ==
    /\ QueueLimit \in Nat \ {0}
    /\ "none" \notin Connects \cup Writes \cup Closes \cup Waits

VARIABLES conn,     \* fields of QuicConnection that threads share
          op,       \* operation -> CompletionState
          dg,       \* WskDatagramSocket
          stopper   \* the thread in QuicConnection::Shutdown

quicVars == <<conn, op, dg, stopper>>

Commands == Connects \cup Writes \cup Closes
Operations == Commands \cup Waits
NoOp == "none"
Ending == {"Closing", "Draining", "Failed"}

QuicInit ==
    /\ conn = [state |-> "Idle", queue |-> <<>>, deferred |-> NoOp, current |-> NoOp,
               established |-> NoOp, connectQueued |-> FALSE, closeQueued |-> FALSE,
               stop |-> FALSE, wake |-> FALSE, receiveReady |-> FALSE, receivePending |-> FALSE,
               deadline |-> FALSE, at |-> "wait"]
    /\ op = [o \in Operations |-> "Pending"]
    /\ dg = [open |-> FALSE, receive |-> "Idle", inFlight |-> FALSE, rundown |-> FALSE,
             event |-> FALSE, notify |-> FALSE, calling |-> FALSE]
    /\ stopper = "outside"

\* QuicConnection::Complete: only a claimed operation, and only once.
Complete(ops, o) ==
    IF o # NoOp /\ ops[o] = "Queued" THEN [ops EXCEPT ![o] = "Completed"] ELSE ops

\* NextDeadline100ns: a live connection has its idle timer, an ending one the
\* three-PTO timer that EnterClosing or EnterDraining has set.
HasDeadline(c) == c.deadline \/ c.state \in {"Handshaking", "Established"}

----------------------------------------
(* Callers.                                                                   *)

EnqueueRefused(o) ==
    \/ conn.stop \/ conn.state \in {"Closed", "Failed", "Closing", "Draining"} \/ conn.closeQueued
    \/ o \in Connects /\ (conn.state # "Idle" \/ conn.connectQueued)
    \/ o \in Closes /\ conn.state \notin {"Connecting", "Handshaking", "Established"}
    \/ Len(conn.queue) >= QueueLimit

\* Enqueue claims the operation; a refused command gives the claim back.
Enqueue(o) ==
    /\ op[o] = "Pending" /\ stopper = "outside" /\ ~EnqueueRefused(o)
    /\ op' = [op EXCEPT ![o] = "Queued"]
    /\ conn' = [conn EXCEPT !.queue = Append(@, o), !.wake = TRUE,
                            !.connectQueued = @ \/ o \in Connects,
                            !.closeQueued = @ \/ o \in Closes]
    /\ UNCHANGED <<dg, stopper>>

\* WaitEstablished registers, answers at once, or refuses.
WaitEstablished(o) ==
    /\ op[o] = "Pending" /\ stopper = "outside"
    /\ \/ /\ conn.state \in Ending \cup {"Established", "Closed"} \/ conn.stop
          /\ op' = [op EXCEPT ![o] = "Completed"] /\ UNCHANGED conn
       \/ /\ conn.state \notin Ending \cup {"Established", "Closed"} /\ ~conn.stop
          /\ (conn.state # "Idle" \/ conn.connectQueued) /\ conn.established = NoOp
          /\ op' = [op EXCEPT ![o] = "Queued"]
          /\ conn' = [conn EXCEPT !.established = o]
    /\ UNCHANGED <<dg, stopper>>

----------------------------------------
(* The datagram socket.                                                       *)

\* CompleteReceive waits for the event, reads the record and releases the buffer.
CompleteReceive(d) == [d EXCEPT !.receive = "Idle", !.event = FALSE]

StartReceive(d) ==
    [d EXCEPT !.receive = "Pending", !.event = FALSE, !.inFlight = TRUE, !.rundown = TRUE]

\* CancelReceiveInternal: a pending receive is cancelled; the IRP still completes.
CancelReceive(d) == IF d.receive = "Pending" THEN [d EXCEPT !.receive = "CancelPending"] ELSE d

\* The completion routine records the result under the lock, sets the event and
\* releases the rundown ...
ReceiveCompletes ==
    /\ dg.inFlight
    /\ dg' = [dg EXCEPT !.inFlight = FALSE, !.receive = "Completed", !.event = TRUE,
                        !.rundown = FALSE, !.calling = dg.notify]
    /\ UNCHANGED <<conn, op, stopper>>

\* ... and only then calls ReceiveNotification.
ReceiveNotification ==
    /\ dg.calling
    /\ dg' = [dg EXCEPT !.calling = FALSE]
    /\ conn' = [conn EXCEPT !.receiveReady = TRUE, !.wake = TRUE]
    /\ UNCHANGED <<op, stopper>>

\* Fault: the socket is freed as soon as the receive has been cancelled.
StopsAfterCancel == TRUE

\* StopNetwork and Close: no more notifications, cancel, wait for the receive to
\* drain and for the rundown, then free the socket.
CanStopNetwork == ~dg.open \/ (dg.receive \in {"Idle", "Completed"} /\ ~dg.rundown)

StoppedNetwork(d) == [d EXCEPT !.open = FALSE, !.receive = "Idle", !.event = FALSE, !.notify = FALSE]

\* The first half of StopNetwork, which may then have to wait.
BeginStopNetwork(d) == IF d.open THEN CancelReceive([d EXCEPT !.notify = FALSE]) ELSE d

----------------------------------------
(* The worker. One step between two accesses to shared state.                 *)

QuicWorkerWakes ==
    /\ conn.at = "wait" /\ (conn.wake \/ HasDeadline(conn))
    /\ conn' = [conn EXCEPT !.at = IF conn.stop THEN "exited" ELSE "deferred"]
    /\ UNCHANGED <<op, dg, stopper>>

\* A write that pacing held back is tried again when its time has come.
RetryDeferred ==
    /\ conn.at = "deferred"
    /\ \/ conn' = [conn EXCEPT !.at = "queue"]
       \/ /\ conn.deferred # NoOp
          /\ conn' = [conn EXCEPT !.at = "process", !.current = conn.deferred, !.deferred = NoOp]
    /\ UNCHANGED <<op, dg, stopper>>

\* Dequeue clears the event when nothing is left to do.
Dequeue ==
    /\ conn.at = "queue"
    /\ IF conn.deferred # NoOp THEN conn' = [conn EXCEPT !.at = "receive"]
       ELSE IF conn.queue = <<>>
       THEN conn' = [conn EXCEPT !.at = "receive", !.wake = @ /\ conn.receiveReady]
       ELSE conn' = [conn EXCEPT !.at = "process", !.current = Head(conn.queue), !.queue = Tail(@),
                                 !.wake = @ /\ (Len(conn.queue) > 1 \/ conn.receiveReady)]
    /\ UNCHANGED <<op, dg, stopper>>

\* After Process: the loop over the queue ends on stop and on a deferred command.
AfterProcess(c) == IF c.stop \/ c.deferred # NoOp THEN "receive" ELSE "queue"

Processed(c) == [[c EXCEPT !.current = NoOp] EXCEPT !.at = AfterProcess(c)]

\* Connect: StartNetwork opens the socket and arms the receive, or fails.
ProcessConnect ==
    /\ conn.at = "process" /\ conn.current \in Connects
    /\ \/ /\ conn' = Processed([conn EXCEPT !.connectQueued = FALSE, !.state = "Handshaking",
                                            !.receivePending = TRUE])
          /\ dg' = StartReceive([dg EXCEPT !.open = TRUE, !.notify = TRUE])
          /\ op' = Complete(op, conn.current)
       \/ /\ conn' = Processed([conn EXCEPT !.connectQueued = FALSE, !.state = "Failed", !.established = NoOp])
          /\ op' = Complete(Complete(op, conn.established), conn.current)
          /\ UNCHANGED dg
    /\ UNCHANGED stopper

\* A write (or any stream command) is done, or waits for the pacing deadline.
ProcessWrite ==
    /\ conn.at = "process" /\ conn.current \in Writes
    /\ \/ conn' = Processed(conn) /\ op' = Complete(op, conn.current)
       \/ /\ conn.state = "Established"
          /\ conn' = Processed([conn EXCEPT !.deferred = conn.current])
          /\ UNCHANGED op
    /\ UNCHANGED <<dg, stopper>>

\* Close enters Closing; the connection goes on until the deadline.
ProcessClose ==
    /\ conn.at = "process" /\ conn.current \in Closes
    /\ conn' = Processed([conn EXCEPT !.closeQueued = FALSE, !.state = "Closing",
                                      !.deadline = TRUE, !.established = NoOp])
    /\ op' = Complete(Complete(op, conn.established), conn.current)
    /\ UNCHANGED <<dg, stopper>>

\* Fault: the event is cleared without a look at the queue.
CollectReceiveClearsWake ==
    /\ conn.at = "receive"
    /\ conn' = [conn EXCEPT !.receiveReady = FALSE, !.wake = FALSE,
                            !.at = IF conn.receiveReady /\ ~conn.stop THEN "datagram" ELSE "deadlines"]
    /\ UNCHANGED <<op, dg, stopper>>

\* The worker takes the receive flag and clears the event under the lock.
CollectReceive ==
    /\ conn.at = "receive"
    /\ conn' = [conn EXCEPT !.receiveReady = FALSE,
                            !.wake = @ /\ conn.queue # <<>> /\ conn.deferred = NoOp,
                            !.at = IF conn.receiveReady /\ ~conn.stop THEN "datagram" ELSE "deadlines"]
    /\ UNCHANGED <<op, dg, stopper>>

\* FailConnection: a close frame, Failed, and the answer to WaitEstablished.
Failed(c) == [c EXCEPT !.state = "Failed", !.deadline = TRUE, !.established = NoOp]

\* ProcessReceiveCompletion: the datagram changes the connection and the
\* receive is armed again unless the connection is ending.
ProcessDatagram ==
    /\ conn.at = "datagram" /\ (conn.receivePending => dg.event)
    /\ LET c == [conn EXCEPT !.receivePending = FALSE, !.at = "deadlines"]
           d == CompleteReceive(dg)
       IN IF ~conn.receivePending
          THEN conn' = Failed([conn EXCEPT !.at = "deadlines"]) /\ UNCHANGED dg /\ op' = Complete(op, conn.established)
          ELSE \/ /\ conn.state \notin Ending
                  /\ conn' = [c EXCEPT !.receivePending = TRUE] /\ dg' = StartReceive(d) /\ UNCHANGED op
               \/ /\ conn.state = "Handshaking"
                  /\ conn' = [c EXCEPT !.state = "Established", !.receivePending = TRUE, !.established = NoOp]
                  /\ dg' = StartReceive(d) /\ op' = Complete(op, conn.established)
               \/ /\ conn.state \in {"Handshaking", "Established"}
                  /\ conn' = [c EXCEPT !.state = "Draining", !.deadline = TRUE, !.established = NoOp]
                  /\ dg' = d /\ op' = Complete(op, conn.established)
               \/ conn' = Failed(c) /\ dg' = d /\ op' = Complete(op, conn.established)
               \/ /\ conn.state \in Ending
                  /\ conn' = c /\ dg' = d /\ UNCHANGED op
    /\ UNCHANGED stopper

\* ProcessDeadlines: nothing is due, the idle time-out begins a close, or the
\* last deadline of an ending connection has passed.
ProcessDeadlines ==
    /\ conn.at = "deadlines"
    /\ \/ conn' = [conn EXCEPT !.at = "wait"] /\ UNCHANGED <<op, dg>>
       \/ /\ ~conn.stop /\ conn.state \in {"Handshaking", "Established"}
          /\ conn' = [conn EXCEPT !.at = "wait", !.state = "Closing", !.deadline = TRUE]
          /\ UNCHANGED <<op, dg>>
       \/ /\ ~conn.stop /\ conn.state \in Ending /\ conn.deadline
          /\ conn' = [conn EXCEPT !.at = "stopping", !.state = "Closed", !.established = NoOp]
          /\ op' = Complete(op, conn.established)
          /\ dg' = BeginStopNetwork(dg)
    /\ UNCHANGED stopper

\* The rest of TransitionToClosed: StopNetwork, stop_ and the wake-up.
TransitionToClosed ==
    /\ conn.at = "stopping" /\ CanStopNetwork
    /\ dg' = StoppedNetwork(dg)
    /\ conn' = [conn EXCEPT !.at = "wait", !.stop = TRUE, !.wake = TRUE,
                            !.receivePending = FALSE, !.receiveReady = FALSE]
    /\ UNCHANGED <<op, stopper>>

QuicWorkerStep ==
    \/ QuicWorkerWakes \/ RetryDeferred \/ Dequeue \/ ProcessConnect \/ ProcessWrite \/ ProcessClose
    \/ CollectReceive \/ ProcessDatagram \/ ProcessDeadlines \/ TransitionToClosed

----------------------------------------
(* Shutdown, called once by whoever destroys the connection.                  *)

ShutdownBegins ==
    /\ stopper = "outside" /\ stopper' = "stop"
    /\ op' = Complete(op, conn.established)
    /\ conn' = [conn EXCEPT !.established = NoOp]
    /\ UNCHANGED dg

ShutdownSetsStop ==
    /\ stopper = "stop" /\ stopper' = "cancel"
    /\ conn' = [conn EXCEPT !.stop = TRUE, !.wake = TRUE]
    /\ UNCHANGED <<op, dg>>

\* The socket and the flag are read without the lock.
ShutdownCancels ==
    /\ stopper = "cancel" /\ stopper' = "join"
    /\ dg' = IF dg.open /\ conn.receivePending THEN CancelReceive(dg) ELSE dg
    /\ UNCHANGED <<conn, op>>

ShutdownJoins ==
    /\ stopper = "join" /\ conn.at = "exited" /\ stopper' = "drain"
    /\ dg' = BeginStopNetwork(dg)
    /\ UNCHANGED <<conn, op>>

AllOf(ops, s) == [o \in Operations |-> IF \E i \in DOMAIN s : s[i] = o THEN Complete(ops, o)[o] ELSE ops[o]]

\* Fault: the command that pacing holds back is forgotten.
ShutdownForgetsDeferred ==
    /\ stopper = "drain" /\ CanStopNetwork /\ stopper' = "done"
    /\ op' = AllOf(op, conn.queue)
    /\ conn' = [conn EXCEPT !.queue = <<>>]
    /\ dg' = StoppedNetwork(dg)

\* StopNetwork, then every command that is left is answered.
ShutdownDrains ==
    /\ stopper = "drain" /\ CanStopNetwork /\ stopper' = "done"
    /\ op' = Complete(AllOf(op, conn.queue), conn.deferred)
    /\ conn' = [conn EXCEPT !.queue = <<>>, !.deferred = NoOp]
    /\ dg' = StoppedNetwork(dg)

ShutdownStep == ShutdownSetsStop \/ ShutdownCancels \/ ShutdownJoins \/ ShutdownDrains

QuicNext ==
    \/ \E o \in Commands : Enqueue(o)
    \/ \E o \in Waits : WaitEstablished(o)
    \/ ReceiveCompletes \/ ReceiveNotification
    \/ QuicWorkerStep
    \/ ShutdownBegins \/ ShutdownStep

\* A cancelled receive completes, a completion routine runs on, the worker and
\* a shutdown that has begun are scheduled, and deadlines and pacing expire.
QuicFairness ==
    /\ WF_quicVars(QuicWorkerStep) /\ WF_quicVars(ReceiveNotification)
    /\ WF_quicVars(dg.receive = "CancelPending" /\ ReceiveCompletes)
    /\ WF_quicVars(ShutdownStep)
    /\ SF_quicVars(RetryDeferred /\ conn.deferred # NoOp /\ conn'.deferred = NoOp)
    /\ SF_quicVars(ProcessDeadlines /\ conn.state # conn'.state)
    /\ SF_quicVars(ProcessWrite /\ conn.current # NoOp /\ conn'.deferred = NoOp)

QuicSpec == QuicInit /\ [][QuicNext]_quicVars /\ QuicFairness

----------------------------------------
(* The receive buffer is given back only when the provider no longer has the  *)
(* IRP, and a socket is freed only after the last receive has left it,        *)
(* whoever cancels and whenever the completion arrives.                       *)
BufferOutlivesReceive ==
    dg.inFlight => dg.open /\ dg.receive \in {"Pending", "CancelPending"}

(* When Shutdown has returned, no caller is left waiting: every operation     *)
(* that was claimed has been completed.                                       *)
ShutdownAnswersAll == stopper = "done" => \A o \in Operations : op[o] # "Queued"

(* A command that was queued is answered, unless the connection stops first:  *)
(* no wake-up is lost between the caller, the worker and the receive.         *)
CommandsAreAnswered ==
    \A o \in Operations : (op[o] = "Queued") ~> (op[o] = "Completed" \/ conn.stop)

(* Shutdown returns. It does not: the worker may clear the event that         *)
(* Shutdown has set and go to sleep without looking at stop_.                 *)
ShutdownReturns == (stopper = "stop") ~> (stopper = "done")

(* Whoever stops the worker, no memory the provider writes to goes away and   *)
(* no caller is left behind.                                                  *)
WorkerStopsCleanly == BufferOutlivesReceive /\ ShutdownAnswersAll
=============================================================================
