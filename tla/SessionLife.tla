---------------------------- MODULE SessionLife ----------------------------
(* Sessions and WebSockets in the active-handle table: creation with its     *)
(* roll-back, operations that pin a handle, close with its drain, the        *)
(* unload loop that closes what is left, and the network-change monitor      *)
(* whose worker calls back into sessions (session/EngineHandleTable.cpp,     *)
(* session/SessionLife.cpp, session/WsClose.cpp, net/NetworkChangeMonitor).  *)
(* A thread is a record: where it is, the handle it works on and the number  *)
(* of steps of a multi-step job it has behind it.                            *)
EXTENDS Naturals, Sequences, FiniteSets

CONSTANTS Sessions, WebSockets, Threads,
          Driver,               \* the thread of DriverUnload
          MaxSubscribers,       \* NetworkChangeMonitor::MaximumSubscribers
          MaxNotifications      \* bound: interface changes in a behaviour

ASSUME SessionLifeConstants ==
    /\ Driver \notin Threads /\ Sessions \cap WebSockets = {}
    /\ IsFiniteSet(Threads)
    /\ MaxSubscribers \in Nat /\ MaxNotifications \in Nat

VARIABLES phase,        \* life of a handle
          inFlight,     \* operations that pin a handle
          held,         \* what a session owns
          table,        \* kind -> active handles, newest first
          thread,       \* thread -> what it is doing
          loop,         \* where EngineCloseActiveHandles stands
          monitor       \* NetworkChangeMonitor

sessionVars == <<phase, inFlight, held, table, thread, loop, monitor>>

Handles == Sessions \cup WebSockets
Actors == Threads \cup {Driver}
KindOf(h) == IF h \in Sessions THEN "Session" ELSE "WebSocket"

CreateOrder == <<"workspace", "provider", "altSvc", "subscription", "pool", "keepAlive">>
RollbackOrder == <<"keepAlive", "pool", "subscription", "altSvc", "provider", "workspace">>
CloseOrder == <<"subscription", "drain", "keepAlive", "pool", "altSvc", "provider", "workspace">>

Idle == [at |-> "idle", h |-> "none", step |-> 0]
Doing(at, h, step) == [at |-> at, h |-> h, step |-> step]

SessionInit ==
    /\ phase = [h \in Handles |-> "absent"]
    /\ inFlight = [h \in Handles |-> 0]
    /\ held = [s \in Sessions |-> {}]
    /\ table = [k \in {"Session", "WebSocket"} |-> <<>>]
    /\ thread = [t \in Actors |-> Idle]
    /\ loop = "running"
    /\ monitor = [state |-> "down", event |-> FALSE, pending |-> 0, sent |-> 0,
                  subscribers |-> {}, worker |-> "wait", snapshot |-> {}, inCall |-> "none"]

----------------------------------------
(* The active-handle table. Every operator is one critical section.          *)

RegisterActiveHandle(h) == table' = [table EXCEPT ![KindOf(h)] = <<h>> \o @]

IsActiveHandle(h) == \E i \in DOMAIN table[KindOf(h)] : table[KindOf(h)][i] = h

\* The link that leads to the handle is made to lead to the one behind it.
Unlink(h) ==
    LET list == table[KindOf(h)]
        at == CHOOSE i \in DOMAIN list : list[i] = h
    IN table' = [table EXCEPT ![KindOf(h)] =
                    [i \in 1..(Len(list) - 1) |-> IF i < at THEN list[i] ELSE list[i + 1]]]

\* Fault: the handle is pinned whether or not it is still in the table.
BeginWithoutLookup(t, h) ==
    /\ thread[t] = Idle /\ phase[h] # "absent"
    /\ inFlight' = [inFlight EXCEPT ![h] = @ + 1]
    /\ thread' = [thread EXCEPT ![t] = Doing("operating", h, 0)]
    /\ UNCHANGED <<phase, held, table, loop, monitor>>

\* A call that finds its handle in the table pins it; any other call returns.
BeginHandleOperation(t, h) ==
    /\ thread[t] = Idle
    /\ IsActiveHandle(h) /\ phase[h] = "active"
    /\ inFlight' = [inFlight EXCEPT ![h] = @ + 1]
    /\ thread' = [thread EXCEPT ![t] = Doing("operating", h, 0)]
    /\ UNCHANGED <<phase, held, table, loop, monitor>>

\* Fault: the end of an operation looks its handle up in the table first.
EndOnlyIfActive(t) ==
    /\ thread[t].at = "operating"
    /\ thread' = [thread EXCEPT ![t] = Idle]
    /\ inFlight' = [inFlight EXCEPT ![thread[t].h] = IF IsActiveHandle(thread[t].h) THEN @ - 1 ELSE @]
    /\ UNCHANGED <<phase, held, table, loop, monitor>>

\* The decrement; the thread that reaches zero has the drain event left to set.
EndHandleOperation(t) ==
    /\ thread[t].at = "operating"
    /\ LET h == thread[t].h IN
       /\ inFlight' = [inFlight EXCEPT ![h] = @ - 1]
       /\ thread' = [thread EXCEPT ![t] = IF inFlight[h] = 1 THEN Doing("signal", h, 0) ELSE Idle]
    /\ UNCHANGED <<phase, held, table, loop, monitor>>

SetDrainEvent(t) ==
    /\ thread[t].at = "signal"
    /\ thread' = [thread EXCEPT ![t] = Idle]
    /\ UNCHANGED <<phase, inFlight, held, table, loop, monitor>>

\* Whether the loop of WaitForHandleDrain lets the closing thread go on. It
\* reads the counter again after every wake-up and every time-out.
DrainedEnough(h) == inFlight[h] = 0

----------------------------------------
(* SessionCreate, and the WebSocket that a connect operation leaves behind.  *)

SessionCreate(t, s) ==
    /\ thread[t] = Idle /\ phase[s] = "absent" /\ loop = "running"
    /\ phase' = [phase EXCEPT ![s] = "creating"]
    /\ thread' = [thread EXCEPT ![t] = Doing("creating", s, 0)]
    /\ UNCHANGED <<inFlight, held, table, loop, monitor>>

CanSubscribe == monitor.state = "up" /\ Cardinality(monitor.subscribers) < MaxSubscribers

\* One acquisition of SessionCreate succeeds.
AcquireResource(t) ==
    /\ thread[t].at = "creating" /\ thread[t].step < Len(CreateOrder)
    /\ LET s == thread[t].h
           r == CreateOrder[thread[t].step + 1]
       IN /\ r = "subscription" => CanSubscribe
          /\ held' = [held EXCEPT ![s] = @ \cup {r}]
          /\ monitor' = IF r = "subscription"
                        THEN [monitor EXCEPT !.subscribers = @ \cup {s}] ELSE monitor
          /\ thread' = [thread EXCEPT ![t].step = @ + 1]
    /\ UNCHANGED <<phase, inFlight, table, loop>>

\* One acquisition fails: what was acquired before it is given back.
AcquireFails(t) ==
    /\ thread[t].at = "creating" /\ thread[t].step < Len(CreateOrder)
    /\ thread' = [thread EXCEPT ![t] = Doing("rollback", @.h, 0)]
    /\ UNCHANGED <<phase, inFlight, held, table, loop, monitor>>

RegisterSession(t) ==
    /\ thread[t].at = "creating" /\ thread[t].step = Len(CreateOrder)
    /\ RegisterActiveHandle(thread[t].h)
    /\ phase' = [phase EXCEPT ![thread[t].h] = "active"]
    /\ thread' = [thread EXCEPT ![t] = Idle]
    /\ UNCHANGED <<inFlight, held, loop, monitor>>

\* CompleteWebSocketConnect runs inside an operation on the session.
WebSocketConnected(t, w) ==
    /\ thread[t].at = "operating" /\ thread[t].h \in Sessions /\ phase[w] = "absent"
    /\ RegisterActiveHandle(w)
    /\ phase' = [phase EXCEPT ![w] = "active"]
    /\ UNCHANGED <<inFlight, held, thread, loop, monitor>>

----------------------------------------
(* Giving back: the roll-back of SessionCreate and SessionClose.             *)

\* Unsubscribe clears the slot under the lock; it does not wait for a callback
\* that the worker has already taken into its snapshot.
WithoutResource(s, r) ==
    /\ held' = [held EXCEPT ![s] = @ \ {r}]
    /\ monitor' = IF r = "subscription"
                  THEN [monitor EXCEPT !.subscribers = @ \ {s}] ELSE monitor

\* Fault: the failure paths of SessionCreate forget the subscription.
RollbackKeepsSubscription(t) ==
    /\ thread[t].at = "rollback"
    /\ LET s == thread[t].h
           n == thread[t].step + 1
       IN IF n > Len(RollbackOrder)
          THEN /\ phase' = [phase EXCEPT ![s] = "freed"]
               /\ thread' = [thread EXCEPT ![t] = Idle]
               /\ UNCHANGED <<held, monitor>>
          ELSE /\ held' = [held EXCEPT ![s] = @ \ {RollbackOrder[n]}]
               /\ thread' = [thread EXCEPT ![t].step = n]
               /\ UNCHANGED <<phase, monitor>>
    /\ UNCHANGED <<inFlight, table, loop>>

Rollback(t) ==
    /\ thread[t].at = "rollback"
    /\ LET s == thread[t].h
           n == thread[t].step + 1
       IN IF n > Len(RollbackOrder)
          THEN /\ phase' = [phase EXCEPT ![s] = "freed"]
               /\ thread' = [thread EXCEPT ![t] = Idle]
               /\ UNCHANGED <<held, monitor>>
          ELSE /\ WithoutResource(s, RollbackOrder[n])
               /\ thread' = [thread EXCEPT ![t].step = n]
               /\ UNCHANGED phase
    /\ UNCHANGED <<inFlight, table, loop>>

\* What the calling thread does once its close has returned.
Returned(t, ok) ==
    IF t # Driver THEN Idle
    ELSE Doing(IF ok THEN "check" ELSE "failed", thread[t].h, 0)

\* TryCloseActiveHandle: Closed is set and the handle unlinked in one critical
\* section, so exactly one of several closing threads goes on.
TryCloseActiveHandle(t, h) ==
    /\ thread[t] = Idle \/ (thread[t].at = "close" /\ thread[t].h = h)
    /\ phase[h] # "absent"
    /\ IF IsActiveHandle(h) /\ phase[h] = "active"
       THEN /\ Unlink(h)
            /\ phase' = [phase EXCEPT ![h] = "draining"]
            /\ thread' = [thread EXCEPT ![t] = Doing("closing", h, 0)]
       ELSE /\ thread' = [thread EXCEPT ![t] = Returned(t, h \in Sessions)]
            /\ UNCHANGED <<phase, table>>
    /\ UNCHANGED <<inFlight, held, loop, monitor>>

Free(t, h) ==
    /\ phase' = [phase EXCEPT ![h] = "freed"]
    /\ thread' = [thread EXCEPT ![t] = Returned(t, TRUE)]
    /\ UNCHANGED <<held, monitor>>

\* SessionClose after TryClose: unsubscribe, drain, then take the session apart.
SessionCloseStep(t) ==
    /\ thread[t].at = "closing" /\ thread[t].h \in Sessions
    /\ LET s == thread[t].h
           n == thread[t].step + 1
       IN IF n > Len(CloseOrder) THEN Free(t, s)
          ELSE /\ CloseOrder[n] = "drain" => DrainedEnough(s)
               /\ WithoutResource(s, CloseOrder[n])
               /\ thread' = [thread EXCEPT ![t].step = n]
               /\ UNCHANGED phase
    /\ UNCHANGED <<inFlight, table, loop>>

\* WebSocketCloseSyncImpl and WebSocketCloseExSyncImpl: drain, close, free.
WebSocketCloseStep(t) ==
    /\ thread[t].at = "closing" /\ thread[t].h \in WebSockets
    /\ DrainedEnough(thread[t].h)
    /\ Free(t, thread[t].h)
    /\ UNCHANGED <<inFlight, table, loop>>

----------------------------------------
(* EngineCloseActiveHandles, called once by DriverUnload.                    *)

BeginUnload ==
    /\ loop = "running" /\ loop' = "WebSocket"
    /\ UNCHANGED <<phase, inFlight, held, table, thread, monitor>>

NextLoop == IF loop = "WebSocket" THEN "Session" ELSE "monitor"

\* FirstActiveWebSocketHandle and FirstActiveSessionHandle.
FirstActive ==
    /\ loop \in {"WebSocket", "Session"} /\ thread[Driver] = Idle
    /\ IF table[loop] = <<>>
       THEN loop' = NextLoop /\ UNCHANGED thread
       ELSE /\ thread' = [thread EXCEPT ![Driver] = Doing("close", Head(table[loop]), 0)]
            /\ UNCHANGED loop
    /\ UNCHANGED <<phase, inFlight, held, table, monitor>>

\* After a close: the loop ends when the close failed or changed nothing.
CheckClosed ==
    /\ thread[Driver].at \in {"check", "failed"}
    /\ loop' = IF \/ thread[Driver].at = "failed"
                  \/ table[loop] # <<>> /\ Head(table[loop]) = thread[Driver].h
               THEN NextLoop ELSE loop
    /\ thread' = [thread EXCEPT ![Driver] = Idle]
    /\ UNCHANGED <<phase, inFlight, held, table, monitor>>

----------------------------------------
(* NetworkChangeMonitor.                                                     *)

MonitorInitialize ==
    /\ monitor.state = "down" /\ loop = "running" /\ monitor.sent = 0
    /\ monitor' = [monitor EXCEPT !.state = "up"]
    /\ UNCHANGED <<phase, inFlight, held, table, thread, loop>>

\* The interface callback counts and sets the worker's event.
Notify ==
    /\ monitor.state = "up" /\ monitor.sent < MaxNotifications
    /\ monitor' = [monitor EXCEPT !.pending = @ + 1, !.event = TRUE, !.sent = @ + 1]
    /\ UNCHANGED <<phase, inFlight, held, table, thread, loop>>

\* The worker wakes: it leaves when it is asked to stop.
WorkerWakes ==
    /\ monitor.worker = "wait" /\ monitor.event /\ monitor.state # "down"
    /\ monitor' = [monitor EXCEPT !.event = FALSE,
                     !.worker = IF monitor.state = "stopping" THEN "exited" ELSE "check"]
    /\ UNCHANGED <<phase, inFlight, held, table, thread, loop>>

\* Fault: the counter is cleared after the snapshot.
TakeSnapshotFirst ==
    /\ \/ /\ monitor.worker = "check"
          /\ monitor' = IF monitor.pending = 0 THEN [monitor EXCEPT !.worker = "wait"]
                        ELSE [monitor EXCEPT !.snapshot = @ \cup monitor.subscribers, !.worker = "snapshot"]
       \/ /\ monitor.worker = "snapshot"
          /\ monitor' = [monitor EXCEPT !.worker = "call", !.pending = 0]
    /\ UNCHANGED <<phase, inFlight, held, table, thread, loop>>

\* ProcessPendingNotifications: clear the counter, then copy the subscribers.
TakeNotifications ==
    /\ \/ /\ monitor.worker = "check"
          /\ monitor' = IF monitor.pending = 0 THEN [monitor EXCEPT !.worker = "wait"]
                        ELSE [monitor EXCEPT !.pending = 0, !.worker = "snapshot"]
       \/ /\ monitor.worker = "snapshot"
          /\ monitor' = [monitor EXCEPT !.snapshot = monitor.subscribers, !.worker = "call"]
    /\ UNCHANGED <<phase, inFlight, held, table, thread, loop>>

\* The callbacks run without the lock. Their order in the array is left open.
CallSubscriber ==
    /\ monitor.worker = "call" /\ monitor.inCall = "none"
    /\ IF monitor.snapshot = {} THEN monitor' = [monitor EXCEPT !.worker = "check"]
       ELSE \E s \in monitor.snapshot :
              monitor' = [monitor EXCEPT !.inCall = s, !.snapshot = @ \ {s}]
    /\ UNCHANGED <<phase, inFlight, held, table, thread, loop>>

\* OnSessionNetworkChanged returns.
CallbackReturns ==
    /\ monitor.inCall # "none"
    /\ monitor' = [monitor EXCEPT !.inCall = "none"]
    /\ UNCHANGED <<phase, inFlight, held, table, thread, loop>>

\* Shutdown: cancel the notification, ask the worker to stop, join it, clear.
MonitorShutdown ==
    /\ loop = "monitor"
    /\ \/ /\ monitor.state = "up"
          /\ monitor' = [monitor EXCEPT !.state = "stopping", !.event = TRUE]
          /\ UNCHANGED loop
       \/ /\ monitor.state = "stopping" /\ monitor.worker = "exited"
          /\ monitor' = [monitor EXCEPT !.state = "down", !.subscribers = {}, !.pending = 0]
          /\ loop' = "unloaded"
       \/ /\ monitor.state = "down" /\ loop' = "unloaded" /\ UNCHANGED monitor
    /\ UNCHANGED <<phase, inFlight, held, table, thread>>

----------------------------------------
ThreadStep(t) ==
    \/ EndHandleOperation(t) \/ SetDrainEvent(t) \/ AcquireResource(t) \/ RegisterSession(t)
    \/ Rollback(t) \/ SessionCloseStep(t) \/ WebSocketCloseStep(t)
    \/ thread[t].at = "close" /\ TryCloseActiveHandle(t, thread[t].h)

WorkerStep == WorkerWakes \/ TakeNotifications \/ CallSubscriber \/ CallbackReturns

UnloadStep == FirstActive \/ CheckClosed \/ MonitorShutdown

SessionNext ==
    \/ \E t \in Actors : ThreadStep(t)
    \/ \E t \in Threads : AcquireFails(t)
    \/ \E t \in Threads, h \in Handles :
          thread[t] = Idle /\ (BeginHandleOperation(t, h) \/ TryCloseActiveHandle(t, h))
    \/ \E t \in Threads, s \in Sessions : SessionCreate(t, s)
    \/ \E t \in Threads, w \in WebSockets : WebSocketConnected(t, w)
    \/ BeginUnload \/ UnloadStep
    \/ MonitorInitialize \/ Notify \/ WorkerStep

\* Every thread is scheduled: a call that was begun goes on, the worker and the
\* unload loop run. Nobody has to begin a call, and no acquisition has to work.
SessionFairness ==
    /\ \A t \in Actors : WF_sessionVars(ThreadStep(t))
    /\ WF_sessionVars(WorkerStep) /\ WF_sessionVars(UnloadStep)

SessionSpec == SessionInit /\ [][SessionNext]_sessionVars /\ SessionFairness

----------------------------------------
(* Between BeginHandleOperation and EndHandleOperation the handle is not      *)
(* freed and the session still has every part an operation may use, whoever   *)
(* closes it meanwhile.                                                       *)
OperationsPinHandle ==
    \A t \in Actors : thread[t].at = "operating" =>
        LET h == thread[t].h IN
        /\ phase[h] \in {"active", "draining"}
        /\ h \in Sessions => {"workspace", "provider", "altSvc", "pool"} \subseteq held[h]

(* A freed session is known to nobody who could find it again: it is not in   *)
(* the table, it is not subscribed, and it owns nothing, whether it was       *)
(* closed or its creation failed half-way.                                    *)
FreedIsForgotten ==
    \A s \in Sessions : phase[s] = "freed" =>
        ~IsActiveHandle(s) /\ s \notin monitor.subscribers /\ held[s] = {}

(* A network change reaches every session that is subscribed when it is       *)
(* reported, unless the session unsubscribes or the monitor stops first.      *)
NetworkChangeIsDelivered ==
    \A s \in Sessions :
        (monitor.pending > 0 /\ s \in monitor.subscribers) ~>
            (monitor.inCall = s \/ s \notin monitor.subscribers \/ monitor.state # "up")

(* EngineCloseActiveHandles leaves no session behind that was active when it  *)
(* began, although operations are running on it and other threads may close   *)
(* the session it has just looked up: every close it begins or loses ends.    *)
UnloadClosesSessions ==
    \A s \in Sessions : (loop = "WebSocket" /\ phase[s] = "active") ~> (phase[s] = "freed")

(* A handle outlives its operations and is forgotten by everyone when freed.  *)
HandlesOutliveUse == OperationsPinHandle /\ FreedIsForgotten

(* A session hears of a change of the network while it lives, and unloading   *)
(* the driver ends it.                                                        *)
SessionsAreServed == NetworkChangeIsDelivered /\ UnloadClosesSessions
=============================================================================
