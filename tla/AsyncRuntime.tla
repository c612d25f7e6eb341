---------------------------- MODULE AsyncRuntime ----------------------------
\* The asynchronous runtime of wknet (session/Async.cpp, kernel build):
\* reference-counted AsyncOperation objects, a bounded FIFO served by a
\* pool of system threads, cancellation, waiting, and EngineDrainAsync,
\* which a driver calls before it unloads.
\*
\* Every thread has a program counter.  A step is one interlocked access,
\* one critical section of g_asyncQueueLock, or one access that commutes
\* with the neighbours it is merged with.  Clients are the threads that
\* call the Async.h interface; Drainer is the thread that unloads.
EXTENDS Naturals, Sequences, FiniteSets, SequencesExt

CONSTANTS Ops,            \* AsyncOperation objects that may be allocated
          Clients,        \* threads calling AsyncOperation*
          Workers,        \* g_asyncWorkers
          Drainer,        \* the thread calling EngineDrainAsync
          NoOp,           \* nullptr
          MaxQueueDepth,  \* g_asyncMaxQueueDepth
          MaxDrains       \* bound: calls of EngineDrainAsync

\* AsyncRuntimeConfigure accepts 1..16 workers and a depth of at least 16.
ASSUME RuntimeAssumption ==
    /\ IsFiniteSet(Workers) /\ Workers # {}
    /\ IsFiniteSet(Clients) /\ IsFiniteSet(Ops)
    /\ MaxQueueDepth \in Nat /\ MaxDrains \in Nat
    /\ Cardinality(Workers) <= MaxQueueDepth
    /\ Workers \cap Clients = {} /\ Drainer \notin Workers \cup Clients
    /\ NoOp \notin Ops

VARIABLES
    runtimeState,  \* g_asyncRuntimeState: 0 none, 1 starting, 2 running, 3 stopped
    stopped,       \* g_asyncQueueStopped
    queue,         \* g_asyncQueueHead .. Tail
    semaphore,     \* count of g_asyncQueueSemaphore
    inFlight,      \* g_asyncInFlight
    drainEvent,    \* g_asyncDrainEvent is signalled
    workerOps,     \* g_asyncWorkerOperations
    op,            \* the AsyncOperation objects
    pc, cur,       \* per thread: next step, operation it works on
    verdict,       \* per thread: the status CompleteOperation will publish
    unlinked,      \* the list the drainer took off the queue
    drains,        \* calls of EngineDrainAsync so far
    drained        \* what the last EngineDrainAsync returned

runtimeVars == <<runtimeState, stopped, queue, semaphore>>
drainVars   == <<unlinked, drains, drained>>
vars == <<runtimeVars, inFlight, drainEvent, workerOps, op, pc, cur, verdict,
          drainVars>>

Threads == Workers \cup Clients \cup {Drainer}
WorkerCount == Cardinality(Workers)
SemaphoreLimit == MaxQueueDepth + WorkerCount

\* STATUS_PENDING, STATUS_CANCELLED, and any other status a routine returns.
Statuses == {"pending", "cancelled", "finished"}

ClientLabels == {"idle", "q_ensure", "start", "start_failed", "start_join",
                 "q_claim", "q_check", "q_begin", "q_clear", "q_enqueue",
                 "q_signal", "q_end", "q_set", "q_release",
                 "x_flag", "x_state"}
WorkerLabels == {"none", "w_wait", "w_dequeue", "r_check", "r_running",
                 "r_work", "w_clear", "w_release", "w_end", "w_set", "exited"}
DrainLabels  == {"idle", "d_unlink", "d_next", "d_release", "d_end", "d_set",
                 "d_cancel", "d_wake", "d_wait", "d_event", "d_join"}
CompleteLabels == {"c_cas", "c_publish", "c_event", "c_callback"}

\* AllocateOperation and the initialisation AsyncOperationCreate does.
NewOperation == [memory |-> "live", refs |-> 1, canceled |-> FALSE,
                 completed |-> FALSE, state |-> "Pending",
                 status |-> "pending", queued |-> FALSE, closed |-> FALSE,
                 event |-> FALSE, callbacks |-> 0]

AbsentOperation == [NewOperation EXCEPT !.memory = "absent", !.refs = 0]

Init == /\ runtimeState = 0 /\ stopped = FALSE /\ queue = <<>>
        /\ semaphore = 0 /\ inFlight = 0 /\ drainEvent = FALSE
        /\ workerOps = [w \in Workers |-> NoOp]
        /\ op = [o \in Ops |-> AbsentOperation]
        /\ pc = [t \in Threads |-> IF t \in Workers THEN "none" ELSE "idle"]
        /\ cur = [t \in Threads |-> NoOp]
        /\ verdict = [t \in Threads |-> "pending"]
        /\ unlinked = <<>> /\ drains = 0 /\ drained = "pending"

----------------------------------------
(* Helpers *)

\* Thread t is at label `from` and moves to `to`.
Goto(t, from, to) == pc[t] = from /\ pc' = [pc EXCEPT ![t] = to]

\* Thread t leaves the call it is in, forgetting its operation.
Return(t, from, to) == Goto(t, from, to) /\ cur' = [cur EXCEPT ![t] = NoOp]

IsOpen(o) == op[o].memory = "live" /\ ~op[o].closed

\* The record of an operation after ReleaseRef: the last reference runs the
\* cleanup routine and frees the object.
Released(r) == [r EXCEPT !.refs = @ - 1,
                         !.memory = IF r.refs = 1 THEN "freed" ELSE @]

\* Labels at which a thread still dereferences its operation.
TouchLabels == {"q_ensure", "start", "start_failed", "start_join", "q_claim",
                "q_check", "q_begin", "q_clear", "q_enqueue", "q_end", "q_set",
                "q_release", "x_flag", "x_state", "r_check",
                "r_running", "r_work", "w_clear", "w_release", "d_release"}
               \cup CompleteLabels

\* Where CompleteOperation returns to.
AfterComplete(t) == CASE t \in Clients -> "idle"
                      [] t \in Workers -> "w_clear"
                      [] OTHER -> "d_release"

EnterComplete(t, from, status) ==
    /\ Goto(t, from, "c_cas")
    /\ verdict' = [verdict EXCEPT ![t] = status]

LeaveComplete(t, from) ==
    /\ Goto(t, from, AfterComplete(t))
    /\ cur' = [cur EXCEPT ![t] = IF t \in Clients THEN NoOp ELSE @]
    /\ verdict' = [verdict EXCEPT ![t] = "pending"]

----------------------------------------
(* CompleteOperation: the compare-and-swap on Completed elects one caller. *)

\* Fault: Completed is set without the compare-and-swap.
TryCompleteNoSwap(t) ==
    /\ Goto(t, "c_cas", "c_publish")
    /\ op' = [op EXCEPT ![cur[t]].completed = TRUE]
    /\ UNCHANGED <<runtimeVars, inFlight, drainEvent, workerOps, cur, verdict, drainVars>>


TryComplete(t) ==
    /\ pc[t] = "c_cas"
    /\ IF op[cur[t]].completed
         THEN LeaveComplete(t, "c_cas") /\ UNCHANGED op
         ELSE /\ Goto(t, "c_cas", "c_publish")
              /\ op' = [op EXCEPT ![cur[t]].completed = TRUE]
              /\ UNCHANGED <<cur, verdict>>
    /\ UNCHANGED <<runtimeVars, inFlight, drainEvent, workerOps, drainVars>>

\* Fault: the event is signalled before the status is written.
PublishCompletionEarlyEvent(t) ==
    /\ Goto(t, "c_publish", "c_event")
    /\ op' = [op EXCEPT ![cur[t]].event = TRUE]
    /\ UNCHANGED <<runtimeVars, inFlight, drainEvent, workerOps, cur, verdict, drainVars>>


PublishCompletion(t) ==
    /\ Goto(t, "c_publish", "c_event")
    /\ op' = [op EXCEPT ![cur[t]].status = verdict[t],
                        ![cur[t]].state = "Completed"]
    /\ UNCHANGED <<runtimeVars, inFlight, drainEvent, workerOps, cur, verdict, drainVars>>

SignalCompletion(t) ==
    /\ Goto(t, "c_event", "c_callback")
    /\ op' = [op EXCEPT ![cur[t]].event = TRUE]
    /\ UNCHANGED <<runtimeVars, inFlight, drainEvent, workerOps, cur, verdict, drainVars>>

\* The callback may release the handle: its caller touches nothing afterwards
\* unless it holds a reference of its own.
InvokeCallback(t) ==
    /\ LeaveComplete(t, "c_callback")
    /\ op' = [op EXCEPT ![cur[t]].callbacks = @ + 1]
    /\ UNCHANGED <<runtimeVars, inFlight, drainEvent, workerOps, drainVars>>

CompleteOperation(t) == \/ TryComplete(t) \/ PublishCompletion(t)
                        \/ SignalCompletion(t) \/ InvokeCallback(t)

----------------------------------------
(* BeginAsyncOperation and EndAsyncOperation *)

\* The decrement; whoever reaches zero goes on to signal the drain event.
EndAsyncOperation(t, from, zero, next) ==
    /\ Goto(t, from, IF inFlight = 1 THEN zero ELSE next)
    /\ inFlight' = inFlight - 1
    /\ UNCHANGED <<runtimeVars, drainEvent, workerOps, op, cur, verdict, drainVars>>

SetDrainEvent(t, from, next) ==
    /\ Goto(t, from, next)
    /\ drainEvent' = TRUE
    /\ UNCHANGED <<runtimeVars, inFlight, workerOps, op, cur, verdict, drainVars>>

----------------------------------------
(* The calls of a client *)

AsyncOperationCreate(c, o) ==
    /\ pc[c] = "idle" /\ op[o].memory = "absent"
    /\ op' = [op EXCEPT ![o] = NewOperation]
    /\ UNCHANGED <<runtimeVars, inFlight, drainEvent, workerOps, pc, cur, verdict, drainVars>>

\* A client enters AsyncOperationQueue or AsyncOperationCancel with an open
\* handle.  (AsyncOperationWait and the getters change nothing: what they may
\* see is what the invariants say of event, status and state.)
EnterCall(c, o) ==
    /\ IsOpen(o)
    /\ \E first \in {"q_ensure", "x_flag"} : Goto(c, "idle", first)
    /\ cur' = [cur EXCEPT ![c] = o]
    /\ UNCHANGED <<runtimeVars, inFlight, drainEvent, workerOps, op, verdict, drainVars>>

\* EnsureAsyncRuntimeInitialized: the first caller starts the runtime, others
\* poll while it is starting (state 1: no step).
EnsureRunning(c) ==
    /\ pc[c] = "q_ensure"
    /\ \/ /\ runtimeState = 2
          /\ pc' = [pc EXCEPT ![c] = "q_claim"]
          /\ UNCHANGED <<runtimeVars, drainEvent, cur>>
       \/ /\ runtimeState = 0
          /\ runtimeState' = 1 /\ stopped' = FALSE /\ queue' = <<>>
          /\ semaphore' = 0 /\ drainEvent' = TRUE
          /\ pc' = [pc EXCEPT ![c] = "start"]
          /\ UNCHANGED cur
       \/ /\ runtimeState = 3
          /\ Return(c, "q_ensure", "idle")
          /\ UNCHANGED <<runtimeVars, drainEvent>>
    /\ UNCHANGED <<inFlight, workerOps, op, verdict, drainVars>>

\* StartAsyncWorkers: one thread, or the end of the loop.
StartWorker(c) ==
    /\ pc[c] = "start"
    /\ \/ \E w \in Workers :
            /\ pc[w] = "none"
            /\ pc' = [pc EXCEPT ![w] = "w_wait"]
            /\ UNCHANGED runtimeState
       \/ /\ \A w \in Workers : pc[w] # "none"
          /\ pc' = [pc EXCEPT ![c] = "q_claim"]
          /\ runtimeState' = 2
    /\ UNCHANGED <<stopped, queue, semaphore, inFlight, drainEvent, workerOps, op, cur,
                   verdict, drainVars>>

\* A thread cannot be created, or not be referenced once created: the workers
\* that run are told to stop.
StartWorkerFails(c) ==
    /\ pc[c] = "start"
    /\ \E w \in Workers, created \in BOOLEAN :
         /\ pc[w] = "none"
         /\ pc' = [pc EXCEPT ![c] = "start_failed",
                             ![w] = IF created THEN "w_wait" ELSE @]
    /\ stopped' = TRUE
    /\ semaphore' = semaphore + WorkerCount
    /\ UNCHANGED <<runtimeState, queue, inFlight, drainEvent, workerOps, op, cur,
                   verdict, drainVars>>

\* The second WakeAsyncWorkers of the failure path.
StartFailedWake(c) ==
    /\ Goto(c, "start_failed", "start_join")
    /\ semaphore' = semaphore + WorkerCount
    /\ UNCHANGED <<runtimeState, stopped, queue, inFlight, drainEvent, workerOps, op,
                   cur, verdict, drainVars>>

\* The join has a timeout and its status is ignored; the call fails.
StartFailedJoin(c) ==
    /\ Return(c, "start_join", "idle")
    /\ runtimeState' = 3
    /\ UNCHANGED <<stopped, queue, semaphore, inFlight, drainEvent, workerOps, op,
                   verdict, drainVars>>

\* Only a Pending operation that was not queued before passes.
QueueClaim(c) ==
    /\ pc[c] = "q_claim"
    /\ IF op[cur[c]].state # "Pending" \/ op[cur[c]].queued
         THEN Return(c, "q_claim", "idle") /\ UNCHANGED op
         ELSE /\ Goto(c, "q_claim", "q_check")
              /\ op' = [op EXCEPT ![cur[c]].queued = TRUE]
              /\ UNCHANGED cur
    /\ UNCHANGED <<runtimeVars, inFlight, drainEvent, workerOps, verdict, drainVars>>

\* A cancelled operation completes at once; any other gets the queue's reference.
QueueCheckCanceled(c) ==
    /\ pc[c] = "q_check"
    /\ \/ /\ op[cur[c]].canceled
          /\ EnterComplete(c, "q_check", "cancelled")
          /\ UNCHANGED op
       \/ /\ ~op[cur[c]].canceled
          /\ Goto(c, "q_check", "q_begin")
          /\ op' = [op EXCEPT ![cur[c]].refs = @ + 1]
          /\ UNCHANGED verdict
    /\ UNCHANGED <<runtimeVars, inFlight, drainEvent, workerOps, cur, drainVars>>

\* Fault: the operation is not counted.
BeginCountForgotten(c) ==
    /\ Goto(c, "q_begin", "q_clear")
    /\ UNCHANGED <<runtimeVars, inFlight, drainEvent, workerOps, op, cur, verdict, drainVars>>


BeginCount(c) ==
    /\ Goto(c, "q_begin", "q_clear")
    /\ inFlight' = inFlight + 1
    /\ UNCHANGED <<runtimeVars, drainEvent, workerOps, op, cur, verdict, drainVars>>

BeginClearEvent(c) ==
    /\ Goto(c, "q_clear", "q_enqueue")
    /\ drainEvent' = FALSE
    /\ UNCHANGED <<runtimeVars, inFlight, workerOps, op, cur, verdict, drainVars>>

\* Fault: a stopped queue still accepts.
QueueAcceptsWhenStopped == Len(queue) < MaxQueueDepth

\* EnqueueAsyncOperation's test, made with the queue lock held.
QueueAccepts == ~stopped /\ Len(queue) < MaxQueueDepth

EnqueueAsyncOperation(c) ==
    /\ IF QueueAccepts
         THEN Goto(c, "q_enqueue", "q_signal") /\ queue' = Append(queue, cur[c])
         ELSE Goto(c, "q_enqueue", "q_end") /\ UNCHANGED queue
    /\ UNCHANGED <<runtimeState, stopped, semaphore, inFlight, drainEvent, workerOps,
                   op, cur, verdict, drainVars>>

\* Fault: the semaphore is not released.
EnqueueSignalForgotten(c) ==
    /\ Return(c, "q_signal", "idle")
    /\ UNCHANGED <<runtimeVars, inFlight, drainEvent, workerOps, op, verdict, drainVars>>

\* The semaphore is released after the lock; the operation is not touched.
EnqueueSignal(c) ==
    /\ Return(c, "q_signal", "idle")
    /\ semaphore' = semaphore + 1
    /\ UNCHANGED <<runtimeState, stopped, queue, inFlight, drainEvent, workerOps, op,
                   verdict, drainVars>>

\* Faults: the error path forgets EndAsyncOperation, or the reference.
QueueRefusedStillCounted(c) ==
    /\ Return(c, "q_end", "idle")
    /\ op' = [op EXCEPT ![cur[c]] = [Released(@) EXCEPT !.queued = FALSE]]
    /\ UNCHANGED <<runtimeVars, inFlight, drainEvent, workerOps, verdict, drainVars>>

QueueRefusedKeepsReference(c) ==
    \/ EndAsyncOperation(c, "q_end", "q_set", "q_release")
    \/ SetDrainEvent(c, "q_set", "q_release")
    \/ /\ Return(c, "q_release", "idle")
       /\ op' = [op EXCEPT ![cur[c]].queued = FALSE]
       /\ UNCHANGED <<runtimeVars, inFlight, drainEvent, workerOps, verdict, drainVars>>

\* A refused operation gives up the queue's reference and may be queued again.
QueueRefused(c) ==
    \/ EndAsyncOperation(c, "q_end", "q_set", "q_release")
    \/ SetDrainEvent(c, "q_set", "q_release")
    \/ /\ Return(c, "q_release", "idle")
       /\ op' = [op EXCEPT ![cur[c]] = [Released(@) EXCEPT !.queued = FALSE]]
       /\ UNCHANGED <<runtimeVars, inFlight, drainEvent, workerOps, verdict, drainVars>>

CancelSetFlag(c) ==
    /\ Goto(c, "x_flag", "x_state")
    /\ op' = [op EXCEPT ![cur[c]].canceled = TRUE]
    /\ UNCHANGED <<runtimeVars, inFlight, drainEvent, workerOps, cur, verdict, drainVars>>

\* AsyncOperationCancel completes an operation it still sees Pending.
CancelIfPending(c) ==
    /\ pc[c] = "x_state"
    /\ \/ /\ op[cur[c]].state = "Pending"
          /\ EnterComplete(c, "x_state", "cancelled")
          /\ UNCHANGED cur
       \/ /\ op[cur[c]].state # "Pending"
          /\ Return(c, "x_state", "idle")
          /\ UNCHANGED verdict
    /\ UNCHANGED <<runtimeVars, inFlight, drainEvent, workerOps, op, drainVars>>

\* A handle is released when no other client is inside a call that uses it.
AsyncOperationRelease(c, o) ==
    /\ pc[c] = "idle" /\ IsOpen(o)
    /\ \A d \in Clients : cur[d] = o => pc[d] \notin TouchLabels
    /\ op' = [op EXCEPT ![o] = [Released(@) EXCEPT !.closed = TRUE]]
    /\ UNCHANGED <<runtimeVars, inFlight, drainEvent, workerOps, pc, cur, verdict, drainVars>>

----------------------------------------
(* AsyncWorkerRoutine *)

WorkerWakes(w) ==
    /\ semaphore > 0
    /\ Goto(w, "w_wait", "w_dequeue")
    /\ semaphore' = semaphore - 1
    /\ UNCHANGED <<runtimeState, stopped, queue, inFlight, drainEvent, workerOps, op,
                   cur, verdict, drainVars>>

\* DequeueAsyncOperation registers the operation under the same lock.
DequeueAsyncOperation(w) ==
    /\ queue # <<>>
    /\ Goto(w, "w_dequeue", "r_check")
    /\ queue' = Tail(queue)
    /\ cur' = [cur EXCEPT ![w] = Head(queue)]
    /\ workerOps' = [workerOps EXCEPT ![w] = Head(queue)]
    /\ UNCHANGED <<runtimeState, stopped, semaphore, inFlight, drainEvent, op, verdict,
                   drainVars>>

\* An empty queue ends the worker once the runtime is stopped.
DequeueNothing(w) ==
    /\ queue = <<>>
    /\ Goto(w, "w_dequeue", IF stopped THEN "exited" ELSE "w_wait")
    /\ UNCHANGED <<runtimeVars, inFlight, drainEvent, workerOps, op, cur, verdict, drainVars>>

\* RunOperation's early returns.
RunCheck(w) ==
    LET o == cur[w] IN
    /\ pc[w] = "r_check"
    /\ \/ /\ op[o].completed
          /\ Goto(w, "r_check", "w_clear")
          /\ UNCHANGED verdict
       \/ /\ ~op[o].completed /\ op[o].canceled
          /\ EnterComplete(w, "r_check", "cancelled")
       \/ /\ ~op[o].completed /\ ~op[o].canceled
          /\ Goto(w, "r_check", "r_running")
          /\ UNCHANGED verdict
    /\ UNCHANGED <<runtimeVars, inFlight, drainEvent, workerOps, op, cur, drainVars>>

\* WriteState(Running) is unconditional: whatever Cancel did meanwhile is lost.
RunMarkRunning(w) ==
    /\ Goto(w, "r_running", "r_work")
    /\ op' = [op EXCEPT ![cur[w]].state = "Running"]
    /\ UNCHANGED <<runtimeVars, inFlight, drainEvent, workerOps, cur, verdict, drainVars>>

\* The worker routine returns: any result, and STATUS_PENDING or
\* STATUS_CANCELLED only if it saw the cancellation.  RunOperation turns a
\* pending result of a cancelled operation into STATUS_CANCELLED.
RunWork(w) ==
    /\ pc[w] = "r_work"
    /\ \E result \in Statuses :
         /\ result \in {"pending", "cancelled"} => op[cur[w]].canceled
         /\ EnterComplete(w, "r_work", IF result = "pending" THEN "cancelled" ELSE result)
    /\ UNCHANGED <<runtimeVars, inFlight, drainEvent, workerOps, op, cur, drainVars>>

\* Fault: the worker's slot keeps pointing at the operation.
ClearWorkerOperationForgotten(w) ==
    /\ Goto(w, "w_clear", "w_release")
    /\ UNCHANGED <<runtimeVars, inFlight, drainEvent, workerOps, op, cur, verdict, drainVars>>


ClearWorkerOperation(w) ==
    /\ Goto(w, "w_clear", "w_release")
    /\ workerOps' = [workerOps EXCEPT ![w] = NoOp]
    /\ UNCHANGED <<runtimeVars, inFlight, drainEvent, op, cur, verdict, drainVars>>

WorkerReleases(w) ==
    /\ Return(w, "w_release", "w_end")
    /\ op' = [op EXCEPT ![cur[w]] = Released(@)]
    /\ UNCHANGED <<runtimeVars, inFlight, drainEvent, workerOps, verdict, drainVars>>

WorkerEnds(w) == \/ EndAsyncOperation(w, "w_end", "w_set", "w_wait")
                 \/ SetDrainEvent(w, "w_set", "w_wait")

----------------------------------------
(* EngineDrainAsync *)

\* A runtime that never ran or has stopped is drained iff nothing is in flight;
\* a starting one is polled (no step).
DrainEnter(d) ==
    /\ pc[d] = "idle" /\ drains < MaxDrains /\ runtimeState # 1
    /\ drains' = drains + 1
    /\ IF runtimeState = 2
         THEN /\ Goto(d, "idle", "d_unlink")
              /\ stopped' = TRUE /\ drained' = "pending"
         ELSE /\ drained' = IF inFlight = 0 THEN "success" ELSE "failure"
              /\ UNCHANGED <<pc, stopped>>
    /\ UNCHANGED <<runtimeState, queue, semaphore, inFlight, drainEvent, workerOps, op,
                   cur, verdict, unlinked>>

\* UnlinkAllQueuedOperationsLocked
DrainUnlink(d) ==
    /\ Goto(d, "d_unlink", "d_next")
    /\ unlinked' = queue /\ queue' = <<>>
    /\ UNCHANGED <<runtimeState, stopped, semaphore, inFlight, drainEvent, workerOps,
                   op, cur, verdict, drains, drained>>

\* Fault: the unlinked operations are released without being completed.
DrainNextReleasesOnly(d) ==
    /\ \/ /\ unlinked # <<>>
          /\ Goto(d, "d_next", "d_release")
          /\ cur' = [cur EXCEPT ![d] = Head(unlinked)]
          /\ unlinked' = Tail(unlinked)
       \/ /\ unlinked = <<>>
          /\ Goto(d, "d_next", "d_cancel")
          /\ UNCHANGED <<cur, unlinked>>
    /\ UNCHANGED <<runtimeVars, inFlight, drainEvent, workerOps, op, verdict, drains, drained>>

\* CompleteQueuedOperationsForShutdown, one operation after the other.
DrainNext(d) ==
    /\ \/ /\ unlinked # <<>>
          /\ EnterComplete(d, "d_next", "cancelled")
          /\ cur' = [cur EXCEPT ![d] = Head(unlinked)]
          /\ unlinked' = Tail(unlinked)
       \/ /\ unlinked = <<>>
          /\ Goto(d, "d_next", "d_cancel")
          /\ UNCHANGED <<cur, verdict, unlinked>>
    /\ UNCHANGED <<runtimeVars, inFlight, drainEvent, workerOps, op, drains, drained>>

DrainReleases(d) ==
    \/ /\ Return(d, "d_release", "d_end")
       /\ op' = [op EXCEPT ![cur[d]] = Released(@)]
       /\ UNCHANGED <<runtimeVars, inFlight, drainEvent, workerOps, verdict, drainVars>>
    \/ EndAsyncOperation(d, "d_end", "d_set", "d_next")
    \/ SetDrainEvent(d, "d_set", "d_next")

\* CancelRunningOperationsForShutdown
DrainCancelRunning(d) ==
    /\ Goto(d, "d_cancel", "d_wake")
    /\ op' = [o \in Ops |-> [op[o] EXCEPT
                !.canceled = @ \/ \E w \in Workers : workerOps[w] = o]]
    /\ UNCHANGED <<runtimeVars, inFlight, drainEvent, workerOps, cur, verdict, drainVars>>

\* Faults: one token for all workers, or as many as the semaphore can hold.
WakeOneWorker(d) ==
    /\ Goto(d, "d_wake", "d_wait")
    /\ semaphore' = semaphore + 1
    /\ UNCHANGED <<runtimeState, stopped, queue, inFlight, drainEvent, workerOps, op,
                   cur, verdict, drainVars>>

WakeWithFullSemaphore(d) ==
    /\ Goto(d, "d_wake", "d_wait")
    /\ semaphore' = semaphore + SemaphoreLimit
    /\ UNCHANGED <<runtimeState, stopped, queue, inFlight, drainEvent, workerOps, op,
                   cur, verdict, drainVars>>

WakeAsyncWorkers(d) ==
    /\ Goto(d, "d_wake", "d_wait")
    /\ semaphore' = semaphore + WorkerCount
    /\ UNCHANGED <<runtimeState, stopped, queue, inFlight, drainEvent, workerOps, op,
                   cur, verdict, drainVars>>

\* WaitForAsyncInFlightToDrain: no wait when the count is zero.
DrainWait(d) ==
    /\ \/ Goto(d, "d_wait", IF inFlight = 0 THEN "d_join" ELSE "d_event")
       \/ drainEvent /\ Goto(d, "d_event", "d_join")
    /\ UNCHANGED <<runtimeVars, inFlight, drainEvent, workerOps, op, cur, verdict, drainVars>>

\* JoinReferencedAsyncWorkers succeeded; the queue head is cleared again.  This
\* STATUS_SUCCESS is recorded as "drained": the workers were really joined.
DrainJoined(d) ==
    /\ \A w \in Workers : pc[w] = "exited"
    /\ Goto(d, "d_join", "idle")
    /\ runtimeState' = 3 /\ queue' = <<>> /\ drained' = "drained"
    /\ UNCHANGED <<stopped, semaphore, inFlight, drainEvent, workerOps, op, cur, verdict,
                   unlinked, drains>>

\* Either wait may time out; the runtime stays in state 2.
DrainTimesOut(d) ==
    /\ \/ Goto(d, "d_event", "idle")
       \/ Goto(d, "d_join", "idle")
    /\ drained' = "failure"
    /\ UNCHANGED <<runtimeVars, inFlight, drainEvent, workerOps, op, cur, verdict,
                   unlinked, drains>>

----------------------------------------
ClientStep(c) ==
    \/ EnsureRunning(c) \/ StartWorker(c) \/ StartWorkerFails(c)
    \/ StartFailedWake(c) \/ StartFailedJoin(c) \/ QueueClaim(c)
    \/ QueueCheckCanceled(c) \/ BeginCount(c) \/ BeginClearEvent(c)
    \/ EnqueueAsyncOperation(c) \/ EnqueueSignal(c) \/ QueueRefused(c)
    \/ CancelSetFlag(c) \/ CancelIfPending(c) \/ CompleteOperation(c)

WorkerStep(w) ==
    \/ WorkerWakes(w) \/ DequeueAsyncOperation(w) \/ DequeueNothing(w)
    \/ RunCheck(w) \/ RunMarkRunning(w) \/ RunWork(w) \/ CompleteOperation(w)
    \/ ClearWorkerOperation(w) \/ WorkerReleases(w) \/ WorkerEnds(w)

DrainStep(d) ==
    \/ DrainUnlink(d) \/ DrainNext(d) \/ CompleteOperation(d)
    \/ DrainReleases(d) \/ DrainCancelRunning(d) \/ WakeAsyncWorkers(d)
    \/ DrainWait(d) \/ DrainJoined(d) \/ DrainTimesOut(d)

Next ==
    \/ \E c \in Clients :
         \/ ClientStep(c)
         \/ \E o \in Ops : \/ AsyncOperationCreate(c, o) \/ EnterCall(c, o)
                           \/ AsyncOperationRelease(c, o)
    \/ \E w \in Workers : WorkerStep(w)
    \/ DrainEnter(Drainer) \/ DrainStep(Drainer)

Spec == Init /\ [][Next]_vars

\* Threads inside a call run on; the worker routines end (their waits have
\* timeouts and observe Canceled); callbacks return.
Fairness == /\ \A c \in Clients : WF_vars(ClientStep(c))
            /\ \A w \in Workers : WF_vars(WorkerStep(w))
            /\ WF_vars(DrainStep(Drainer))

LiveSpec == Spec /\ Fairness

----------------------------------------
(* Properties *)

Operations == [memory : {"absent", "live", "freed"}, refs : Nat, canceled : BOOLEAN,
               completed : BOOLEAN, state : {"Pending", "Running", "Completed"},
               status : Statuses, queued : BOOLEAN, closed : BOOLEAN, event : BOOLEAN,
               callbacks : Nat]

TypeOK ==
    /\ runtimeState \in 0..3 /\ stopped \in BOOLEAN
    /\ queue \in Seq(Ops) /\ unlinked \in Seq(Ops)
    /\ semaphore \in Nat /\ inFlight \in Nat /\ drainEvent \in BOOLEAN
    /\ workerOps \in [Workers -> Ops \cup {NoOp}]
    /\ op \in [Ops -> Operations]
    /\ pc \in [Threads -> ClientLabels \cup WorkerLabels \cup DrainLabels
                            \cup CompleteLabels]
    /\ cur \in [Threads -> Ops \cup {NoOp}]
    /\ verdict \in [Threads -> Statuses]
    /\ drains \in 0..MaxDrains
    /\ drained \in {"pending", "success", "failure", "drained"}

\* Labels at which a thread owns a reference to its operation, and at which its
\* operation is counted by g_asyncInFlight.
OwnsReference(t) ==
    \/ t \in Clients /\ pc[t] \in {"q_begin", "q_clear", "q_enqueue", "q_end",
                                    "q_set", "q_release"}
    \/ t \notin Clients /\ pc[t] \in {"r_check", "r_running", "r_work", "w_clear",
                                       "w_release", "d_release"} \cup CompleteLabels
IsCounted(t) ==
    \/ t \in Clients /\ pc[t] \in {"q_clear", "q_enqueue", "q_end"}
    \/ t \notin Clients /\ (OwnsReference(t) \/ pc[t] \in {"w_end", "d_end"})

Owners(o) == {t \in Threads : cur[t] = o /\ OwnsReference(t)}
Counted == {t \in Threads : IsCounted(t)}

Positions(s, o) == {i \in DOMAIN s : s[i] = o}

\* The reference count of a live operation is the open handle plus the
\* references of the queue, the drainer's list and the threads: nothing leaks
\* and nothing is released twice (AddRef, ReleaseRef and their call sites).
ReferencesAreExact ==
    \A o \in Ops : op[o].memory = "live" =>
        op[o].refs = (IF op[o].closed THEN 0 ELSE 1)
                   + Cardinality(Positions(queue, o)) + Cardinality(Positions(unlinked, o))
                   + Cardinality(Owners(o))

\* No thread dereferences freed memory, and neither the queue nor the table
\* CancelRunningOperationsForShutdown walks points at any.
NoUseAfterFree ==
    /\ \A t \in Threads : cur[t] # NoOp /\ pc[t] \in TouchLabels
                             => op[cur[t]].memory = "live"
    /\ \A w \in Workers : workerOps[w] # NoOp => op[workerOps[w]].memory = "live"
    /\ \A o \in ToSet(queue) \cup ToSet(unlinked) : op[o].memory = "live"

\* g_asyncInFlight counts exactly the operations between BeginAsyncOperation
\* and EndAsyncOperation, whoever holds them.
InFlightIsExact ==
    inFlight = Len(queue) + Len(unlinked) + Cardinality(Counted)

\* Workers that have taken a token, and clients that owe one.
Dequeuing == {w \in Workers : pc[w] = "w_dequeue"}
Signalling == {c \in Clients : pc[c] = "q_signal"}

\* Every queued operation has a semaphore token, a token about to be released or
\* a worker on its way to dequeue: no wakeup is lost between the unlock and
\* KeReleaseSemaphore.
NoLostWakeup ==
    Len(queue) <= semaphore + Cardinality(Dequeuing) + Cardinality(Signalling)

\* KeReleaseSemaphore raises an exception above the limit the semaphore was
\* initialised with.
SemaphoreWithinLimit == semaphore <= SemaphoreLimit

\* The thread that won Completed, until it has run the callback.
Completing(o) ==
    {t \in Threads : cur[t] = o /\ pc[t] \in {"c_publish", "c_event", "c_callback"}}

\* The completion callback runs once, for the one caller that won Completed,
\* and a signalled operation has its final status and its callback due.
CompletesOnce ==
    \A o \in Ops :
        /\ op[o].callbacks + Cardinality(Completing(o)) = IF op[o].completed THEN 1 ELSE 0
        /\ op[o].event => op[o].completed /\ op[o].status # "pending"

\* After a drain of a running runtime succeeded: no worker is left, nothing is
\* queued, and every accepted operation has had its callback.
DrainLeavesNothing ==
    drained = "drained" =>
        /\ queue = <<>> /\ unlinked = <<>>
        /\ \A w \in Workers : pc[w] = "exited"
        /\ \A o \in Ops :
             op[o].queued /\ (\A c \in Clients : cur[c] # o) => op[o].callbacks = 1

\* Once the drainer has walked the worker table, every operation a worker still
\* runs is cancelled: none slips in between the queue sweep and the walk.
DrainCancelsRunning ==
    pc[Drainer] \in {"d_wake", "d_wait", "d_event", "d_join"} =>
        \A w \in Workers : workerOps[w] # NoOp => op[workerOps[w]].canceled

\* The states of an operation only go forward, as the documentation has it:
\* Pending, Running, Completed.
StateOnlyAdvances ==
    [][\A o \in Ops : op[o].state = "Completed" => op'[o].state = "Completed"]_vars

\* Every operation the queue accepted eventually has its callback.
QueuedCompletes == \A o \in Ops : (o \in ToSet(queue)) ~> (op[o].callbacks = 1)

\* A drain of the running runtime makes every worker thread exit, whatever
\* tokens are left in the semaphore, even if the drain itself timed out.
DrainStopsWorkers ==
    (pc[Drainer] = "d_wait") ~> (\A w \in Workers : pc[w] = "exited")

\* The operations live as AsyncLifecycle says.
Phase == [o \in Ops |->
    CASE op[o].memory = "absent" -> "absent"
      [] op[o].memory = "freed" -> "reclaimed"
      [] op[o].memory = "live" /\ op[o].completed -> "completed"
      [] OTHER -> IF \/ o \in ToSet(queue) \cup ToSet(unlinked)
                     \/ \E t \in Workers \cup {Drainer} : cur[t] = o
                    THEN "accepted" ELSE "open"]

Lifecycle == INSTANCE AsyncLifecycle WITH
                phase <- Phase, notified <- [o \in Ops |-> op[o].callbacks]

\* An accepted operation is completed and its callback has run, once, before
\* its memory is reclaimed; only an operation never accepted may vanish unseen.
ImplementsLifecycle == Lifecycle!Spec

(* Every reference, every operation in flight and every queued entry's token *)
(* is counted, so that nothing is freed while someone can still reach it and *)
(* nothing queued is forgotten.                                              *)
OperationsAreCounted ==
    ReferencesAreExact /\ NoUseAfterFree /\ InFlightIsExact /\ NoLostWakeup

(* A drain that returns success has ended every operation, once, and leaves  *)
(* the runtime as it found it.                                               *)
DrainIsSafe ==
    TypeOK /\ CompletesOnce /\ SemaphoreWithinLimit /\ DrainLeavesNothing /\ DrainCancelsRunning

(* Whatever the drain does meanwhile, a queued operation is answered and the *)
(* workers go away.                                                          *)
RuntimeWindsDown == QueuedCompletes /\ DrainStopsWorkers
=============================================================================
