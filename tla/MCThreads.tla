------------------------------ MODULE MCThreads ------------------------------
(* The components whose threads meet inside the library: sessions and their    *)
(* handles, sockets over WSK, the QUIC worker and the client of server-sent    *)
(* events. They share no state in the code; focus says which one a behaviour   *)
(* is about, and the others rest in their initial state.                       *)
EXTENDS SessionLife, WskSocket, QuicWorker, SseClient

VARIABLE focus

threadsVars == <<focus, sessionVars, wskVars, quicVars, sseVars>>

ThreadsInit ==
    /\ focus \in {"session", "wsk", "quic", "sse"}
    /\ SessionInit /\ WskInit /\ QuicInit /\ SseInit

ThreadsNext ==
    \/ /\ focus = "session" /\ SessionNext
       /\ UNCHANGED <<focus, wskVars, quicVars, sseVars>>
    \/ /\ focus = "wsk" /\ WskNext
       /\ UNCHANGED <<focus, sessionVars, quicVars, sseVars>>
    \/ /\ focus = "quic" /\ QuicNext
       /\ UNCHANGED <<focus, sessionVars, wskVars, sseVars>>
    \/ /\ focus = "sse" /\ SseNext
       /\ UNCHANGED <<focus, sessionVars, wskVars, quicVars>>

\* The fairness of each component (SessionFairness, WskFairness, QuicFairness),
\* for the behaviours that are about it.
ThreadsFairness ==
    /\ \A t \in Actors : WF_sessionVars(focus = "session" /\ ThreadStep(t))
    /\ WF_sessionVars(focus = "session" /\ WorkerStep)
    /\ WF_sessionVars(focus = "session" /\ UnloadStep)
    /\ \A o \in Ops : /\ WF_wskVars(focus = "wsk" /\ CallStep(o))
                      /\ WF_wskVars(focus = "wsk" /\ CompletionReleases(o))
    /\ WF_quicVars(focus = "quic" /\ QuicWorkerStep)
    /\ WF_quicVars(focus = "quic" /\ ReceiveNotification)
    /\ WF_quicVars(focus = "quic" /\ dg.receive = "CancelPending" /\ ReceiveCompletes)
    /\ WF_quicVars(focus = "quic" /\ ShutdownStep)
    /\ SF_quicVars(/\ focus = "quic"
                   /\ RetryDeferred /\ conn.deferred # NoOp /\ conn'.deferred = NoOp)
    /\ SF_quicVars(focus = "quic" /\ ProcessDeadlines /\ conn.state # conn'.state)
    /\ SF_quicVars(/\ focus = "quic"
                   /\ ProcessWrite /\ conn.current # NoOp /\ conn'.deferred = NoOp)

ThreadsSpec == ThreadsInit /\ [][ThreadsNext]_threadsVars /\ ThreadsFairness

(* Whoever waits inside the library is let go: a call on a socket however     *)
(* silent the provider is, a command to the QUIC worker unless it is stopped. *)
WaitersReturn == CallsReturn /\ CommandsAreAnswered
==============================================================================
