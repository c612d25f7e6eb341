------------------------------ MODULE HttpSend ------------------------------
\* The requests of one session over its connection pool: SendSingleHttp-
\* Request (session/HttpSend.cpp) and the transports it dispatches to
\* (HttpTransportDispatch, HttpH1Dispatch, HttpH2Dispatch, HttpH3Peer,
\* HttpProxy.cpp), the keep-alive sweep, the QUIC connections' events, and
\* SessionClose with ConnectionPoolShutdown.
\*
\* Every request is a thread.  A step is one section under the pool's lock
\* or one blocking operation outside it; what a request reads without the
\* lock is read in the step that uses it.  The peer and the network are
\* nondeterministic: any operation may fail, and a timed out or cancelled
\* one closes the socket.  The peer answers in order (RFC 9112).
EXTENDS ConnectionPool, Sequences

CONSTANTS Requests,      \* concurrent calls of SendSingleHttpRequest
          Jobs,          \* what a call may ask for
          KeepAliveOn,   \* Http2KeepAlive.Enabled
          IdleTimeoutOn  \* IdleTimeoutMilliseconds # 0

Policies == {"ReuseOrCreate", "ForceNew", "NoPool"}

\* pipeline: IsHttp11PipelineCandidate; safe: IsSafeFreshConnectionRetryMethod.
JobRecords == [key : Keys, policy : Policies, pipeline : BOOLEAN, safe : BOOLEAN]

ASSUME SendAssumption ==
    /\ IsFiniteSet(Requests)
    /\ KeepAliveOn \in BOOLEAN /\ IdleTimeoutOn \in BOOLEAN
    /\ Jobs \subseteq {j \in JobRecords :
            j.pipeline => j.policy = "ReuseOrCreate" /\ j.key.kind = "Tcp"}
    /\ Jobs # {}

VARIABLES req,      \* the state of each request
          wire,     \* per slot, the pipelined requests sent and unanswered
          session   \* "open", "closing" or "closed"

vars == <<pool, req, wire, session>>

Phases == {"idle", "join", "acquire", "open", "connect", "send", "plain", "h2",
           "pipe_begin", "pipe_sending", "pipe_fail", "pipe_wait", "pipe_recv",
           "pipe_end", "quic_connect", "quic_bind", "quic", "done", "reacquire"}

\* "ok": answered and reusable; "close": answered, not reusable; "lost": a
\* status of IsFreshConnectionRetryStatus; "retry": STATUS_RETRY.
Statuses == {"none", "ok", "close", "lost", "retry", "error"}

NoRequest(job) == [phase |-> "idle", job |-> job, slot |-> 0, reused |-> FALSE,
                   retried |-> FALSE, used |-> FALSE, seq |-> 0,
                   status |-> "none", stale |-> FALSE]

RequestRecords ==
    [phase : Phases, job : Jobs, slot : 0..Capacity, reused : BOOLEAN,
     retried : BOOLEAN, used : BOOLEAN, seq : Nat, status : Statuses, stale : BOOLEAN]

Init ==
    /\ pool = EmptyPool
    /\ req = [r \in Requests |-> NoRequest(CHOOSE job \in Jobs : TRUE)]
    /\ wire = [i \in Slots |-> <<>>]
    /\ session = "open"

----------------------------------------
(* Vocabulary *)

\* `used` is usedHttp11Pipeline, or StreamBound of an HTTP/3 request; `stale` says
\* that the transport the request uses has been freed by another one.

Conn(r) == pool.slots[req[r].slot]

At(r, phase) == req[r].phase = phase

Become(r, new) == req' = [req EXCEPT ![r] = new]

Goto(r, phase) == Become(r, [req[r] EXCEPT !.phase = phase])

Return(r) == Become(r, NoRequest(req[r].job))

\* SendViaTransport returns.
Done(r, status) == Become(r, [req[r] EXCEPT !.phase = "done", !.status = status])

\* The requests that hold a pointer to the transport of slot i.
UsesTransport(r, i) ==
    /\ req[r].slot = i
    /\ req[r].phase \in {"plain", "h2", "pipe_begin", "pipe_sending", "pipe_wait", "pipe_recv"}

\* I/O on the connection can still succeed.
CanTransfer(r) == Conn(r).alive /\ ~req[r].stale

\* A connection that is gone takes its bytes along.
KeepWire(p) == wire' = [i \in Slots |-> IF p.slots[i].kind = "Tcp" THEN wire[i] ELSE <<>>]

----------------------------------------
(* Acquiring a connection *)

Start(r, job) ==
    /\ session = "open" /\ At(r, "idle")
    /\ Become(r, [NoRequest(job) EXCEPT
                    !.phase = IF job.pipeline THEN "join" ELSE "acquire"])
    /\ UNCHANGED <<pool, wire, session>>

Join(r) ==
    /\ At(r, "join")
    /\ LET joinable == Joinable(pool, req[r].job.key)
       IN  IF joinable = {}
             THEN Goto(r, "acquire") /\ UNCHANGED pool
             ELSE \E i \in Slots :
                    /\ IsFirst(i, joinable)
                    /\ pool' = JoinPipeline(pool, i)
                    /\ Become(r, [req[r] EXCEPT !.phase = "open", !.slot = i, !.reused = TRUE])
    /\ UNCHANGED <<wire, session>>

PhaseAfterAcquire(job, reused) ==
    IF job.key.kind = "Tcp" THEN "open"
    ELSE IF reused THEN "quic_bind" ELSE "quic_connect"

\* The outcome `a` of an acquire: no connection ends the request.
TakeConnection(r, a, retried) ==
    /\ pool' = a[1]
    /\ IF a[2] = 0 THEN Return(r)
       ELSE Become(r, [req[r] EXCEPT !.phase = PhaseAfterAcquire(req[r].job, a[3]),
                                     !.slot = a[2], !.reused = a[3], !.retried = retried])
    /\ wire' = [i \in Slots |-> IF a[1].slots[i].kind # "Tcp" \/ i = a[2] THEN <<>> ELSE wire[i]]
    /\ UNCHANGED session

AcquireConnection(r) ==
    /\ At(r, "acquire")
    /\ \E a \in Acquire(pool, req[r].job.key, req[r].job.policy) : TakeConnection(r, a, FALSE)

----------------------------------------
(* SendViaTransport: EnsureSocketConnected and EnsureTlsConnected *)

\* The socket is connected already.
OpenExisting(r) ==
    /\ At(r, "open") /\ Conn(r).opened /\ Conn(r).alive
    /\ Goto(r, "send")
    /\ UNCHANGED <<pool, wire, session>>

\* It is not: what is left of it is freed, whoever else still uses it.
CloseTransportResources(r) ==
    /\ At(r, "open") /\ ~(Conn(r).opened /\ Conn(r).alive)
    /\ LET i == req[r].slot
       IN  /\ pool' = CloseTransport(pool, i)
           /\ req' = [q \in Requests |->
                        IF q = r THEN [req[r] EXCEPT !.phase = "connect"]
                        ELSE [req[q] EXCEPT !.stale = @ \/ (UsesTransport(q, i) /\ Conn(r).opened)]]
           /\ wire' = [wire EXCEPT ![i] = <<>>]
    /\ UNCHANGED session

\* The protocols TLS may agree on with a new connection.
Negotiable(key) == IF key.auto THEN Alpns ELSE {key.alpn}

Connect(r) ==
    /\ At(r, "connect") /\ ~Conn(r).opened
    /\ \E alpn \in Negotiable(Conn(r).key) : pool' = AdoptSocket(pool, req[r].slot, alpn)
    /\ Goto(r, "send")
    /\ UNCHANGED <<wire, session>>

ConnectFails(r) ==
    /\ At(r, "connect")
    /\ \E status \in {"lost", "error"} : Done(r, status)
    /\ UNCHANGED <<pool, wire, session>>

----------------------------------------
(* SendViaTransport: the choice of protocol *)

SpeaksHttp2(s) == s.key.alpn = "h2"

\* SendHttp2ViaTransport up to the lease: a request that came by a shared
\* connection has one already.
SendHttp2(r) ==
    /\ At(r, "send") /\ Conn(r).opened /\ SpeaksHttp2(Conn(r))
    /\ LET i == req[r].slot
           p == AdoptHttp2(pool, i)
       IN  \/ Conn(r).h2Leases # 0 /\ pool' = p /\ Goto(r, "h2")
           \/ Conn(r).h2Leases = 0 /\ CanPromote(Conn(r))
                /\ pool' = PromoteHttp2(p, i) /\ Goto(r, "h2")
           \/ Conn(r).h2Leases = 0 /\ ~CanPromote(Conn(r)) /\ pool' = p /\ Done(r, "error")
    /\ UNCHANGED <<wire, session>>

\* The retry after a failure never pipelines.
MayPipeline(r) == req[r].job.pipeline /\ ~req[r].retried

SendPipelined(r) ==
    /\ At(r, "send") /\ Conn(r).opened /\ ~SpeaksHttp2(Conn(r)) /\ MayPipeline(r)
    /\ LET i == req[r].slot
           next == [req[r] EXCEPT !.phase = "pipe_begin", !.used = TRUE]
       IN  \/ Conn(r).h1Leases # 0 /\ pool' = pool /\ Become(r, next)
           \/ Conn(r).h1Leases = 0 /\ CanPromote(Conn(r))
                /\ pool' = PromoteHttp1Pipeline(pool, i) /\ Become(r, next)
           \/ Conn(r).h1Leases = 0 /\ ~CanPromote(Conn(r)) /\ pool' = pool /\ Done(r, "error")
    /\ UNCHANGED <<wire, session>>

SendPlain(r) ==
    /\ At(r, "send") /\ Conn(r).opened /\ ~SpeaksHttp2(Conn(r)) /\ ~MayPipeline(r)
    /\ Goto(r, "plain")
    /\ UNCHANGED <<pool, wire, session>>

\* The request fails before it is dispatched: no transport (another request
\* closed it), BeginRequest refused, out of memory.
SendFails(r) ==
    /\ At(r, "send")
    /\ \E status \in {"lost", "retry", "error"} : Done(r, status)
    /\ UNCHANGED <<pool, wire, session>>

----------------------------------------
(* Exclusive and HTTP/2 exchanges *)

Respond(r) ==
    /\ req[r].phase \in {"plain", "h2"} /\ CanTransfer(r)
    /\ \E status \in {"ok", "close"} : Done(r, status)
    /\ UNCHANGED <<pool, wire, session>>

\* STATUS_RETRY is what HTTP/2 reports for a stream the peer did not process.
RespondFails(r) ==
    /\ req[r].phase \in {"plain", "h2"}
    /\ \E status \in {"lost", "retry", "error"} :
            (status = "retry" => At(r, "h2")) /\ Done(r, status)
    /\ UNCHANGED <<pool, wire, session>>

\* An I/O of the request is cancelled or times out; its failure is still to come.
SocketCloses(r) ==
    /\ req[r].phase \in {"plain", "h2", "pipe_sending", "pipe_recv"} /\ CanTransfer(r)
    /\ pool' = DropSocket(pool, req[r].slot)
    /\ UNCHANGED <<req, wire, session>>

----------------------------------------
(* SendHttp1PipelineRequestBuffer *)

SendLockIgnored(r) == TRUE

\* Http1PipelineSendLock
SendLockFree(r) == \A q \in Requests : ~(At(q, "pipe_sending") /\ req[q].slot = req[r].slot)

PipelineBegin(r) ==
    /\ At(r, "pipe_begin") /\ SendLockFree(r)
    /\ IF CanBeginPipelineSend(Conn(r))
         THEN /\ pool' = BeginPipelineSend(pool, req[r].slot)
              /\ Become(r, [req[r] EXCEPT !.phase = "pipe_sending", !.seq = Conn(r).sendSeq])
         ELSE Done(r, "error") /\ UNCHANGED pool
    /\ UNCHANGED <<wire, session>>

\* The request is on the wire and the send lock released.
PipelineSend(r) ==
    /\ At(r, "pipe_sending") /\ CanTransfer(r)
    /\ wire' = [wire EXCEPT ![req[r].slot] = Append(@, r)]
    /\ Goto(r, "pipe_wait")
    /\ UNCHANGED <<pool, session>>

PipelineSendFails(r) ==
    /\ At(r, "pipe_sending")
    /\ Goto(r, "pipe_fail")
    /\ UNCHANGED <<pool, wire, session>>

\* ConnectionPoolWaitHttp1PipelineReceiveTurn, which waits without a limit: its
\* timeout is a success to NT_SUCCESS.
PipelineTurn(r) ==
    /\ At(r, "pipe_wait")
    /\ \/ PipelineFailed(Conn(r)) /\ Done(r, "error") /\ UNCHANGED pool
       \/ IsReceiveTurn(Conn(r), req[r].seq) /\ Goto(r, "pipe_recv")
            /\ pool' = TakeBuffered(pool, req[r].slot)
    /\ UNCHANGED <<wire, session>>

\* A response is read, with the first bytes of the next one when there is one.
PipelineReceive(r) ==
    /\ At(r, "pipe_recv") /\ CanTransfer(r) /\ wire[req[r].slot] # <<>>
    /\ LET i == req[r].slot
           more == IF Len(wire[i]) > 1 THEN BOOLEAN ELSE {FALSE}
       IN  /\ wire' = [wire EXCEPT ![i] = Tail(@)]
           /\ \E trailing \in more :
                \/ ~trailing /\ pool' = pool /\ Goto(r, "pipe_end")
                \/ trailing /\ CanStoreBuffered(Conn(r))
                     /\ pool' = StoreBuffered(pool, i) /\ Goto(r, "pipe_end")
                \/ trailing /\ ~CanStoreBuffered(Conn(r))
                     /\ pool' = FailPipeline(pool, i) /\ Goto(r, "pipe_fail")
    /\ UNCHANGED session

PipelineReceiveFails(r) ==
    /\ At(r, "pipe_recv")
    /\ Goto(r, "pipe_fail")
    /\ UNCHANGED <<pool, wire, session>>

PipelineComplete(r) ==
    /\ At(r, "pipe_end")
    /\ \/ pool' = CompletePipelineReceive(pool, req[r].slot, req[r].seq) /\ Done(r, "ok")
       \/ pool' = FailPipeline(pool, req[r].slot) /\ Done(r, "close")
    /\ UNCHANGED <<wire, session>>

PipelineFail(r) ==
    /\ At(r, "pipe_fail")
    /\ pool' = FailPipeline(pool, req[r].slot)
    /\ Done(r, "error")
    /\ UNCHANGED <<wire, session>>

----------------------------------------
(* HTTP/3: CreateProductionPeer, BindStream and ReleasePeer *)

QuicConnect(r) ==
    /\ At(r, "quic_connect")
    /\ pool' = AdoptQuic(pool, req[r].slot)
    /\ Goto(r, "quic_bind")
    /\ UNCHANGED <<wire, session>>

\* ConnectionPoolAbandonQuicAcquire
QuicConnectFails(r) ==
    /\ At(r, "quic_connect")
    /\ pool' = Detach(pool, req[r].slot)
    /\ Return(r)
    /\ UNCHANGED <<wire, session>>

BindStream(r) ==
    /\ At(r, "quic_bind")
    /\ LET i == req[r].slot
       IN  \/ req[r].reused /\ CanBindHttp3(Conn(r)) /\ pool' = BindHttp3(pool, i)
           \/ ~req[r].reused /\ CanPromoteHttp3(Conn(r)) /\ pool' = PromoteHttp3(pool, i)
    /\ Become(r, [req[r] EXCEPT !.phase = "quic", !.used = TRUE])
    /\ UNCHANGED <<wire, session>>

\* The stream is not opened or not bound.
BindStreamFails(r) ==
    /\ At(r, "quic_bind")
    /\ Done(r, "error")
    /\ UNCHANGED <<pool, wire, session>>

\* A cancelled stream leaves its connection reusable.
QuicRespond(r) ==
    /\ At(r, "quic")
    /\ \E status \in {"ok", "error"} : Done(r, status)
    /\ UNCHANGED <<pool, wire, session>>

----------------------------------------
(* The end of SendSingleHttpRequest *)

\* The retry is not limited to one.
ShouldRetryAgain(q) ==
    /\ q.job.key.kind = "Tcp" /\ ~q.used
    /\ q.job.policy = "ReuseOrCreate" /\ q.job.safe
    /\ q.status = "retry" \/ (q.reused /\ q.status = "lost")

\* ShouldRetryWithFreshConnection, once.
ShouldRetry(q) ==
    /\ q.job.key.kind = "Tcp" /\ ~q.used /\ ~q.retried
    /\ q.job.policy = "ReuseOrCreate" /\ q.job.safe
    /\ q.status = "retry" \/ (q.reused /\ q.status = "lost")

RetryClose(r) ==
    /\ At(r, "done") /\ ShouldRetry(req[r])
    /\ pool' = Close(pool, req[r].slot)
    /\ KeepWire(pool')
    /\ Become(r, [req[r] EXCEPT !.phase = "reacquire", !.slot = 0])
    /\ UNCHANGED session

RetryAcquire(r) ==
    /\ At(r, "reacquire")
    /\ \E a \in Acquire(pool, req[r].job.key, "ForceNew") : TakeConnection(r, a, TRUE)

\* An HTTP/3 request does not look at its policy here.
CanReturnToPool(q) ==
    q.status = "ok" /\ (q.job.policy = "ReuseOrCreate" \/ q.job.key.kind = "Quic")

Finish(r) ==
    /\ At(r, "done") /\ ~ShouldRetry(req[r])
    /\ pool' = Release(pool, req[r].slot, CanReturnToPool(req[r]))
    /\ KeepWire(pool')
    /\ Return(r)
    /\ UNCHANGED session

----------------------------------------
(* The pool's other actors *)

Busy == \E r \in Requests : ~At(r, "idle")

KeepAliveBegin(i) ==
    /\ KeepAliveOn /\ (session = "open" \/ Busy)
    /\ \A j \in Slots : ~pool.slots[j].keepAlive
    /\ KeepAliveDue(pool.slots[i])
    /\ pool' = BeginKeepAlive(pool, i)
    /\ UNCHANGED <<req, wire, session>>

KeepAliveEnd(i) ==
    /\ pool.slots[i].keepAlive
    /\ \E alive \in BOOLEAN : pool' = EndKeepAlive(pool, i, alive)
    /\ KeepWire(pool')
    /\ UNCHANGED <<req, session>>

\* A GOAWAY or a connection error, on the QUIC connection's worker.
QuicEvent(i) ==
    /\ pool.slots[i].kind = "Quic" /\ ~pool.slots[i].unusable
    /\ pool' = QuicUnusable(pool, i)
    /\ UNCHANGED <<req, wire, session>>

QuicCloseReturns(i) ==
    /\ i \in pool.started
    /\ pool' = CompleteQuicClose(pool, i)
    /\ UNCHANGED <<req, wire, session>>

IdleTimeout(i) ==
    /\ IdleTimeoutOn /\ session = "open" /\ ~pool.slots[i].expired
    /\ IsIdleTcp(pool.slots[i]) \/ IsIdleQuic(pool.slots[i])
    /\ pool' = AgeOut(pool, i)
    /\ UNCHANGED <<req, wire, session>>

\* SessionClose: the handle refuses new requests, the running ones drain.
SessionClose ==
    /\ session = "open"
    /\ session' = "closing"
    /\ UNCHANGED <<pool, req, wire>>

\* The keep-alive worker has been joined.
Drained == session = "closing" /\ ~Busy /\ \A i \in Slots : ~pool.slots[i].keepAlive

ShutdownStep ==
    /\ Drained
    /\ \E i \in Slots : IsFirst(i, ShutdownTargets(pool)) /\ pool' = ShutdownOne(pool, i)
    /\ KeepWire(pool')
    /\ UNCHANGED <<req, session>>

ShutdownEnd ==
    /\ Drained /\ ShutdownTargets(pool) = {} /\ pool.outstanding = 0
    /\ session' = "closed" /\ pool' = EmptyPool
    /\ UNCHANGED <<req, wire>>

Closed == session = "closed" /\ UNCHANGED vars

----------------------------------------
RequestStep(r) ==
    \/ Join(r) \/ AcquireConnection(r)
    \/ OpenExisting(r) \/ CloseTransportResources(r) \/ Connect(r) \/ ConnectFails(r)
    \/ SendHttp2(r) \/ SendPipelined(r) \/ SendPlain(r) \/ SendFails(r)
    \/ Respond(r) \/ RespondFails(r)
    \/ PipelineBegin(r) \/ PipelineSend(r) \/ PipelineSendFails(r) \/ PipelineTurn(r)
    \/ PipelineReceive(r) \/ PipelineReceiveFails(r) \/ PipelineComplete(r) \/ PipelineFail(r)
    \/ QuicConnect(r) \/ QuicConnectFails(r) \/ BindStream(r) \/ BindStreamFails(r)
    \/ QuicRespond(r)
    \/ RetryClose(r) \/ RetryAcquire(r) \/ Finish(r)

Next ==
    \/ \E r \in Requests : \E job \in Jobs : Start(r, job)
    \/ \E r \in Requests : RequestStep(r) \/ SocketCloses(r)
    \/ \E i \in Slots : \/ KeepAliveBegin(i) \/ KeepAliveEnd(i) \/ QuicEvent(i)
                        \/ QuicCloseReturns(i) \/ IdleTimeout(i)
    \/ SessionClose \/ ShutdownStep \/ ShutdownEnd \/ Closed

Spec == Init /\ [][Next]_vars

----------------------------------------
(* Properties *)

\* The type of the pool and of the requests.
TypeOK ==
    /\ pool \in PoolRecords /\ req \in [Requests -> RequestRecords]
    /\ \A i \in Slots : wire[i] \in Seq(Requests)
    /\ session \in {"open", "closing", "closed"}

Holders(i) == {r \in Requests : req[r].slot = i}

\* A connection in the hands of requests is never evicted, recycled, closed or
\* given to the keep-alive sweep, it is the one they asked for, and no more
\* requests hold it than it has leases.
HoldersOwn ==
    \A i \in Slots : Holders(i) # {} =>
        LET s == pool.slots[i]
            leases == s.h2Leases + s.h1Leases + s.h3Leases
        IN  /\ s.inUse /\ ~s.keepAlive /\ ~s.closing
            /\ \A r \in Holders(i) : ExceptAlpn(s.key) = ExceptAlpn(req[r].job.key)
            /\ Cardinality(Holders(i)) <= IF leases = 0 THEN 1 ELSE leases

\* HTTP/3 leases are counted exactly: an acquire that shares and a bind that
\* promotes each add one, and every way out of the request gives it back.
QuicLeasesExact ==
    \A i \in Slots : pool.slots[i].kind = "Quic" =>
        pool.slots[i].h3Leases =
            Cardinality({r \in Holders(i) : req[r].reused \/ req[r].used})

\* A pipelined request whose turn it is reads its own response: the order of
\* the sequence numbers is the order on the wire.
PipelineInOrder ==
    \A r \in Requests : At(r, "pipe_recv") /\ CanTransfer(r) =>
        wire[req[r].slot] # <<>> /\ Head(wire[req[r].slot]) = r

\* A connection goes back to the pool only when nothing of its last exchange is
\* left: no unanswered request, no unread byte, no failure, and a live socket.
IdleIsClean ==
    \A i \in Slots : IsIdleTcp(pool.slots[i]) =>
        /\ wire[i] = <<>> /\ ~pool.slots[i].buffered
        /\ ~pool.slots[i].broken /\ ~pool.slots[i].closeWhenIdle
        /\ pool.slots[i].opened /\ pool.slots[i].alive

\* Every lease of an HTTP/2 connection is held by a request.
LeasesNotLeaked ==
    \A i \in Slots : pool.slots[i].h2Leases # 0 =>
        pool.slots[i].h2Leases = Cardinality(Holders(i))

\* The transport under a request is not freed before the request is done with it.
TransportOutlivesUse == \A r \in Requests : ~req[r].stale

\* A connection made for ForceNew or NoPool is not left in the pool.
PolicyConnectionsClosed ==
    [][\A r \in Requests :
        At(r, "done") /\ req'[r].phase = "idle" /\ req[r].job.policy # "ReuseOrCreate"
            => pool'.slots[req[r].slot].inUse \/ pool'.slots[req[r].slot].kind = "None"]_vars

----------------------------------------
(* Fairness: a thread that can run runs; the WSK timeouts bound every          *)
(* operation of the network; a dispatcher mutex is granted in turn.            *)

LiveSpec ==
    /\ Spec
    /\ \A r \in Requests : WF_vars(RequestStep(r)) /\ SF_vars(PipelineBegin(r))
    /\ \A i \in Slots : WF_vars(KeepAliveEnd(i)) /\ WF_vars(QuicCloseReturns(i))
    /\ WF_vars(ShutdownStep) /\ WF_vars(ShutdownEnd)

\* Every request returns, although a pipelined one waits for its turn without a
\* limit and for the send lock of its connection.
RequestsFinish == \A r \in Requests : ~At(r, "idle") ~> At(r, "idle")

\* SessionClose ends: requests drain and no close of a QUIC connection is awaited
\* for ever.
ShutdownCompletes == session = "closing" ~> session = "closed"

(* A connection belongs to those who hold leases on it, within its limits, and *)
(* comes back to the pool only in a state in which the next request can use it. *)
ConnectionsAreSafe == HoldersOwn /\ IdleIsClean /\ LeasesWithinLimits /\ QuicLeasesExact
=============================================================================
