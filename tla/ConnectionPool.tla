--------------------------- MODULE ConnectionPool ---------------------------
\* The session's connection pool (session/ConnectionPool.cpp): a fixed
\* array of slots that hold TCP connections (HTTP/1.1 exclusive, HTTP/1.1
\* pipelined, HTTP/2 shared by stream leases) and QUIC connections.
\*
\* Every operation of the pool runs under the pool's lock, so each is an
\* operator from the pool's value before to its value after.  HttpSend
\* composes them with the requests that call them.  What happens outside
\* the lock, the QUIC close routine above all, is an action of its own.
\*
\* Time is abstract: an idle connection may at any moment become `expired`
\* (idle for IdleTimeoutMilliseconds) or due for a keep-alive.
EXTENDS Integers, FiniteSets

CONSTANTS Capacity,       \* pool.Capacity
          MaxPerHost,     \* pool.MaxConnectionsPerHost
          Keys,           \* ConnectionPoolKey values of the requests
          NoKey,          \* the zeroed key of a free slot
          MaxH2Streams,   \* Http2ConnectionMaxConcurrentStreams
          MaxH3Streams,   \* WKNET_HARD_MAX_QUIC_LOCAL_BIDI_STREAMS
          PipelineDepth,  \* Http11PipelineMaxDepth
          MaxSequence     \* stands for 0xffffffff, the last sequence number

Alpns == {"none", "http/1.1", "h2"}

\* host stands for scheme, host, port and family; identity for everything else
\* the key compares (TLS policy, credentials, SNI, proxy).
KeyRecords == [kind : {"Tcp", "Quic"}, host : {"a", "b", "c"}, identity : 1..2,
               auto : BOOLEAN, alpn : Alpns]

\* ConnectionPoolInitialize rejects other values.
ASSUME PoolAssumption ==
    /\ Capacity \in Nat \ {0} /\ MaxPerHost \in 1..Capacity
    /\ Keys \subseteq KeyRecords /\ NoKey \notin KeyRecords
    /\ MaxH2Streams \in Nat \ {0} /\ MaxH3Streams \in Nat \ {0}
    /\ PipelineDepth \in Nat \ {0} /\ MaxSequence \in Nat \ {0}

Slots == 1..Capacity

VARIABLE pool

SlotRecords ==
    [kind : {"None", "Tcp", "Quic"}, inUse : BOOLEAN, connected : BOOLEAN,
     key : KeyRecords \cup {NoKey}, opened : BOOLEAN, alive : BOOLEAN,
     http2 : BOOLEAN, h2Leases : Nat, h1Leases : Nat, sendSeq : Nat, recvSeq : Nat,
     broken : BOOLEAN, buffered : BOOLEAN, closeWhenIdle : BOOLEAN,
     keepAlive : BOOLEAN, expired : BOOLEAN, adopted : BOOLEAN,
     h3Leases : Nat, h3Max : Nat, active : BOOLEAN, unusable : BOOLEAN,
     closing : BOOLEAN]

PoolRecords == [slots : [Slots -> SlotRecords], activeCount : Int,
                outstanding : Int, started : SUBSET Slots]

EmptySlot ==
    [kind |-> "None", inUse |-> FALSE, connected |-> FALSE, key |-> NoKey,
     opened |-> FALSE,         \* Socket, Transport and Tls are set
     alive |-> FALSE,          \* WskSocketIsConnected(Socket)
     http2 |-> FALSE,          \* Http2 is set
     h2Leases |-> 0,           \* Http2StreamLeases
     h1Leases |-> 0,           \* Http1PipelineLeases
     sendSeq |-> 1,            \* Http1PipelineNextSequence
     recvSeq |-> 1,            \* Http1PipelineNextReceiveSequence
     broken |-> FALSE,         \* Http1PipelineFailureStatus is an error
     buffered |-> FALSE,       \* Http1PipelineBufferedLength # 0
     closeWhenIdle |-> FALSE, keepAlive |-> FALSE, expired |-> FALSE,
     adopted |-> FALSE,        \* Quic, Http3 and CloseRoutine are set
     h3Leases |-> 0, h3Max |-> 0,  \* StreamLeases, MaxStreamLeases
     active |-> FALSE,         \* ActiveRequest
     unusable |-> FALSE,       \* GoAwayReceived, Draining or WorkerExited
     closing |-> FALSE]        \* Evicting and CloseStarted

\* started holds the connections whose close routine is running: the routine of
\* a PendingQuicClose is called once the lock is released.
EmptyPool == [slots |-> [i \in Slots |-> EmptySlot], activeCount |-> 0,
              outstanding |-> 0, started |-> {}]

----------------------------------------
(* Keys *)

ExceptAlpn(key) == [key EXCEPT !.alpn = "none"]

\* ConnectionPoolKeysEqualForAutoAlpnAcquire: a request that lets TLS choose
\* matches a connection whose negotiated protocol was written back.
KeyServes(key, has) ==
    IF /\ key.kind = "Tcp" /\ has.kind = "Tcp" /\ key.alpn = "none"
       /\ has.alpn # "none" /\ key.auto /\ has.auto
      THEN ExceptAlpn(key) = ExceptAlpn(has)
      ELSE key = has

\* ConnectionPoolHostQuotaKeysEqual
SameQuota(left, right) == left.kind = right.kind /\ left.host = right.host

----------------------------------------
(* Tests on a slot *)

IsIdleTcp(s) == /\ s.kind = "Tcp" /\ s.connected /\ ~s.inUse
                /\ s.h2Leases = 0 /\ s.h1Leases = 0

IsIdleQuic(s) == s.kind = "Quic" /\ ~s.inUse /\ s.h3Leases = 0 /\ ~s.active

\* A connection is shared although its first request has no lease yet.
CanShareHttp2BeforeLease(s, key) ==
    /\ s.kind = "Tcp" /\ s.connected /\ s.inUse /\ ~s.closeWhenIdle
    /\ s.h2Leases < MaxH2Streams /\ s.http2 /\ s.opened
    /\ KeyServes(key, s.key)

\* The limit is compared with <=.
CanShareHttp2OneMore(s, key) ==
    /\ s.kind = "Tcp" /\ s.connected /\ s.inUse /\ ~s.closeWhenIdle
    /\ s.h2Leases \in 1..MaxH2Streams /\ s.http2 /\ s.opened
    /\ KeyServes(key, s.key)

CanShareHttp2(s, key) ==
    /\ s.kind = "Tcp" /\ s.connected /\ s.inUse /\ ~s.closeWhenIdle
    /\ s.h2Leases \in 1..(MaxH2Streams - 1) /\ s.http2 /\ s.opened
    /\ KeyServes(key, s.key)

CanShareHttp1Pipeline(s, key) ==
    /\ s.kind = "Tcp" /\ s.connected /\ s.inUse /\ ~s.closeWhenIdle
    /\ s.h1Leases \in 1..(PipelineDepth - 1) /\ s.h2Leases = 0
    /\ KeyServes(key, s.key)

\* The connection can still be given streams.
QuicUsable(s) == /\ s.kind = "Quic" /\ s.connected /\ ~s.closeWhenIdle /\ ~s.unusable
                 /\ ~s.closing /\ s.adopted

CanShareQuicOneMore(s, key) ==
    QuicUsable(s) /\ s.h3Leases \in 1..s.h3Max /\ s.key = key

CanShareQuic(s, key) == QuicUsable(s) /\ s.h3Leases < s.h3Max /\ s.key = key

QuotaSlots(p, key) ==
    {i \in Slots : /\ p.slots[i].connected \/ p.slots[i].inUse
                   /\ SameQuota(p.slots[i].key, key)}

QuotaFullOffByOne(p, key) == Cardinality(QuotaSlots(p, key)) > MaxPerHost

\* CountConnectionsForHostQuota against MaxConnectionsPerHost.
QuotaFull(p, key) == Cardinality(QuotaSlots(p, key)) >= MaxPerHost

\* The loops over the slots stop at the first one in S.
IsFirst(i, S) == i \in S /\ \A j \in S : i <= j

----------------------------------------
(* The changes every operation is made of *)

Update(p, i, s) == [p EXCEPT !.slots[i] = s]

\* DetachConnectionResources and the decrement of ActiveCount that follows it.
Detach(p, i) ==
    [p EXCEPT !.slots[i] = EmptySlot,
              !.activeCount = IF p.slots[i].connected THEN @ - 1 ELSE @]

\* A free slot becomes the connection of `key`.
Occupy(p, i, key) ==
    [p EXCEPT !.slots[i] = [EmptySlot EXCEPT !.kind = key.kind, !.key = key,
                                !.inUse = TRUE, !.connected = TRUE,
                                !.active = key.kind = "Quic"],
              !.activeCount = @ + 1]

\* CloseStarted is not tested.
CanBeginCloseAgain(s) == s.kind = "Quic" /\ s.adopted

CanBeginClose(s) == s.kind = "Quic" /\ s.adopted /\ ~s.closing

\* BeginQuicCloseLocked, when CanBeginClose, and StartPendingQuicClose.
BeginClose(p, i) ==
    [p EXCEPT !.slots[i] = [@ EXCEPT !.closeWhenIdle = TRUE, !.inUse = TRUE,
                                     !.closing = TRUE],
              !.outstanding = @ + 1, !.started = @ \cup {i}]

TryBeginClose(p, i) == IF CanBeginClose(p.slots[i]) THEN BeginClose(p, i) ELSE p

----------------------------------------
(* ConnectionPoolAcquire *)

\* The slots a ReuseOrCreate request stops at, and the idle QUIC connections it
\* has begun to close on the way there.
Hits(p, key) ==
    {i \in Slots :
        /\ ~(IsIdleQuic(p.slots[i]) /\ p.slots[i].expired)
        /\ \/ CanShareQuic(p.slots[i], key) \/ CanShareHttp2(p.slots[i], key)
           \/ IsIdleTcp(p.slots[i]) /\ KeyServes(key, p.slots[i].key)}

ExpiredBefore(p, S) ==
    {i \in Slots : /\ IsIdleQuic(p.slots[i]) /\ p.slots[i].expired
                   /\ CanBeginClose(p.slots[i]) /\ \A j \in S : i < j}

\* One BeginQuicCloseLocked for each of S, in order of index.  They fill in the
\* same PendingQuicClose, so only the last one's routine is called.
CloseExpired(p, S) ==
    [p EXCEPT !.slots = [i \in Slots |->
                  IF i \in S THEN [@[i] EXCEPT !.closeWhenIdle = TRUE,
                                               !.inUse = TRUE, !.closing = TRUE]
                             ELSE @[i]],
              !.outstanding = @ + Cardinality(S),
              !.started = @ \cup {i \in S : \A j \in S : j <= i}]

\* The slot of a hit that is handed out.
Shared(s) ==
    CASE s.kind = "Quic" -> [s EXCEPT !.h3Leases = @ + 1, !.active = TRUE, !.inUse = TRUE]
      [] s.kind = "Tcp" /\ s.inUse -> [s EXCEPT !.h2Leases = @ + 1]
      [] OTHER -> [s EXCEPT !.inUse = TRUE]

\* ForceNew and NoPool first close one idle QUIC connection of the host.
IdleQuicOfHost(p, key) ==
    {i \in Slots : IsIdleQuic(p.slots[i]) /\ SameQuota(p.slots[i].key, key)}

\* DetachIdleConnectionForHostQuotaLocked
IdleTcpOfHost(p, key) ==
    {i \in Slots : IsIdleTcp(p.slots[i]) /\ SameQuota(p.slots[i].key, key)}

FreeSlots(p) == {i \in Slots : p.slots[i].kind = "None"}
IdleTcpSlots(p) == {i \in Slots : IsIdleTcp(p.slots[i])}

\* The outcomes of creating a connection: <<pool, slot>>, slot 0 for
\* STATUS_INSUFFICIENT_RESOURCES.  `freed` says that this acquire has already
\* detached a connection; it detaches no second one.
Place(p, key, policy, freed) ==
    {<<Occupy(p, i, key), i>> : i \in {i \in Slots : IsFirst(i, FreeSlots(p))}}
    \cup (IF FreeSlots(p) # {} THEN {}
          ELSE IF policy = "NoPool" \/ freed \/ IdleTcpSlots(p) = {} THEN {<<p, 0>>}
          ELSE {<<Occupy(Detach(p, i), i, key), i>> :
                    i \in {i \in Slots : IsFirst(i, IdleTcpSlots(p))}})

Create(p, key, policy, freed) ==
    IF ~QuotaFull(p, key) THEN Place(p, key, policy, freed)
    ELSE IF freed THEN {<<p, 0>>}
    ELSE IF IdleTcpOfHost(p, key) = {} THEN {<<p, 0>>}
    ELSE UNION {IF QuotaFull(Detach(p, i), key) THEN {<<Detach(p, i), 0>>}
                ELSE Place(Detach(p, i), key, policy, TRUE) :
                    i \in {i \in Slots : IsFirst(i, IdleTcpOfHost(p, key))}}

\* All outcomes of an acquire before the unlock: <<pool, slot, reused>>.
AcquireReuse(p, key) ==
    LET hits == Hits(p, key)
        q == CloseExpired(p, ExpiredBefore(p, hits))
    IN  IF hits = {}
          THEN {<<c[1], c[2], FALSE>> : c \in Create(q, key, "ReuseOrCreate", FALSE)}
          ELSE UNION {IF IsIdleTcp(q.slots[i]) /\ q.slots[i].expired
                        THEN {<<c[1], c[2], FALSE>> :
                                c \in Create(Detach(q, i), key, "ReuseOrCreate", TRUE)}
                        ELSE {<<Update(q, i, Shared(q.slots[i])), i, TRUE>>} :
                      i \in {i \in Slots : IsFirst(i, hits)}}

AcquireNew(p, key, policy) ==
    LET idle == IdleQuicOfHost(p, key)
        closed == IF idle = {} THEN {p}
                  ELSE {TryBeginClose(p, i) : i \in {i \in Slots : IsFirst(i, idle)}}
    IN  UNION {{<<c[1], c[2], FALSE>> : c \in Create(q, key, policy, FALSE)} : q \in closed}

Acquire(p, key, policy) ==
    IF policy = "ReuseOrCreate" THEN AcquireReuse(p, key)
                                ELSE AcquireNew(p, key, policy)

\* The first half of ConnectionPoolAcquireHttp1Pipeline; without a pipeline to
\* join it goes on to ConnectionPoolAcquire, under the lock anew.
Joinable(p, key) == {i \in Slots : CanShareHttp1Pipeline(p.slots[i], key)}

JoinPipeline(p, i) == Update(p, i, [p.slots[i] EXCEPT !.h1Leases = @ + 1])

----------------------------------------
(* Release and close *)

\* The last release looks at its own request only, not at CloseWhenIdle.
ReleaseHttp2IgnoresFailure(p, i, reusable) ==
    LET s == [p.slots[i] EXCEPT !.h2Leases = @ - 1, !.closeWhenIdle = @ \/ ~reusable]
    IN  IF s.h2Leases # 0 THEN Update(p, i, s)
        ELSE IF ~reusable THEN Detach(p, i)
        ELSE Update(p, i, [s EXCEPT !.inUse = FALSE, !.expired = FALSE])

ReleaseHttp1PipelineIgnoresFailure(p, i, reusable) ==
    LET s == [p.slots[i] EXCEPT !.h1Leases = @ - 1, !.closeWhenIdle = @ \/ ~reusable]
    IN  IF s.h1Leases # 0 THEN Update(p, i, s)
        ELSE IF ~reusable THEN Detach(p, i)
        ELSE Update(p, i, [s EXCEPT !.sendSeq = 1, !.recvSeq = 1, !.broken = FALSE,
                                    !.inUse = FALSE, !.expired = FALSE])

\* A stream lease or a pipeline lease goes back; the last one of a connection
\* that must not be used again takes the connection with it.
ReleaseHttp2(p, i, reusable) ==
    LET s == [p.slots[i] EXCEPT !.h2Leases = @ - 1,
                                !.closeWhenIdle = @ \/ ~reusable]
    IN  IF s.h2Leases # 0 THEN Update(p, i, s)
        ELSE IF s.closeWhenIdle THEN Detach(p, i)
        ELSE Update(p, i, [s EXCEPT !.inUse = FALSE, !.expired = FALSE])

ReleaseHttp1Pipeline(p, i, reusable) ==
    LET s == [p.slots[i] EXCEPT !.h1Leases = @ - 1,
                                !.closeWhenIdle = @ \/ ~reusable,
                                !.broken = @ \/ ~reusable]
    IN  IF s.h1Leases # 0 THEN Update(p, i, s)
        ELSE IF s.closeWhenIdle \/ s.buffered THEN Detach(p, i)
        ELSE Update(p, i, [s EXCEPT !.sendSeq = 1, !.recvSeq = 1, !.broken = FALSE,
                                    !.inUse = FALSE, !.expired = FALSE])

ReleaseExclusive(p, i, reusable) ==
    IF reusable THEN Update(p, i, [p.slots[i] EXCEPT !.inUse = FALSE, !.expired = FALSE])
                ELSE Detach(p, i)

\* The lease count is decremented without the test for zero.
ReleaseHttp3Underflow(p, i, reusable) ==
    LET leases == p.slots[i].h3Leases - 1
        s == [p.slots[i] EXCEPT !.h3Leases = leases, !.active = leases # 0,
                                !.closeWhenIdle = @ \/ ~reusable]
    IN  IF leases # 0 THEN Update(p, i, s)
        ELSE IF s.closeWhenIdle \/ s.unusable THEN TryBeginClose(Update(p, i, s), i)
        ELSE Update(p, i, [s EXCEPT !.inUse = FALSE, !.expired = FALSE])

\* ConnectionPoolReleaseHttp3StreamLease
ReleaseHttp3(p, i, reusable) ==
    LET leases == IF p.slots[i].h3Leases = 0 THEN 0 ELSE p.slots[i].h3Leases - 1
        s == [p.slots[i] EXCEPT !.h3Leases = leases, !.active = leases # 0,
                                !.closeWhenIdle = @ \/ ~reusable]
    IN  IF leases # 0 THEN Update(p, i, s)
        ELSE IF s.closeWhenIdle \/ s.unusable THEN TryBeginClose(Update(p, i, s), i)
        ELSE Update(p, i, [s EXCEPT !.inUse = FALSE, !.expired = FALSE])

\* ConnectionPoolRelease
Release(p, i, reusable) ==
    CASE p.slots[i].kind = "Quic" -> ReleaseHttp3(p, i, reusable)
      [] p.slots[i].kind # "Quic" /\ p.slots[i].h2Leases # 0 -> ReleaseHttp2(p, i, reusable)
      [] p.slots[i].kind # "Quic" /\ p.slots[i].h2Leases = 0 /\ p.slots[i].h1Leases # 0
            -> ReleaseHttp1Pipeline(p, i, reusable)
      [] OTHER -> ReleaseExclusive(p, i, reusable)

\* ConnectionPoolClose: the caller's lease is not given back.
Close(p, i) ==
    IF p.slots[i].h1Leases # 0 \/ p.slots[i].h2Leases # 0
      THEN Update(p, i, [p.slots[i] EXCEPT !.closeWhenIdle = TRUE,
                                           !.broken = @ \/ p.slots[i].h1Leases # 0])
      ELSE Detach(p, i)

----------------------------------------
(* TCP connections *)

\* PooledConnectionAdoptSocket, -AdoptTls and -SetAlpn, by the one request that
\* holds the new connection.
AdoptSocket(p, i, alpn) ==
    Update(p, i, [p.slots[i] EXCEPT !.opened = TRUE, !.alive = TRUE,
                                    !.key = [@ EXCEPT !.alpn = alpn]])

\* PooledConnectionCloseTransportResources: neither the lock nor the leases of
\* other requests are looked at.
CloseTransport(p, i) ==
    Update(p, i, [p.slots[i] EXCEPT !.opened = FALSE, !.alive = FALSE, !.http2 = FALSE])

\* WskSocket::CloseAfterCancelledOperation, when an I/O of a request is
\* cancelled or times out.
DropSocket(p, i) == Update(p, i, [p.slots[i] EXCEPT !.alive = FALSE])

AdoptHttp2(p, i) == Update(p, i, [p.slots[i] EXCEPT !.http2 = TRUE])

CanPromote(s) == /\ s.connected /\ s.inUse /\ ~s.closeWhenIdle
                 /\ s.h2Leases = 0 /\ s.h1Leases = 0

\* ConnectionPoolPromoteHttp2StreamLease
PromoteHttp2(p, i) == Update(p, i, [p.slots[i] EXCEPT !.h2Leases = 1])

\* ConnectionPoolPromoteHttp1PipelineLease
PromoteHttp1Pipeline(p, i) ==
    Update(p, i, [p.slots[i] EXCEPT !.h1Leases = 1, !.sendSeq = 1, !.recvSeq = 1,
                                    !.broken = FALSE, !.buffered = FALSE])

\* ConnectionPoolBeginHttp1PipelineSend, once the send lock is held.
CanBeginPipelineSend(s) == /\ s.h1Leases # 0 /\ ~s.closeWhenIdle /\ ~s.broken
                           /\ s.sendSeq < MaxSequence

BeginPipelineSend(p, i) == Update(p, i, [p.slots[i] EXCEPT !.sendSeq = @ + 1])

\* What ConnectionPoolWaitHttp1PipelineReceiveTurn waits for.
PipelineFailed(s) == s.h1Leases = 0 \/ s.closeWhenIdle \/ s.broken
IsReceiveTurn(s, seq) == ~PipelineFailed(s) /\ s.recvSeq = seq

TakeBuffered(p, i) == Update(p, i, [p.slots[i] EXCEPT !.buffered = FALSE])

\* ConnectionPoolStoreHttp1PipelineBufferedBytes
CanStoreBuffered(s) == s.h1Leases > 1 /\ ~s.closeWhenIdle /\ ~s.broken
StoreBuffered(p, i) == Update(p, i, [p.slots[i] EXCEPT !.buffered = TRUE])

CompletePipelineReceive(p, i, seq) ==
    IF p.slots[i].h1Leases # 0 /\ p.slots[i].recvSeq = seq
      THEN Update(p, i, [p.slots[i] EXCEPT !.recvSeq = @ + 1]) ELSE p

\* ConnectionPoolFailHttp1Pipeline, and the failing half of StoreBuffered.
FailPipeline(p, i) ==
    IF p.slots[i].h1Leases # 0
      THEN Update(p, i, [p.slots[i] EXCEPT !.closeWhenIdle = TRUE, !.broken = TRUE])
      ELSE p

\* ConnectionPoolRunHttp2KeepAliveSweep: the two halves around the PING.
KeepAliveDue(s) == IsIdleTcp(s) /\ ~s.closeWhenIdle /\ ~s.keepAlive /\ s.opened /\ s.http2

BeginKeepAlive(p, i) ==
    Update(p, i, [p.slots[i] EXCEPT !.inUse = TRUE, !.keepAlive = TRUE])

EndKeepAlive(p, i, alive) ==
    IF alive THEN Update(p, i, [p.slots[i] EXCEPT !.keepAlive = FALSE, !.inUse = FALSE,
                                                  !.expired = FALSE])
             ELSE Detach(p, i)

----------------------------------------
(* QUIC connections *)

AdoptQuic(p, i) == Update(p, i, [p.slots[i] EXCEPT !.adopted = TRUE])

\* ConnectionPoolPromoteHttp3StreamLease: the lease of the first request.
CanPromoteHttp3(s) == QuicUsable(s) /\ s.h3Leases < MaxH3Streams
PromoteHttp3(p, i) ==
    Update(p, i, [p.slots[i] EXCEPT !.h3Max = MaxH3Streams, !.h3Leases = @ + 1,
                                    !.inUse = TRUE])

\* The lease the acquire has counted is counted again.
BindHttp3CountsAgain(p, i) ==
    Update(p, i, [p.slots[i] EXCEPT !.h3Max = MaxH3Streams, !.h3Leases = @ + 1])

\* ConnectionPoolBindHttp3StreamLease: the lease was counted by the acquire.
CanBindHttp3(s) == /\ QuicUsable(s) /\ s.h3Leases # 0 /\ s.active
                   /\ s.h3Leases <= MaxH3Streams
BindHttp3(p, i) == Update(p, i, [p.slots[i] EXCEPT !.h3Max = MaxH3Streams])

\* The close begins although streams are open.
QuicUnusableAtOnce(p, i) ==
    TryBeginClose(Update(p, i, [p.slots[i] EXCEPT !.unusable = TRUE,
                                                  !.closeWhenIdle = TRUE]), i)

\* ConnectionPoolSetHttp3GoAway and ConnectionPoolSetQuicDraining.
QuicUnusable(p, i) ==
    LET q == Update(p, i, [p.slots[i] EXCEPT !.unusable = TRUE, !.closeWhenIdle = TRUE])
    IN  IF p.slots[i].h3Leases = 0 /\ ~p.slots[i].active THEN TryBeginClose(q, i) ELSE q

\* ConnectionPoolCompleteQuicClose, the end of the close routine.
CompleteQuicClose(p, i) ==
    [p EXCEPT !.slots[i] = EmptySlot,
              !.activeCount = IF p.slots[i].connected THEN @ - 1 ELSE @,
              !.outstanding = @ - 1, !.started = @ \ {i}]

\* An idle connection reaches IdleTimeoutMilliseconds.
AgeOut(p, i) == Update(p, i, [p.slots[i] EXCEPT !.expired = TRUE])

----------------------------------------
(* ConnectionPoolShutdown *)

\* The slots its loop still has to take: the first is detached or closed.
ShutdownTargets(p) ==
    {i \in Slots : \/ p.slots[i].kind = "Tcp"
                   \/ p.slots[i].kind = "Quic" /\ CanBeginClose(p.slots[i])}

\* A TCP connection is found and left where it is.
ShutdownForgetsTcp(p, i) == IF p.slots[i].kind = "Tcp" THEN p ELSE BeginClose(p, i)

ShutdownOne(p, i) == IF p.slots[i].kind = "Tcp" THEN Detach(p, i) ELSE BeginClose(p, i)

----------------------------------------
(* What the pool keeps true by itself *)

\* The pool's counts are exact.  ActiveCount is the number of connected slots: no
\* path detaches a connection without the decrement, or decrements twice
\* (ConnectionPool.cpp has the decrement at eleven places).  QuicCloseOutstanding,
\* which ConnectionPoolShutdown waits on, counts the connections being closed, and a
\* slot whose close routine runs is still the connection it was called for.
CountsExact ==
    /\ pool.activeCount = Cardinality({i \in Slots : pool.slots[i].connected})
    /\ pool.outstanding = Cardinality({i \in Slots : pool.slots[i].closing})
    /\ \A i \in pool.started : pool.slots[i].kind = "Quic" /\ pool.slots[i].closing

\* The per-host quota is never exceeded, however connections are evicted, retried
\* with ForceNew or renamed by the negotiated protocol (CountConnectionsForHostQuota).
QuotaRespected == \A key \in Keys : Cardinality(QuotaSlots(pool, key)) <= MaxPerHost

\* No lease count passes its limit.
LeasesWithinLimits ==
    \A i \in Slots : /\ pool.slots[i].h2Leases <= MaxH2Streams
                     /\ pool.slots[i].h1Leases <= PipelineDepth
                     /\ pool.slots[i].h3Leases <= MaxH3Streams

\* Every QUIC connection whose close has begun has its close routine called
\* (BeginQuicCloseLocked, StartPendingQuicClose).
EveryCloseStarted == {i \in Slots : pool.slots[i].closing} = pool.started
=============================================================================
