# wknet in TLA+

wknet is an HTTP/1.1, HTTP/2, HTTP/3, WebSocket and SSE client library that runs
in the Windows kernel. This directory holds TLA+ models of its components, the
TLC configurations that check them on small instances, and TLAPS proofs of the
properties of its concurrent core. Paths below are relative to `src/wknetlib/` of
the repository.

Contents: [inventory](#1-inventory) · [models](#2-models) · [runs](#3-runs) ·
[fairness](#4-fairness) · [proofs](#5-proofs) · [findings](#6-what-the-code-does-that-it-should-not) ·
[not modelled](#7-what-is-not-modelled) · [plan](#8-plan)

## 1. Inventory

| Component | State | Operations | What is hard, and what correct means |
|---|---|---|---|
| Async runtime `session/Async.cpp` | bounded FIFO, worker table, semaphore, in-flight count, drain event; per operation: reference count, Canceled, Completed, State | create, queue, cancel, wait, release; worker loop; `EngineDrainAsync` | every field is an interlocked word or under one spin lock, and steps of clients, workers and the drain interleave between them: complete once, free once, lose no wake-up, leave nothing behind |
| Connection pool `session/ConnectionPool.cpp` | fixed array of slots, active count, QUIC closes outstanding | acquire, join, promote, release, close, pipeline begin / turn / complete / fail, keep-alive, GOAWAY, shutdown | connections shared by leases, quotas and eviction at the limit, a close that several parties may begin: counts are exact, nobody's connection is taken |
| Request dispatch `session/HttpSend.cpp`, `HttpTransportDispatch.cpp`, `HttpH1Dispatch.cpp`, `HttpH2Dispatch.cpp`, `HttpH3Peer.cpp`, `HttpProxy.cpp` | per request: slot, reused, retried, pipeline sequence | acquire, connect, exchange, retry once on a fresh connection, release | failures between two steps; every request returns and gives back what it took |
| Session and handle table `session/SessionLife.cpp`, `EngineHandleTable.cpp` | list of open handles, per handle: in-flight count, drain event, what the session has acquired | create with roll-back, begin / end operation, close and drain, close all | close racing calls, unload racing both; a call never runs on a freed session, every close ends |
| Network change monitor `net/NetworkChangeMonitor.cpp` | subscribers, pending flag, worker | subscribe, notify, call back, unsubscribe, stop | a call-back during unsubscription or after a close |
| WSK sockets `net/WskSocket.cpp`, `WskSync.h`, `WskDatagramSocket.cpp` | IRPs, events, reference counts, rundown | connect, send, receive, disconnect, close | completion against time-out and cancel; no native socket is lost or closed under a call |
| Name resolution `net/WskClient.cpp` | cache, contexts under way, registration | resolve, complete, shut down | late answers; an answer is for the question it was asked for |
| QUIC `quic/` | packet-number spaces, sent packets, windows, streams, command queue, receive IRP | commands, receive, send, loss and probe timers, close, shut down | loss, reordering, duplication, timers, a worker against its callers |
| HTTP/1 `http1/`, HTTP/2 `http2/`, HTTP/3 `http3/`, QPACK `qpack/` | parser state; streams, windows, dynamic tables | messages and frames in and out, SETTINGS, GOAWAY | framing, flow control, table references, blocked streams |
| HTTP/3 dispatch `session/HttpH3Dispatch.cpp` | routes, terminal status, fences | bind, wait, cancel | callbacks on the QUIC worker against the waiting request |
| TLS `tls/Tls*.cpp` | handshake state, sequence numbers, tickets | handshake, records, renegotiation, key update | both ends agree on transcript, keys and sequence numbers |
| Certificates `tls/CertificateValidator.cpp`, `CertificateStore.cpp` | parsed chain, search frames | parse, search, check, revocation | many rules that are right one by one; the verdict is the issuers' |
| Requests and redirects `session/RequestApi.cpp`, `HttpRedirect.cpp`, `HttpRoute.cpp`; route `HttpProxy.cpp` | the request, its clone, the message; socket, tunnel, TLS version | setters, send, redirect; connect, tunnel, fall back | what is carried from one origin to the next; what is sent twice |
| Alt-Svc, cookies, cache `session/AltSvcCache.cpp`, `CookieJar.cpp`, `HttpCache.cpp` | bounded tables under a lock | look up, store, expire, evict | the lock is free between look-up and report; limits; staleness |
| WebSocket `ws/`, `session/Ws*.cpp` | frame, fragment and close state at two levels | connect, send, receive, close | senders against automatic answers; fall-backs |
| SSE `sse/`, `session/SseClient.cpp` | parser buffers, event queue, last event id | feed, receive, reconnect, close | pieces cut anywhere; a queue filled and emptied by two threads without a lock |
| Content codings `codec/ContentCoding.cpp`, `http1/HttpContentEncoding.cpp` | output buffers, chain | negotiate, decode | limits and growth in the middle of a chain |
| EXI and Pack200, cryptography, bundled decompressors, test driver | buffers | | data rather than control; not modelled (section 7) |

How they interact: an API call runs on the caller's thread, or on an async
worker as an operation's `WorkerRoutine`. It becomes one or more
`SendSingleHttpRequest` calls, each of which takes a connection from the
session's pool, connects it if it is new, runs the exchange and gives it back.
QUIC connections have a worker thread of their own, which calls back into the
pool (GOAWAY, failure, close completed). The keep-alive thread pings idle HTTP/2
connections. `SessionClose` waits for the handles' operations and shuts the pool
down; `EngineDrainAsync` stops the async workers before the driver unloads.

`PROJECT.json` lists all components, and under "hazards" the places where a test
would hardly reach, with the properties that watch them.

## 2. Models

Every component module declares its own variables and has an initial predicate,
one action per operation, handler or step, a next-state action and a
specification. An operator that carries a name of the code models the function
of that name; `PROJECT.json` ("map") gives the lines of each. An operator whose
comment begins with `Fault:` is not used by the model: it is a plausible slip in
the operator next to it, kept to show that a property notices it.

### AsyncRuntime, AsyncLifecycle

`AsyncRuntime` has one program counter per thread. A step is one interlocked
access or one section under `g_asyncQueueLock`; accesses that commute with their
neighbours are merged. The labels are prefixed by the code they stand for: `q_`
for `AsyncOperationQueue`, `x_` for cancel, `c_` for `CompleteOperation`, `r_`
for `RunOperation`, `w_` for the worker loop, `d_` for `EngineDrainAsync`.

| Variable | Code |
|---|---|
| `runtimeState`, `stopped`, `inFlight`, `drainEvent` | `g_asyncRuntimeState`, `g_asyncQueueStopped`, `g_asyncInFlight`, `g_asyncDrainEvent` |
| `queue`, `semaphore`, `workerOps` | the linked list, `g_asyncQueueSemaphore`, `g_asyncWorkerOperations` |
| `op[o]` | the `AsyncOperation`; `memory` says whether it is allocated, `callbacks` counts completion callbacks |
| `verdict`, `unlinked`, `drained` | local variables and return values |

Starting the worker threads may fail at any thread (`StartWorkerFails`), and a
failed start is undone as in the code. `AsyncRuntimeConfigure` is represented by
the constants. The `WKNET_USER_MODE_TEST` build, which has no threads, is left
out. `AsyncLifecycle` says what the caller of an operation may rely on: once
accepted it is completed, the callback runs once, and memory goes only
afterwards. `ImplementsLifecycle` is the refinement, with the mapping `Phase`.

### ConnectionPool, HttpSend

Every operation of the pool holds the pool's lock from beginning to end, so
`ConnectionPool` writes each one as an operator from the pool's value before to
its value after; `Acquire`, whose result depends on idle times, returns a set of
outcomes. `HttpSend` composes them with the requests: a step of a request is one
pool operation or one blocking operation outside the lock.

| Model | Code |
|---|---|
| `pool.slots[i]` | `PooledConnection`, with `Holder.Quic` for a QUIC slot; `alive` is `WskSocketIsConnected` |
| `pool.activeCount`, `pool.outstanding` | `ActiveCount`, `QuicCloseOutstanding` |
| `pool.started` | the QUIC connections whose close routine has been called |
| `req[r]` | the local variables of `SendSingleHttpRequest` and of the dispatcher it is in |
| `wire[i]` | the pipelined requests that were sent on a connection and not yet answered |
| `session` | whether `SessionClose` has begun and ended |

A key is a kind, a host (all the quota compares), an identity (all the rest of
the key but ALPN: TLS policy, credentials, proxy) and the ALPN value. Time is a
flag: an idle connection may expire at any moment (`IdleTimeout`). The network
may fail every operation; an I/O that is cancelled or times out closes the socket
(`SocketCloses`), also under requests that share it. Servers answer pipelined
requests in order. Abstractions worth knowing:
- `PooledConnectionAdoptHttp2` and the promotion that follows are one step:
  before it the connection is held exclusively and not shareable.
- A QUIC close is begun under the lock and runs afterwards, in the code by the
  thread that began it; the model lets that thread go on, which only adds
  behaviours.
- The keep-alive join of `ConnectionPoolStopHttp2KeepAlive`, bounded by 30 s, is
  taken as completed.
- `TransportOutlivesUse` needs a flag no program has: `stale` marks a request
  whose transport another one has freed.

### Threads inside the library (MCThreads)

| Module | State and actions | Property |
|---|---|---|
| `SessionLife` | `phase`, `inFlight`, `held` per handle, `table` (the lists of open handles), `thread[t]` (where a thread is, on which handle, how many steps of its job are behind it), `loop` (where the unload stands), `monitor`. `SessionCreate` acquires the parts in `CreateOrder` or undoes them in `RollbackOrder`, `BeginHandleOperation` / `EndHandleOperation` pin a handle, `SessionCloseStep` and `WebSocketCloseStep` follow `CloseOrder`, `UnloadStep` closes what is left, `WorkerStep` calls sessions back | `HandlesOutliveUse`: between begin and end of an operation the handle is not freed and has all its parts; a freed session is in no table and no subscription and owns nothing. `SessionsAreServed`: a network change reaches its subscribers, the unload closes every session |
| `WskSocket` | `call[o]`: caller, IRP and shared context of a connect, a send or a receive; `sock`, the fields of the socket; `native[n]`, what the provider has created. Time-out, cancellation and late completion are separate steps | `NativeSocketsSafe`: every native socket is held by the socket or carried by the connect call until it is closed, is closed once, and nothing is under way on a closed one. `WaitersReturn` |
| `QuicWorker` | `conn` (the fields threads share), `op` (completion states of the commands), `dg` (the datagram socket's receive), `stopper` (the thread in `Shutdown`) | `WorkerStopsCleanly`: buffers and socket outlive the provider's use of them. `WaitersReturn`: commands are answered |
| `SseClient` | `sseStreams[k]`, `sseReceiver`, the queue `sseRing` with its unlocked count, `sseLife`, `sseGot` (what was returned) | `ReconnectResumes`: a new stream continues behind the last queued event |

### Before a request is sent (MCClient)

| Module | State and actions | Property |
|---|---|---|
| `HttpCache` | entries with bodies position by position; per caller where it is between look-up, origin and store; the origin's versions; the clock | `CacheIsSound`: served bytes are of one version, of the variant asked for, written, at their place, and no older than their lifetime allows; byte and entry counts exact. The origin may answer a range with a 206 that has no complete length, and several ranges in one multipart body; the code keeps such a part as a whole entry, of which the place is not claimed (section 6) |
| `AltSvcCache` | entries with generation, expiry, back-off; requests with a snapshot | `AlternativesAreSound`: only a failure on this advertisement rests it; generations are not confused |
| `CookieJar` | the jar, its byte count, the last Cookie header | `JarIsSound`: the count is exact, a cookie goes to its own site only |
| `NameResolution` | cache, calls with their shared contexts, registration | `ResolutionsAreSound`: answers belong to the question and are fresh; the provider is released after the last context |
| `RequestRedirect` | the application's request, the clone being sent, the message on the wire | `CredentialsStayWithOrigin`: credentials and TLS names stay with their origin, no downgrade; `HopsFollowTheRedirects`: each message is the one the setters and the redirects followed so far describe |
| `WebSocketConnect` | worker, connection, server, context of the asynchronous call | `ConnectEndsCleanly`: a connected WebSocket is as negotiated; a released operation leaks nothing |

### Over one TCP connection (MCTcp)

| Module | State and actions | Property |
|---|---|---|
| `TransportRoute` | route, server, wire, the caller's progress, what the far end has seen | `RouteServesRequest`: nobody sees what is not for them, only safe requests are repeated, the attempt that succeeds hands the body over as sent, whole and once, also behind a 101; `trCall.earlier` keeps what an attempt given up has shown |
| `Http1Exchange` | wire as marks, reader, upload, attempt | `ExchangesStayInStep`: a complete response is whole; a reused connection is at a message boundary |
| `ContentDecoding` | Accept-Encoding, coded body, buffers, the probe of the deflate runtime | `CodingsAgree`: what is offered is decodable, what is decoded is what was coded, limits hold, and a body within the limits is decoded if the buffers suffice (`CdBuffersSuffice`: a zstd body fits the first buffer, what lies between two codings fits the scratch buffer); LZW bit by bit |
| `EventStream` | parser buffers, capacities, what has been fed | `EventsAsWritten`: however the stream is cut, the events are those of its lines |
| `Http2Connection` | connection, `h2Slot[r]`, link, peer's account | `FlowControlAgrees`: both ends count the same windows |
| `HpackTables` | both dynamic tables, blocks and settings under way, blocks dropped undecoded, encodings that ran out of room | `HpackBlocksSurvive`: every header list is decoded as encoded, until one of these two has parted the tables |
| `WebSocketIo` | `wsHandle` and `wsConn` (the two levels), two locks, peer as acceptor of RFC 6455 | `WebSocketMessagesIntact`: the peer sees well-formed messages, the receiver whole ones |

### QUIC, HTTP/3 and TLS (MCSecure)

| Module | State and actions | Property |
|---|---|---|
| `Http3Exchange` | routes, request and stream states, callbacks, response wait | `H3ResponseIntact`: a response reported complete is the server's; a caller gets its pieces in order, from the first on unless a callback came between the opening and the binding of the stream and found no dispatch (`missed`) |
| `QpackTables` | both tables, references, streams that overtake each other; the encoder is `QpackEncoder` ("own") or another that conforms to RFC 9204 | `QpackSectionsSurvive`: sections and entries arrive as they were given, but for a name that moved under its insert and for sections too far ahead of the decoder (section 6) |
| `QuicTransport` | `qtClient`, `qtServer`; packets in `qtUp`, `qtDown` are never removed, so any may be delivered late, twice or never | `QuicDeliversExactly`: bytes in order and once; accounts exact |
| `QuicHandshake` | client, server (external), packets, faults | `QuicEndsAgree`; `HandshakeSurvivesLoss` (violated) |
| `Tls12Connection`, `Tls13Connection` | client, server (external), symbolic keys and transcripts | `Tls12EndsAgree`, `BothEndsAgree`: every Finished, signature, binder and record is accepted by the other end; TLS 1.2 servers give a session id or none, and send data at any time |
| `CertificatePath` | parsed chain, path search with frames, revocation loop | `ChainIsJudgedAsIssued`: the verdict is that of a reference definition on what the issuers meant, unless name constraints were dropped at their bound or a common name stood in for a DNS name (section 6) |

Peers, providers and servers are external: they conform to their RFC unless a
constant says otherwise.

## 3. Runs

| Run | Instance | What it shows |
|---|---|---|
| `async_operations` | 2 operations, 2 clients, 1 worker, queue of 1, 1 drain | references and the in-flight count are exact, no use after free, no lost wake-up (`OperationsAreCounted`); the runtime implements `AsyncLifecycle` |
| `async_drain` | 1 operation, 2 clients, 2 workers, queue of 2, 1 drain | the drain leaves nothing behind (`DrainIsSafe`); under fairness everything is over (`RuntimeWindsDown`) |
| `send_origin` | 3 requests to one origin, 1 slot, pipeline depth 3, 4 sequence numbers, 2 HTTP/2 streams | pipelined responses go to their requests (`PipelineInOrder`); idle connections are clean, promises are kept (`ConnectionsAreSafe`) |
| `send_slots` | 2 slots, 1 connection per host; 2 requests for 6 keys with all policies and keep-alive, or 3 for 2 QUIC origins | counts, quotas and ownership at the limit; closes begun from several sides are counted once; leases are exact |
| `send_live` | 2 requests, 1 slot, every kind of exchange | `RequestsFinish`, `ShutdownCompletes` |
| `threads`, `client`, `tcp`, `secure` | see the configurations | the component properties of section 2 |
| `send_leak` (violated) | 2 requests, 1 slot | finding 1 of section 6 |
| `quic_loss` (violated) | one lost packet | finding 2 of section 6 |
| `http2_reset` (violated) | 2 requests on one connection | finding 3 of section 6 |

A group run explores several components that share no state in the code. Its
variable `focus` says which component a behaviour is about; the others rest in an
initial state. The run is thus the union of the components' state spaces and not
their product, and a property of one component holds trivially where the focus
is another.

**Bounds.** Every bound is a CONSTANT that its module names as one, or a constraint
of the MC module's next-state action:
- Two actors of a kind let any two steps interleave; a third is there where a
  third party matters (the request behind two pipelined ones, the drain, the
  driver's unload, the provider).
- Capacities are one or two, so that every table is full, evicts and wraps;
  lengths are two or three, so that there is a first, a middle and a last.
- `RqMaxWork = 3` bounds setter calls, redirects and URLs after the first together
  (`RqMaxUrls = 2`: the second URL is the one that reuses the host's buffer); `WsMaxTraffic = 2` sends plus
  received frames of a WebSocket; in `Http2Connection` the peer of the run sends
  GOAWAY but does not lower its window twice (`GoesAwayOnly`).
- Requests of `TransportRoute` and the callers of `HttpCache` run one behind
  another as well as interleaved; faults and packets are counted (`TrMaxFaults`,
  `QhMaxLosses`, `QtMaxPackets`).
- Some constants switch on a behaviour that makes a property false for a
  known reason, in a way the property cannot tell apart; each has its row in section 6,
  and they are off in the passing runs: `H3Polling`, `QpFragments`, `EsSplitsBom`,
  `T12ServerAsks`, `Tls13ServerResumes`, the usage `duplex-auth`, the late mode `upgrade`,
  the transport `h3` of `CdTransports`. Other such behaviours are on, and the property excepts
  by name what they break: `HpFaults`, `H3EarlyAnswers`, both `QpEncoders`,
  `T12ServerTalks`, empty `T12SessionIds`, all `CacheForms`, `CvMaxConstraints`.
- `CdInitialCapacity = 3` and `CdScratch = 4` are smaller than the longest bodies, so that buffers
  grow, or fail to, in the middle; `CvMaxConstraints = 1` (8 in the code) drops a second
  constraint. One cipher suite is run per TLS version: it decides the transcript's hash
  only. A section runs ahead of the decoder (`SectionsStayInReach`) with `QpCapacity = 1`, not with
  the run's 2 and two insertions.

**Deadlock** is checked in `send_origin` and `send_live`. Elsewhere
the system may stop rightly: the drain ends the runtime, a closed session is not
opened again, a handshake ends, callers need not call. `send_slots` reaches a shutdown that
waits for a close nobody began (`EveryCloseStarted`, section 6). **Symmetry** is used in
safety runs only, over requests or operations and clients.

**Mutants.** For each property of a passing run, `PROJECT.json` names one
slip (`Fault:` operators and their likes) with which TLC finds the property
violated in the same run.

## 4. Fairness

Fairness is stated for steps the code's own threads take, never for callers,
the network or a provider that may be silent.
- `AsyncRuntime`: `WF` of each client inside a call, each worker, the drain.
  Kernel threads are scheduled; clients need not call anything.
- `HttpSend`: `WF` of a request's steps (each blocking operation has a time-out),
  of the end of a keep-alive ping, of a QUIC close and of shutdown; `SF` of
  `PipelineBegin`, which waits on a kernel event that other requests signal and
  clear. `IdleTimeoutOn = FALSE` in `send_live`: a connection that expires at
  any moment would be the scheduler's mercy.
- `SessionLife`: `WF` of each thread inside a call, the monitor's worker, the unload.
- `WskSocket`: `WF` of a call's steps (its waits are bounded) and of the completion
  routine once it runs. The provider may never complete.
- `QuicWorker`: `WF` of the worker, of the notification's delivery, of the completion
  of a receive that was cancelled (`IoCancelIrp` completes it), of `Shutdown`; `SF`
  where progress needs the peer to open a window now and then: retry of a
  deferred command, a write. `ProcessDeadlines` is `SF` because the worker does it
  on each turn, so a deadline that has passed is not passed over for ever.
- `ThreadsFairness` repeats the last three under `focus`.

Every liveness property was also broken by a mutant under the same fairness, so
it does not hold for want of behaviours.

## 5. Proofs

TLAPS proves the following for every value of the constants allowed by the named
ASSUMEs (which the runs evaluate). All are of the form `Spec => []P`, with an
inductive invariant that TLC checked first.

| Theorem | Says |
|---|---|
| `HttpSend_proofs`: `Typed`, `CountsAreExact`, `QuotaIsRespected`, `HoldersOwnTheirConnection` (a part of `ConnectionsAreSafe`) | any number of requests, slots, keys: the pool's counts are exact, no host exceeds its quota, no closing connection is forgotten or counted twice, a request's connection belongs to it |
| the same: `PipelineIsInOrder`, `ConnectionsAreSound` | any number of requests, any depth and limits: a pipelined request reads its own response; leases keep their limits, HTTP/3 leases are exact, an idle connection is fit for the next request |
| `AsyncRuntime_proofs`: `AsyncInvariant`, `OperationsCounted` | any number of operations, clients, workers: references and in-flight count exact, no use after free, no lost wake-up |
| the same: `DrainEndsEverything`, `DrainSafe` | after a drain nothing is queued, no worker runs and every callback has run once |
| the same: `LifecycleImplemented`, `CallbackFollowsCompletion` | `AsyncRuntime` implements `AsyncLifecycle`, so what the lifecycle promises about the callback holds of the runtime |
| `SessionLife_proofs`: `HandlesAreSafe` | any number of sessions, WebSockets, threads, notifications: handles outlive their use |
| `WskSocket_proofs`: `NativesAreSafe` | any number of native sockets: none leaks, is closed twice or is used when closed |
| `QuicWorker_proofs`: `WorkerEndsCleanly` | any callers and commands, any length of the queue: a QUIC connection stops with no receive under way into what it gave back and no caller left waiting |
| `Client_proofs`: `ResolutionsSound` | any callers and names, any size and life of the cache: a resolution answers its own question, contexts are freed once and counted |
| the same: `AlternativesSound` | any requests and origins, any size of the cache: an alternative rests only for a failure of its own, entries are unique and counted |
| the same: `CacheSound` | any callers, resources, variants, limits and lifetime: what the response cache serves was written by the origin, is of one version, at its place unless a 206 did not name it, and current; its counts are exact and within the limits |
| the same: `JarSound` | any hosts, table of public suffixes, names, values and limits: the bytes charged are exact, no cookie is held twice, and a cookie goes to the site it was stored for |
| the same: `CredentialsStay` | any URLs, headers, Locations and number of redirects: credentials reach only the origin they were set for, TLS is not left, the TLS name is the host's, the proxy's credentials go to the proxy |
| the same: `CourseIsKept` | each message of a send goes to the origin its redirects lead to, with the method they leave |
| the same: `ConnectsEndCleanly` | any number of addresses: a WebSocket connect ends once, with a connection as negotiated or with nothing left open |
| `Http2Connection_proofs`: `WindowsAgree` | any requests, windows, limits and frames under way: both ends of an HTTP/2 connection count the same window for what this end sends, and on a stream that no RST_STREAM ended for what it receives as well |
| `TransportRoute_proofs`: `RouteServes`, `RouteChosen` | any routes, servers, requests, addresses, DATA frames and faults: nobody is shown what is not for them, only a safe request is sent twice, the attempt that succeeds hands an HTTP/2 body over decoded, whole and once; also, when no origin sends a frame behind the answer to an upgrade, a kept connection is read from a frame boundary |

**HttpSend.** `HttpSend_proofs` begins with lemmas on what a pool operation may do,
in three shapes: it acquires a slot (`Acquired`), keeps the slots' owners
(`Keeps`), or releases one (`Released`), and takes each action to its shape. The invariant `IInv` is the conjunction of `PoolOK` (the pool's counts and the
flags of a slot agree), `Own` (a request that holds a slot holds one of its kind,
and an exclusive slot has one holder), `Handshakes` (a slot that is being
connected has its request at the connect) and `ReqOK` (types and phases). Counts are
sums over slots: a step changes one slot, and `OwnKept`, `OwnTake`, `OwnDrop` carry the
rest. `TypeOK` alone is not inductive: a decrement stays in `Nat` only because `Own`
says that somebody holds what is given back.

The second half of `HttpSend_proofs` adds `JInv`, which is about the connections themselves: slot by slot
it says how the connection, its holders and the bytes on its wire fit together (`Local`).
`OrderOK`: sequence numbers are distinct, lie between the next to be received and the next to
be sent, and agree with the turn. `WireOK`: until the connection is marked for closing, what is
on the wire belongs to holders that wait, in the order of their numbers, and nobody waits
for a response that is not there while the socket lives. `SocketOK`: a dead connection that is
not marked has a holder that is still going to fail, so that the last release cannot put it
back. `StreamsOK` counts HTTP/3 leases: those of the holders that shared the connection or
have bound a stream. `PipelineInOrder` is not inductive without the first three: the turn
passes by sequence number, and only they connect a number with a place on the wire. `JInv`
rests on `IInv` (an exclusive holder is alone, so it may reset the numbers); the step
lemmas end in `J` and take the form "this slot and its holders change, all others stay"
(`LocalStep`).

**AsyncRuntime.** `AsyncInv` ties the thread positions to the shared fields: the
references of an operation are its holders (client, queue or worker, callback), the
in-flight count is the set of accepted operations whose end was not yet counted, a token of
the semaphore or a worker on its way belongs to each queue entry. `DrainEndsEverything`
adds what is true behind each label of the drain. That the semaphore stays under its
limit (`DrainSafe`) is proved for `MaxDrains <= 1`, an assumption of the theorem and
not of the model: a second drain can exceed it (section 6). The refinement maps an
operation to its phase; each step of the runtime is a step of `AsyncLifecycle` or
leaves the phases alone (`LifecycleStep`), and an operation not yet allocated is
absent (`AbsentOK`).

**SessionLife.** `SessionInv`: `inFlight` is the number of threads that pin a handle
(`PinsCounted`; it needs `IsFiniteSet(Threads)`), the lists hold active or
closing handles once each (`TableOK`), a thread at step n of an ordered job has done
the first n entries of its order and has the rest before it (`ThreadsOK`), a handle has one
thread that creates or closes it (`OneOwner`), and what a session owns follows from
that thread's step (`HeldOK`). Without the last two, `HandlesOutliveUse` is not inductive: the
drain could be passed by a second closer.

**WskSocket.** `WskInv`: the reference count of a context is the caller's reference plus
the completion's (`ReferencesExact`, which also says that an IRP whose caller has left
is owned by its completion), a connect call is alone on the socket (`ConnectsAlone`),
one thread closes and operations are let in only before (`RundownOK`), an open native
socket is held or carried (`NativesOwned`), and what the provider has been asked is about
a socket that is there (`AskedOfSocket`).

**QuicWorker.** `StopInv` has two halves. `ReceiveOwned`: a receive that is under way has a
socket, a receive the worker may collect has set the event and left the provider, and
whoever drains comes after the worker's exit, so that `StopNetwork` never meets one
that the worker is about to arm again. `ClaimsHeld`: an operation that was claimed is in the queue,
is the deferred or the current command, or is the registered waiter; with it the drain,
which empties these places, answers everybody. That the worker holds one command at
a time (`HandsOK`) is needed because a second one would overwrite the deferred command.

**NameResolution.** `DnInv`: a cached answer under a family holds addresses of that name and
family, read when it was stored (`CacheOK`); what a call has gathered when it asks for its second
family fits into its capacity and is of the first (`CallsOK`); the references of a question's
context are its caller plus its completion, nobody else waits for it, and the count is the number
of such contexts (`QuestionsOK`). That an answer for any family is recent is not
proved, for it is false (section 6).

**AltSvcCache.** `AltInv`: an entry in use has a generation that no other entry has and
that lies below the next one (`EntriesOK`). A late report finds its entry by origin and
generation, so it meets the advertisement its attempt was made on or nothing.

**HttpCache.** `CacheInv` follows the bytes from the origin into the cache and out again.
`OriginGood`: a version is replaced at the moment the next one is written, so of each variant one
is current. `ListGood`: the bytes, tag and date of every entry are of one version, which was
current when it was dated, and nothing is dated after it was stored. `CallsGood` and `AnswerGood`
say the same of the answers on their way to the cache and to a caller. Two partial answers with one tag
are of one version, so combining them keeps `ListGood`; freshness then follows
from the arithmetic of ages. `AccountsGood`: the bytes counted follow from the list. Each entry is charged for
itself and for every byte of its body, and the sum is the cardinality of the set of all charges,
so that removing and adding entries needs no recursion.

**CookieJar.** `JarInv` adds to `JarIsSound` what a held cookie is: its domain is the host it was stored
for, or a name above it that is no public suffix (`JarCookies`). Hosts under one such domain, when
the table has no suffix below it, have the same listed suffixes and so one registrable
domain (`SiteOfDomain`), which takes the cookie from the host it came from to the host it goes
to. That no host has the name of a public suffix is an assumption of the module (the code
says so in `CookieDomain.cpp:315`); that the table is complete is none, the property excepts what it misses
(`MissingSuffix`, section 6). The bytes are a cardinality of positions, and what replacing, appending and
removing does to it are the lemmas `TotalOfReplaced`, `TotalOfAppend`, `TotalOfRest`.

**RequestRedirect.** `CredentialsStayWithOrigin` is about messages on the wire and is not inductive alone. `RqInv` adds
what the request behind the message holds. `OwnsUp`: its origin and method are those the redirects
lead to, it is under TLS if the send began so, and if it still carries credentials it is at the first origin.
`NameFits`: a TLS name that the request reads from its Host buffer has the length of the host there now; the
clone measures the name anew, and so does the first URL. The second URL does not, which is how the attempt found
`EmptyNameIsTheHost` of section 6 broken; the property leaves out that one case, a synchronous
first hop after a second URL. Removing headers is `EntriesAt` (module `Lists`, shared with
`HttpCache`), so that "none of the sensitive names is left" needs no induction. Of
`HopsFollowTheRedirects`, `HopsKeepTheirCourse` is the proved half; target and body are
the result of recursions over paths and bodies.

**WebSocketConnect.** `ConnOK` says at each step of a connect what is open and what has been negotiated on it,
`OwnerOK` who answers for it afterwards: the operation's context, or the caller that took the handle. `ConnectEndsCleanly`
is about the end only and is not inductive alone, because the retry over HTTP/1.1 closes
what an earlier step has opened.

**Http2Connection.** `Http2Inv` is `Ledger /\ CallsOK`. `Ledger` is an operator of the connection,
its slots, the peer's account and the frames under way to the client, so that a lemma can speak of
a frame already taken off the wire and not yet treated. Its parts: `StreamsKnown` (the peer knows every
stream that is active here or has a frame under way), `ConnectionAgrees`
and `StreamAgrees` (a window here, plus what is under way towards it, is the window there).
`CallsOK` says that a request which waits for a stream has none at either end and nothing
under way, so that `BeginRequest` opens its stream with both accounts new. Every handler
of a frame has a lemma with the conclusion `Treated`: the ledger of its result agrees without the
frame; a handler that ends in an error leaves a dead connection, about which nothing
is claimed. `AppendCounts` and `TailCounts` say what a frame adds to or takes from the amounts
under way. That `h2.send` is never negative makes the last part of the property, that the peer's account
is not overdrawn, inductive.
The attempt to prove the first form of `FlowControlAgrees` found it false with three requests:
after RST_STREAM the slot is free, and DATA of its stream that is still under way is
dropped uncounted. The peer now keeps such a stream in phase `reset`, and the property leaves it
out; the consequences are finding 3 and `ConnectionCreditAgrees` of section 6.

**TransportRoute.** `TrInv` says, for each place a request can be at, what its connection is (`TrPlaceOK`), that
its holder and the far end mean the same byte stream (`TrLinked`: while the socket is up, tunnel, TLS version and ALPN
agree on both sides) and who has been shown what (`TrSeenOK`). `RouteIsAsChosen` alone is not
inductive: that a request under TLS reaches the origin follows from the connection under it, also when that
is a reused one whose handshake another request made. How much of an HTTP/2 answer has been read is a position `k` in the units that the
origin sends, `TrPendingFollows`: the replay buffer and the wire, one behind the other, are what
follows `k`. A read moves `k` (`TrTakes`, `TrReads`), a broken stream cuts the end off (`TrBreakFollows`), and the caller has
been given the DATA frames before `k` (`TrGiven`). It does not matter where the 101 was cut: the split between
buffer and wire is not in the invariant. `RouteServes` assumes that no origin sends a frame behind the answer
to an upgrade; section 6 shows what is lost otherwise. `RouteChosen` does not.

Only model-checked: liveness and everything that needs fairness (the prover has no
ENABLED); definitions by recursion (LZW, HPACK and QPACK tables, parsers, path
search, and the paths and bodies of `HopsFollowTheRedirects`), whose value for every input
needs induction over data; `SseClient`; the components of the groups MCTcp,
`Http2Connection` and `TransportRoute` excepted, and MCSecure.

## 6. What the code does that it should not

Three disagreements with the repository's own documents are runs:
1. `send_leak`: `ConnectionPoolClose` (`session/ConnectionPool.cpp:2170`) leaves the leases of
   a shared HTTP/2 connection alone, and the retry on a fresh connection
   (`session/HttpSend.cpp:412`) drops its pointer: its lease is never given back and the
   slot stays in use until the session closes.
2. `quic_loss`: `SendProbe` (`quic/QuicConnection.cpp:1129`) sends a PING only, and CRYPTO
   data of a lost packet is never sent again: one lost datagram of the
   client's handshake stalls it until the idle time-out.
3. `http2_reset`: `ReceiveResponse` (`http2/Http2Connection.cpp:1647`) reads frames for every
   request of the connection and returns the status of whichever failed: RST_STREAM of one
   request's stream ends the request of another that happens to read it
   (`ResetStaysWithItsStream`; `docs/capability-gap-closing-plan-phase2.md:151` says that
   other streams are not affected).

The modules also state the following, which the code does not keep either. They are
not runs, because no document of the repository promises them, or because they
are the same matter seen elsewhere; each is one cfg line away. (`EmptyNameIsTheHost` is
promised, by `docsite/api/tls-options.en.md:74`: name it under INVARIANTS in `MCClient.cfg`
to see it broken.)

| Property (module) | What happens |
|---|---|
| `StateOnlyAdvances` (AsyncRuntime) | a cancel completes the operation between `RunOperation`'s test and its write of Running: the completed operation is left in Running |
| `DrainIsSafe` with `MaxDrains = 2` (AsyncRuntime) | a second drain wakes workers again and may exceed the semaphore's limit, which `KeReleaseSemaphore` answers with an exception |
| `TransportOutlivesUse` (HttpSend) | a request that finds its shared connection without a socket frees transport resources that another lease holder uses (`HttpProxy.cpp:343`) |
| `EveryCloseStarted` (ConnectionPool) | an acquire that retires several expired QUIC connections remembers one pending close; the others stay Closing, and the session's shutdown waits for them for ever (`ConnectionPool.cpp:1001`) |
| `PolicyConnectionsClosed` (HttpSend) | a ForceNew or NoPool connection may be left idle in the pool |
| step `signal` of `SessionLife` | `EndHandleOperation` sets the drain event after the decrement that lets the closing thread free the session which holds the event (`EngineHandleTable.cpp:302`) |
| `OwnedIrpFreedOnce` (WskSocket) | a close between a timed-out call's `ReleaseIoRundown` and its `AbandonReusableIrp` frees the IRP, and the completion that owns it frees it again |
| `ShutdownReturns` (QuicWorker) | the worker may clear the event that `Shutdown` has set and sleep without a look at the stop flag |
| `ConnectionCreditAgrees` (Http2Connection) | DATA of a stream that was reset or given back is dropped without being counted (`Http2Connection.cpp:927`): the peer's credit on the connection shrinks for good |
| `UntreatedStreamsRetry` (Http2Connection) | a stream above GOAWAY's last id is not retried when another request read the GOAWAY |
| `ActiveCloseWaits`, `CompressedMessagesSurvive`, `TransportOutlivesCalls` (WebSocketIo) | an active close need not wait; fragments delivered one by one are inflated apart; a transport may be freed with a thread inside |
| `PartIsNeverTheWhole` (HttpCache) | a 206 whose Content-Range has no complete length, or that is multipart, is stored as a whole entry (`HttpCache.cpp:873-909`, not excluded by `HttpCachePolicy.cpp:644-677`): a plain request is given the part, a range request bytes at other places |
| `CallbacksSeeOneResponse` (TransportRoute) | a GET on a reused HTTP/2 connection that breaks after DATA was handed over is sent again (`HttpSend.cpp:401-474`, `HttpEngineInternal.hpp:571-581`): its callbacks are told of start, headers and bytes a second time (`HttpH2Dispatch.cpp:216-221`) |
| `OnlyLimitsRefuse` (ContentDecoding) | a full destination is STATUS_INVALID_NETWORK_RESPONSE to zstd (`ContentCoding.cpp:694-696`), and only STATUS_BUFFER_TOO_SMALL grows it (`HttpResponseHandling.cpp:307-314`): a zstd or dcz body longer than the first buffer (16 KiB) is refused within the limits; so is a chain whose intermediate output does not fit the scratch buffer |
| `HpTablesAgree` (HpackTables) | HEADERS of a stream that is no longer active are dropped undecoded (`Http2Connection.cpp:911-928`); `Encode` may change its table, fail for want of room, and the connection goes on (`Hpack.cpp:1226-1301`, `:954-960`): the tables part |
| `CallbacksFindTheirDispatch` (Http3Exchange) | the stream is opened on the worker before it is bound (`HttpH3Dispatch.cpp:1012-1016`): callbacks of an answer in between find no dispatch and drop headers, body or end (`HttpH3Peer.cpp:214-287`) |
| `NamesSurviveEviction` (QpackTables) | a dynamic name reference is a view of the table that the insert compacts: if the insert evicts, the name may be another's or zeros, at the decoder too (`QpackDecoder.cpp:296-320`, `QpackEncoder.cpp:316-349`) |
| `SectionsStayInReach` with `QpCapacity = 1`, `QpCapacities = {1}` (QpackTables) | eviction looks at references and not at what was acknowledged (`QpackDynamicTable.cpp:403-415`, `QpackEncoder.cpp:758-783`): the Required Insert Count of a section may be more than the capacity ahead of the decoder, which reads another |
| `TicketsResume` (Tls12Connection) | a ticket of a full handshake with an empty session id is offered with that id (`TlsConnect12.cpp:73-79`); the server's acceptance is not recognised (`:211`, `TlsConnectionInternal.hpp:1154-1162`) and the client fails, waiting for a Certificate |
| `DataMayPrecedeServerHello` (Tls12Connection) | application data between a HelloRequest and the ServerHello ends the renegotiation (`TlsConnect12.cpp:1046`) |
| `EveryConstraintBinds` (CertificatePath) | name constraints beyond eight of a kind are dropped without a word (`CertificateValidator.cpp:1045`, `:1069`, `:1102`): what they exclude is accepted |
| `AuthoritiesNeedNoDnsName` (CertificatePath) | the common name of a certificate without DNS names, an authority's too, is checked against the DNS constraints above it (`CertificateValidator.cpp:3669-3677`) |
| `NotModifiedIsForTheCache` (HttpCache) | a 304 to the cache's own condition may reach a caller that asked unconditionally |
| `EveryDomainIsOneSite` (CookieJar) | a domain above a listed suffix (`uk`, above `co.uk`) or of one label that is not listed is accepted: the cookie goes to all hosts under it when it has `SameSite=None` |
| `FailedAlternativeRests` (AltSvcCache) | a failed alternative may be tried again before its rest is over |
| `AnyFamilyAnswersAreRecent` (NameResolution) | an answer for any family may be older than the cache's life; a shut-down registration may be left with its contexts undrained |
| `EventsComeInOrder`, `ClientOutlivesUse`, `BrokenStreamIsNoticed` (SseClient) | the queue's count is read and written back by two threads without a lock: `Receive` may return an empty place of the queue (`SseClient.cpp:324`, `:349`); a client may be freed under a callback; a broken stream may leave `Receive` waiting |
| `EsSplitsBom = TRUE` (EventStream) | a byte order mark cut in two is taken for text; two CRs in a row are one line end, so a stream with bare CR never dispatches; an id with NUL |
| `CloseDelimitedEndsAtClose`, `CallbackSeesBodyOnce`, `AnnouncedBodyIsSent` (Http1Exchange) | a close-delimited body may end early; a second attempt repeats bytes to the callback; an announced body may stay unsent on a connection that is reused |
| `ReplayLosesNothing` with late mode `upgrade` (TransportRoute) | bytes behind the end of an upgraded stream are lost |
| `EmptyNameIsTheHost` (RequestRedirect) | a second `HttpRequestSetUrl` leaves the TLS name with the length of the first host (`RequestApi.cpp:103`); a synchronous send then presents a name that is cut off or has a rest of the old one |
| `SourceBodyIsKept` (RequestRedirect) | a 307 or 308 sends the body source again, which has nothing left |
| `RejectedIsRetried`, `WaitEndsWithCompletion`, `DispatchOutlivesCallbacks`, `AnswerIsReturned`, `RequestsEnd` (Http3Exchange) | a rejected request may end as an error; a polling wait returns after 25 ms; a callback may hold a freed dispatch; GOAWAY on a connection without leases closes it on its own worker (`HttpH3Peer.cpp:298`) |
| `QpFragments = TRUE` (QpackTables) | an instruction split between two reads is an error |
| `QuicConforms` (QuicTransport) | a conforming server can make the client give up |
| `Tls13ServerResumes = TRUE`, usage `duplex-auth` (Tls13Connection); `T12ServerAsks = TRUE` (Tls12Connection) | resumption, post-handshake authentication beside a sender, and client authentication end with the two ends in disagreement |
| `CodingsAgree` with `CdTransports` including `h3`, or a style with `clears` (ContentDecoding) | HTTP/3 decodes without the policy of the header it sent and so accepts codings the request ruled out; clear codes of `compress` are not where the encoder puts them |

## 7. What is not modelled

- `HttpSend`: the fall-back of an Auto HTTP/3 attempt to TCP, standalone HTTP/3 peers, the
  bytes of a message, functions of the pool without callers, a second adoption of
  an HTTP/2 connection.
- EXI and Pack200 (`codec/`): decoders of two formats, run by one thread over one buffer;
  a reference definition would be the formats' own specification.
- Cryptography (`crypto/`, the providers): arithmetic and platform calls; TLS and QUIC
  treat keys and transcripts symbolically.
- The bundled decompressors and the test driver: third-party code, and a client of
  the library.
- Everywhere: formats of frames, packets and DER, Huffman codes, dates, tracing, texts; the
  `WKNET_USER_MODE_TEST` build.

## 8. Plan

1. Prove agreement of the two ends for the QUIC, TLS 1.2 and TLS 1.3 handshakes; `Http2Connection`'s
   ledger with the frames under way as a parameter is the form to follow.
2. Let the peer of `Http2Connection` lower its window more than once in a run.
