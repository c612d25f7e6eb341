--------------------------- MODULE TransportRoute ---------------------------
\* How a request finds its way onto a pooled TCP connection: the socket to
\* the origin or to the proxy, the CONNECT tunnel, the TLS handshake and
\* its TLS 1.2 confirmation, the choice between HTTP/1.1, HTTP/2 over ALPN
\* and HTTP/2 over cleartext, the h2c upgrade with its replay of the bytes
\* read behind the 101, and the way an HTTP/2 body reaches the caller
\* (HttpProxy.cpp, HttpTransportDispatch.cpp, HttpH2Dispatch.cpp).
\*
\* One pooled connection serves one caller at a time; sharing and leases
\* are the subject of HttpSend and ConnectionPool.  The far end of the
\* socket is modelled by what it does with what it is sent.
EXTENDS Integers, Sequences, FiniteSets

CONSTANTS
  TrRoutes,      \* options the requests of a pool key share, see TrIsRoute
  TrServers,     \* what an origin supports: [tls |-> versions, h2 |-> BOOLEAN]
  TrRequests,    \* what may differ from request to request, see TrIsRequest
  TrAddresses,   \* how many addresses a name resolves to
  TrChunks,      \* DATA frames of an HTTP/2 response
  TrLateModes,   \* the connections on which the origin sends a frame after END_STREAM
  TrMaxCalls,    \* bound: requests sent in a behaviour
  TrMaxFaults    \* bound: network faults in a behaviour

TrIsRoute(r) ==
  /\ r.clear \in {"off", "prior", "upgrade"} /\ r.alpn \in {"", "h2", "http/1.1", "other"}
  /\ {r.https, r.proxied, r.auth, r.prefer, r.store, r.pooled} \subseteq BOOLEAN
  /\ {r.min, r.max} \subseteq {12, 13}

TrIsRequest(q) ==
  /\ q.method \in {"GET", "POST"}
  /\ {q.body, q.expect, q.callback, q.aggregate, q.coded, q.upgrade} \subseteq BOOLEAN

ASSUME TrConstants ==
  /\ \A r \in TrRoutes : TrIsRoute(r)
  /\ \A q \in TrRequests : TrIsRequest(q)
  /\ \A s \in TrServers : s.tls \subseteq {12, 13} /\ s.h2 \in BOOLEAN
  /\ {TrAddresses, TrChunks, TrMaxCalls, TrMaxFaults} \subseteq Nat

VARIABLES
  trRoute,   \* the route of this pool key
  trServer,  \* the origin behind it
  trConn,    \* the pooled connection, as its holder sees it
  trWire,    \* the byte stream under it, as its far end sees it
  trCall,    \* the request being sent
  trOut,     \* what the caller has been given in this attempt
  trSeen     \* who has been shown what: the history the properties speak about

trVars == <<trRoute, trServer, trConn, trWire, trCall, trOut, trSeen>>

----------------------------------------
(* The pooled connection.                                                  *)

\* No socket, no TLS, no HTTP/2: a connection that has just been created.
TrNoConn == [up |-> FALSE, tunnel |-> FALSE, tls |-> 0, alpn |-> "", http2 |-> FALSE, replay |-> <<>>]

TrDeadWire == [alive |-> FALSE, peer |-> "origin", tls |-> 0, alpn |-> "", speaks |-> "start",
               in |-> <<>>, confused |-> FALSE]

TrNoOut == [headers |-> FALSE, suppress |-> FALSE, aggregate |-> FALSE, live |-> <<>>, final |-> 0,
            buffer |-> <<>>, body |-> <<>>, http2 |-> FALSE]

TrIdle == [pc |-> "idle", request |-> CHOOSE q \in TrRequests : TRUE, number |-> 0, attempt |-> 0,
           reused |-> FALSE, address |-> 0, phase |-> "first", original |-> "", status |-> "",
           faults |-> 0, earlier |-> TrNoOut]

\* Giving up the TLS layer drops HTTP/2 with it.
TrReleaseTls(c) == [c EXCEPT !.tls = 0, !.alpn = "", !.http2 = FALSE]

\* Closing everything also forgets that a tunnel was established.
TrCloseTransportResources(c) == [TrReleaseTls(c) EXCEPT !.up = FALSE, !.tunnel = FALSE]

TrAdoptSocket(c) == [c EXCEPT !.up = TRUE, !.tunnel = FALSE]
TrAdoptTls(c, version, alpn) == [c EXCEPT !.tls = version, !.alpn = alpn]
TrAdoptHttp2(c) == [c EXCEPT !.http2 = TRUE]

----------------------------------------
(* The far end.                                                            *)

\* A fresh byte stream ends at the proxy when there is one.
TrNewWire == [TrDeadWire EXCEPT !.alive = TRUE, !.peer = IF trRoute.proxied THEN "proxy" ELSE "origin"]

TrConfuse(w) == [w EXCEPT !.confused = TRUE]

\* A tunnel can only be asked of the proxy, as the first thing it is told.
TrPeerConnect(w, accepts) ==
  IF w.peer = "proxy" /\ w.speaks = "start"
  THEN IF accepts THEN [w EXCEPT !.peer = "origin"] ELSE w
  ELSE TrConfuse(w)

TrPeerHello(w, version, alpn) ==
  IF w.peer = "origin" /\ w.speaks = "start" /\ w.tls = 0
  THEN [w EXCEPT !.tls = version, !.alpn = alpn]
  ELSE TrConfuse(w)

\* An HTTP/1.1 request, answered at once; an upgrade request is answered with 101.
TrPeerHttp1(w, upgrade) ==
  IF w.speaks \in {"start", "h1"} /\ w.alpn # "h2"
  THEN IF upgrade /\ trServer.h2
       THEN [w EXCEPT !.speaks = "101", !.in = @ \o <<"101">>]
       ELSE [w EXCEPT !.speaks = "h1", !.in = @ \o <<"response">>]
  ELSE TrConfuse(w)

TrAnswer(mode) ==
  <<"headers">> \o [i \in 1..TrChunks |-> "data"] \o <<"end">>
    \o (IF mode \in TrLateModes THEN <<"ping-", "-ping">> ELSE <<>>)

\* The client preface and SETTINGS; after a 101 the origin owes stream 1 its answer.
TrPeerPreface(w) ==
  IF w.speaks = "101" THEN [w EXCEPT !.speaks = "h2"]
  ELSE IF w.speaks = "start" /\ w.peer = "origin" /\ (w.tls = 0 \/ w.alpn = "h2")
       THEN [w EXCEPT !.speaks = "h2", !.in = @ \o <<"settings">>]
       ELSE TrConfuse(w)

TrPeerStream(w, mode) ==
  IF w.speaks = "h2" THEN [w EXCEPT !.in = @ \o TrAnswer(mode)] ELSE TrConfuse(w)

\* What the far end of w learns when it is sent something.
TrShow(w, what) ==
  {[who |-> w.peer, what |-> what, tls |-> w.tls, call |-> trCall.number, attempt |-> trCall.attempt]}

----------------------------------------
(* Decisions about a request.                                              *)

IsAutomaticHttpAlpnMode == trRoute.https /\ trRoute.prefer /\ trRoute.alpn = ""

TrOffered ==
  CASE trRoute.alpn # "" -> {trRoute.alpn}
    [] IsAutomaticHttpAlpnMode -> {"h2", "http/1.1"}
    [] OTHER -> {}

RequestUsesExpectContinue(q) == q.expect /\ q.body

\* The status SendViaTransport returns before it touches the network, "" when it goes on.
TrEarlyStatus(q) ==
  CASE trRoute.https /\ trRoute.alpn = "other"               -> "NOT_SUPPORTED"
    [] trRoute.https /\ ~trRoute.store                       -> "INVALID_PARAMETER"
    [] trRoute.clear # "off" /\ trRoute.https                -> "NOT_SUPPORTED"
    [] trRoute.clear # "off" /\ trRoute.proxied              -> "NOT_SUPPORTED"
    [] trRoute.clear # "off" /\ RequestUsesExpectContinue(q) -> "NOT_SUPPORTED"
    [] trRoute.clear = "upgrade" /\ q.body                   -> "INVALID_PARAMETER"
    [] OTHER                                                 -> ""

\* A failed handshake may be confirmed with TLS 1.2 when the versions allow it and it
\* failed over the version, or on the network before the first server flight.
IsHttpTls12ConfirmationCandidate(failure) ==
  trRoute.min = 12 /\ trRoute.max = 13 /\ failure \in {"version", "early"}

TrClosedStatuses == {"DISCONNECTED", "RETRY", "IO_TIMEOUT"}

\* One fresh attempt for a safe method: always after a retryable refusal, and after a
\* dead connection only when that connection had been reused.
ShouldRetryWithFreshConnection(call, status) ==
  /\ trRoute.pooled /\ call.request.method = "GET" /\ call.attempt = 1
  /\ status = "RETRY" \/ (call.reused /\ status \in TrClosedStatuses)

----------------------------------------
(* The end of an attempt.                                                  *)

TrGoto(pc) == trCall' = [trCall EXCEPT !.pc = pc]

\* ConnectionPoolRelease: kept for the next request, or closed.  The replay transport of an
\* upgrade lives on the stack of the send: it ends here, with whatever is left in it.
TrRelease(conn, wire, reusable) ==
  IF reusable /\ trRoute.pooled
  THEN trConn' = [conn EXCEPT !.replay = <<>>] /\ trWire' = wire
  ELSE trConn' = TrNoConn /\ trWire' = [TrDeadWire EXCEPT !.confused = wire.confused]

\* SendViaTransport returned: retry once on a new connection, or release this one to the
\* pool when it may be reused and close it otherwise.  The retry begins with an empty response,
\* but nobody asks whether the callback has been shown anything, or takes it back: it stays
\* shown (trCall.earlier).
TrReturn(status, conn, wire, reusable, faults) ==
  IF ShouldRetryWithFreshConnection(trCall, status)
  THEN /\ trConn' = TrNoConn /\ trWire' = [TrDeadWire EXCEPT !.confused = wire.confused]
       /\ trCall' = [trCall EXCEPT !.pc = "socket", !.attempt = 2, !.reused = FALSE, !.address = 0,
                                   !.phase = "first", !.original = "", !.faults = @ + faults,
                                   !.earlier = trOut]
       /\ trOut' = TrNoOut
  ELSE /\ TrRelease(conn, wire, status = "SUCCESS" /\ reusable)
       /\ trCall' = [trCall EXCEPT !.pc = "done", !.status = status, !.faults = @ + faults]
       /\ UNCHANGED trOut

TrFail(status, faults) ==
  /\ TrReturn(status, trConn, trWire, FALSE, faults) /\ UNCHANGED trSeen

\* A failure while TLS 1.2 is being confirmed is reported as the failure that led to it.
TrPhaseStatus(status) == IF trCall.phase = "confirm" THEN trCall.original ELSE status

\* Bound on the faults of the network: every action that lets one happen asks here.
TrMayFault == trCall.faults < TrMaxFaults

----------------------------------------
(* The steps of SendViaTransport.                                          *)

\* A caller acquires the connection and sends a request with it.
TrSend(q) ==
  /\ trCall.pc \in {"idle", "done"} /\ trCall.number < TrMaxCalls
  /\ trCall' = [TrIdle EXCEPT !.request = q, !.number = trCall.number + 1, !.attempt = 1,
                  !.reused = trConn.up, !.faults = trCall.faults,
                  !.pc = IF TrEarlyStatus(q) = "" THEN "socket" ELSE "done", !.status = TrEarlyStatus(q)]
  /\ IF TrEarlyStatus(q) = ""
     THEN UNCHANGED <<trConn, trWire>>
     ELSE trConn' = TrNoConn /\ trWire' = [TrDeadWire EXCEPT !.confused = trWire.confused]
  /\ trOut' = TrNoOut
  /\ UNCHANGED trSeen

TrAfterSocket == IF trRoute.https THEN "tls" ELSE "dispatch"

\* EnsureSocketConnected: a connected socket is used as it is, otherwise whatever is left
\* of the connection is closed and the addresses are tried in order.
EnsureSocketConnected ==
  /\ trCall.pc = "socket"
  /\ IF trConn.up
     THEN TrGoto(TrAfterSocket) /\ UNCHANGED <<trConn, trWire>>
     ELSE /\ trConn' = TrCloseTransportResources(trConn)
          /\ trWire' = [TrDeadWire EXCEPT !.confused = trWire.confused]
          /\ trCall' = [trCall EXCEPT !.pc = "connect", !.address = 0]
  /\ UNCHANGED <<trOut, trSeen>>

ConnectSocketToAddress ==
  /\ trCall.pc = "connect" /\ trCall.address < TrAddresses
  /\ trConn' = TrAdoptSocket(trConn)
  /\ trWire' = [TrNewWire EXCEPT !.confused = trWire.confused]
  /\ TrGoto(IF trCall.phase = "confirm" THEN "tunnel" ELSE TrAfterSocket)
  /\ UNCHANGED <<trOut, trSeen>>

\* An address that cannot be reached leads to the next, running out of memory to the end.
TrAddressFails ==
  /\ trCall.pc = "connect" /\ trCall.address < TrAddresses /\ TrMayFault
  /\ \/ /\ trCall' = [trCall EXCEPT !.address = @ + 1, !.faults = @ + 1]
        /\ UNCHANGED <<trConn, trWire, trOut, trSeen>>
     \/ TrFail(TrPhaseStatus("INSUFFICIENT_RESOURCES"), 1)

TrNoAddressLeft ==
  /\ trCall.pc = "connect" /\ trCall.address = TrAddresses
  /\ TrFail(TrPhaseStatus("NOT_FOUND"), 0)

\* EnsureTlsConnected: an established TLS layer is used as it is.
EnsureTlsConnected ==
  /\ trCall.pc = "tls"
  /\ IF trConn.tls # 0
     THEN TrGoto("dispatch") /\ UNCHANGED trConn
     ELSE TrGoto("tunnel") /\ trConn' = TrReleaseTls(trConn)
  /\ UNCHANGED <<trWire, trOut, trSeen>>

\* Mutant: the tunnel is taken for granted when TLS 1.2 is being confirmed.
TrNeedsFirstTunnel == trRoute.proxied /\ ~trConn.tunnel /\ trCall.phase = "first"

TrNeedsTunnel == trRoute.proxied /\ ~trConn.tunnel

\* EstablishProxyTunnel: CONNECT, with the proxy's credentials, once per socket.
EstablishProxyTunnel ==
  /\ trCall.pc = "tunnel"
  /\ IF ~TrNeedsTunnel
     THEN TrGoto("handshake") /\ UNCHANGED <<trConn, trWire, trOut, trSeen>>
     ELSE /\ trWire.alive
          /\ trSeen' = trSeen \cup TrShow(trWire, "connect")
                         \cup (IF trRoute.auth THEN TrShow(trWire, "credentials") ELSE {})
          /\ \/ /\ trWire' = TrPeerConnect(trWire, TRUE)
                /\ trConn' = [trConn EXCEPT !.tunnel = TRUE]
                /\ TrGoto("handshake") /\ UNCHANGED trOut
             \/ \E status \in {"ACCESS_DENIED", "INVALID_NETWORK_RESPONSE"} :
                  /\ TrMayFault
                  /\ TrReturn(TrPhaseStatus(status), trConn, TrPeerConnect(trWire, FALSE), FALSE, 1)

TrVersions == trServer.tls \cap (trRoute.min .. (IF trCall.phase = "confirm" THEN 12 ELSE trRoute.max))
TrVersion == IF 13 \in TrVersions THEN 13 ELSE 12
TrAlpn == CASE "h2" \in TrOffered /\ trServer.h2 -> "h2"
            [] "http/1.1" \in TrOffered -> "http/1.1"
            [] OTHER -> ""

\* ConnectTlsOnExistingSocket: the handshake and the adoption of the TLS transport.
ConnectTlsOnExistingSocket ==
  /\ trCall.pc = "handshake" /\ trWire.alive /\ TrVersions # {}
  /\ trSeen' = trSeen \cup TrShow(trWire, "hello")
  /\ trWire' = TrPeerHello(trWire, TrVersion, TrAlpn)
  /\ trConn' = TrAdoptTls(trConn, TrVersion, TrAlpn)
  /\ TrGoto("dispatch")
  /\ UNCHANGED trOut

\* A handshake that fails is tried once more, with TLS 1.2 and on a new socket, if it is a
\* candidate; a confirmation that fails closes the connection and reports the first failure.
TrHandshakeFails(failure) ==
  /\ trCall.pc = "handshake"
  /\ CASE failure = "version" -> trWire.alive /\ TrVersions = {}
       [] failure = "early"   -> ~trWire.alive \/ TrMayFault
       [] OTHER               -> trWire.alive /\ TrMayFault
  /\ trSeen' = trSeen \cup (IF trWire.alive THEN TrShow(trWire, "hello") ELSE {})
  /\ LET told == IF trWire.alive THEN TrPeerHello(trWire, 0, "") ELSE trWire
         status == IF failure = "early" THEN "DISCONNECTED" ELSE "HANDSHAKE_FAILED"
         fault == IF failure = "version" \/ ~trWire.alive THEN 0 ELSE 1 IN
     IF trCall.phase = "first" /\ IsHttpTls12ConfirmationCandidate(failure)
     THEN /\ trConn' = TrCloseTransportResources(trConn)
          /\ trWire' = [TrDeadWire EXCEPT !.confused = told.confused]
          /\ trCall' = [trCall EXCEPT !.pc = "connect", !.phase = "confirm", !.original = status,
                                      !.address = 0, !.faults = @ + fault]
          /\ UNCHANGED trOut
     ELSE TrReturn(TrPhaseStatus(status), trConn, told, FALSE, fault)

----------------------------------------
(* The choice of the protocol.                                             *)

TrMode == IF trRoute.clear # "off" THEN trRoute.clear ELSE IF trConn.tls # 0 THEN "tls" ELSE "plain"

TrSpeaksHttp2 == trRoute.alpn = "h2" \/ (trConn.tls # 0 /\ trConn.alpn = "h2")

TrDispatch ==
  /\ trCall.pc = "dispatch"
  /\ CASE trRoute.clear = "upgrade" /\ ~trConn.http2 -> TrGoto("upgrade") /\ UNCHANGED <<trConn, trWire, trOut, trSeen>>
       [] trRoute.clear # "off" /\ (trRoute.clear # "upgrade" \/ trConn.http2) ->
            TrGoto("http2") /\ UNCHANGED <<trConn, trWire, trOut, trSeen>>
       [] trRoute.clear = "off" /\ TrSpeaksHttp2 ->
            IF RequestUsesExpectContinue(trCall.request) \/ trConn.alpn # "h2"
            THEN TrFail("NOT_SUPPORTED", 0)
            ELSE TrGoto("http2") /\ UNCHANGED <<trConn, trWire, trOut, trSeen>>
       [] OTHER -> TrGoto("http1") /\ UNCHANGED <<trConn, trWire, trOut, trSeen>>

\* HTTP/1.1 on whatever the active transport is; in absolute form, with the proxy's
\* credentials, when a plain request goes through a proxy.
TrSendHttp1 ==
  /\ trCall.pc = "http1" /\ trWire.alive
  /\ trSeen' = trSeen \cup TrShow(trWire, "request")
                 \cup (IF trRoute.proxied /\ trRoute.auth /\ ~trRoute.https THEN TrShow(trWire, "credentials") ELSE {})
  /\ trWire' = TrPeerHttp1(trWire, FALSE)
  /\ TrGoto("response")
  /\ UNCHANGED <<trConn, trOut>>

\* The answer, and whether it lets the connection be kept.
TrReadHttp1(reusable) ==
  /\ trCall.pc = "response" /\ trWire.in # <<>> /\ Head(trWire.in) = "response"
  /\ TrReturn("SUCCESS", trConn, [trWire EXCEPT !.in = Tail(@)], reusable, 0)
  /\ UNCHANGED trSeen

----------------------------------------
(* The h2c upgrade.                                                        *)

\* BuildH2cUpgradeRequest: the fields of the upgrade are its own; a request that brings one of
\* them (an Upgrade or HTTP2-Settings field of the caller) is refused.
TrUpgradeRequest == IF trCall.request.upgrade THEN "INVALID_PARAMETER" ELSE ""

\* ValidateH2cUpgradeResponse: status 101 with the Upgrade and Connection tokens.
TrIsUpgraded(unit) == unit = "101"

\* SendH2cUpgradeViaTransport: the request travels as HTTP/1.1 and is stream 1 afterwards.
TrSendUpgrade ==
  /\ trCall.pc = "upgrade" /\ trWire.alive
  /\ IF TrUpgradeRequest # ""
     THEN TrFail(TrUpgradeRequest, 0)
     ELSE /\ trSeen' = trSeen \cup TrShow(trWire, "request")
          /\ trWire' = TrPeerHttp1(trWire, TRUE)
          /\ TrGoto("upgrading")
          /\ UNCHANGED <<trConn, trOut>>

\* The origin may push its first flight, stream 1 included, right behind the 101.
TrPeerStartsHttp2 ==
  /\ trCall.pc = "upgrading" /\ trWire.in = <<"101">>
  /\ trWire' = [trWire EXCEPT !.in = @ \o <<"settings">> \o TrAnswer("upgrade")]
  /\ UNCHANGED <<trRoute, trServer, trConn, trCall, trOut, trSeen>>

\* ReadH2cUpgradeResponse: one read takes the 101 and any part of what follows, which is
\* kept for the replay transport; anything but a 101 is refused.
ReadH2cUpgradeResponse ==
  /\ trCall.pc = "upgrading" /\ trWire.in # <<>>
  /\ IF ~TrIsUpgraded(Head(trWire.in))
     THEN TrFail("NOT_SUPPORTED", 0)
     ELSE /\ Len(trWire.in) > 1
          /\ \E n \in 1 .. Len(trWire.in) :
               /\ trConn' = [trConn EXCEPT !.replay = SubSeq(trWire.in, 2, n)]
               /\ trWire' = [trWire EXCEPT !.in = SubSeq(@, n + 1, Len(@))]
          /\ TrGoto("initialize") /\ UNCHANGED <<trOut, trSeen>>

----------------------------------------
(* HTTP/2.                                                                 *)

\* What the active transport delivers next: the bytes kept for replay come first.
TrNextUnit == IF trConn.replay # <<>> THEN Head(trConn.replay)
              ELSE IF trWire.in # <<>> THEN Head(trWire.in) ELSE "nothing"

\* The connection and the stream after n units have been read through the replay transport.
TrConnAfter(n) == [trConn EXCEPT !.replay = SubSeq(@, n + 1, Len(@))]
TrWireAfter(n) ==
  LET rest == n - Len(trConn.replay) IN
  IF rest > 0 THEN [trWire EXCEPT !.in = SubSeq(@, rest + 1, Len(@))] ELSE trWire

\* Http2ConnectionInitialize(AfterUpgrade): preface and SETTINGS, then the peer's SETTINGS.
TrInitialize ==
  /\ trCall.pc = "http2" /\ ~trConn.http2 /\ trWire.alive
  /\ trWire' = TrPeerPreface(trWire)
  /\ TrGoto("settings")
  /\ UNCHANGED <<trConn, trOut, trSeen>>

TrInitializeAfterUpgrade ==
  /\ trCall.pc = "initialize" /\ trWire.alive
  /\ trWire' = TrPeerPreface(trWire)
  /\ TrGoto("settings1")
  /\ UNCHANGED <<trConn, trOut, trSeen>>

\* The HTTP/2 state is adopted once the handshake is through.
TrReadSettings ==
  /\ trCall.pc \in {"settings", "settings1"} /\ TrNextUnit = "settings"
  /\ trConn' = TrAdoptHttp2(TrConnAfter(1))
  /\ trWire' = TrWireAfter(1)
  /\ TrGoto(IF trCall.pc = "settings" THEN "http2" ELSE "receive1")
  /\ UNCHANGED <<trOut, trSeen>>

\* Http2ConnectionBeginRequest, then the promotion of the lease.
TrBeginRequest ==
  /\ trCall.pc = "http2" /\ trConn.http2 /\ trWire.alive
  /\ trSeen' = trSeen \cup TrShow(trWire, "request")
  /\ LET told == TrPeerStream(trWire, TrMode) IN
     \/ trWire' = told /\ TrGoto("receive") /\ UNCHANGED <<trConn, trOut>>
     \/ TrMayFault /\ TrReturn("INSUFFICIENT_RESOURCES", trConn, told, FALSE, 1)

\* EnsureHttp2StreamingHeadersDelivered: the callbacks see the headers once; a coded body
\* will be buffered and not shown to them frame by frame.
TrHeadersDelivered(o) ==
  IF o.headers THEN o
  ELSE [o EXCEPT !.headers = TRUE, !.suppress = trCall.request.coded,
                 !.aggregate = trCall.request.aggregate \/ trCall.request.coded]

TrUnit == IF trCall.request.coded THEN "coded" ELSE "plain"

\* Mutant: the frames of a coded body are shown to the callback as they come.
TrAppendLive(o) ==
  LET d == TrHeadersDelivered(o) IN
  [d EXCEPT !.buffer = IF d.aggregate \/ d.suppress THEN Append(@, TrUnit) ELSE @,
            !.live = Append(@, TrUnit)]

\* AppendHttp2ResponseBodyStreaming.
TrAppendStreaming(o) ==
  LET d == TrHeadersDelivered(o) IN
  [d EXCEPT !.buffer = IF d.aggregate \/ d.suppress THEN Append(@, TrUnit) ELSE @,
            !.live = IF d.suppress THEN @ ELSE Append(@, TrUnit)]

\* Stream 1 of an upgrade is always buffered: its callbacks run after the send.
TrStreams == trCall.pc = "receive" /\ trCall.request.callback

TrAppend(o) == IF TrStreams THEN TrAppendStreaming(o) ELSE [o EXCEPT !.buffer = Append(@, TrUnit)]

TrReceiving == trCall.pc \in {"receive", "receive1"}

\* One frame of the response, or a late PING of an earlier one.
TrReceiveFrame ==
  /\ TrReceiving /\ TrNextUnit \in {"headers", "data", "ping-"}
  /\ LET n == IF TrNextUnit = "ping-" THEN 2 ELSE 1 IN
     /\ trConn' = TrConnAfter(n)
     /\ trWire' = TrWireAfter(n)
  /\ trOut' = IF TrNextUnit = "data" THEN TrAppend(trOut) ELSE trOut
  /\ UNCHANGED <<trCall, trSeen>>

\* A malformed frame, or one whose beginning was lost, is a connection error.
TrReceiveGarbage ==
  /\ TrReceiving
  /\ TrNextUnit = "-ping" \/ (TrNextUnit # "nothing" /\ TrMayFault)
  /\ TrFail("INVALID_NETWORK_RESPONSE", IF TrNextUnit = "-ping" THEN 0 ELSE 1)

TrEndOfResponse ==
  /\ TrReceiving /\ TrNextUnit = "end"
  /\ trConn' = TrConnAfter(1)
  /\ trWire' = TrWireAfter(1)
  /\ trOut' = IF TrStreams THEN TrHeadersDelivered(trOut) ELSE trOut
  /\ TrGoto(IF TrStreams THEN "deliver" ELSE "decode")
  /\ UNCHANGED trSeen

TrDecoded(body) == [i \in DOMAIN body |-> "plain"]

\* The body of a buffered response is decoded and returned; whether the connection can be
\* reused is the HTTP/2 connection's answer.
TrDecode(reusable) ==
  /\ trCall.pc = "decode"
  /\ trOut' = [trOut EXCEPT !.body = TrDecoded(trOut.buffer), !.http2 = TRUE]
  /\ TrRelease(trConn, trWire, reusable)
  /\ trCall' = [trCall EXCEPT !.pc = "done", !.status = "SUCCESS"]
  /\ UNCHANGED trSeen

\* The end of a streamed response: a coded body is decoded and shown at once, then comes the
\* final marker; the body is returned as well when the caller asked for both.
TrDeliver(reusable) ==
  /\ trCall.pc = "deliver"
  /\ trOut' = [trOut EXCEPT
       !.live = IF trCall.request.coded THEN @ \o TrDecoded(trOut.buffer) ELSE @,
       !.final = @ + 1,
       !.body = IF ~trCall.request.aggregate THEN <<>>
                ELSE IF trCall.request.coded THEN TrDecoded(trOut.buffer) ELSE trOut.buffer,
       !.http2 = TRUE]
  /\ TrRelease(trConn, trWire, reusable)
  /\ trCall' = [trCall EXCEPT !.pc = "done", !.status = "SUCCESS"]
  /\ UNCHANGED trSeen

\* Decoding the body, or the callback it is shown to, fails.
TrBodyFails ==
  /\ trCall.pc \in {"decode", "deliver"} /\ TrMayFault
  /\ TrFail("CONTENT_FAILED", 1)

----------------------------------------
(* Faults.                                                                 *)

\* The byte stream breaks; the client learns of it by a failing call or by an indication.
TrWireBreaks ==
  /\ trWire.alive /\ TrMayFault
  /\ trWire' = [trWire EXCEPT !.alive = FALSE, !.in = <<>>]
  /\ trCall' = [trCall EXCEPT !.faults = @ + 1]
  /\ UNCHANGED <<trRoute, trServer, trConn, trOut, trSeen>>

TrDisconnectIndicated ==
  /\ trConn.up /\ ~trWire.alive /\ trCall.pc \in {"idle", "done"}
  /\ trConn' = [trConn EXCEPT !.up = FALSE]
  /\ UNCHANGED <<trRoute, trServer, trWire, trCall, trOut, trSeen>>

\* A send or a receive on a broken stream.
TrIoFails ==
  /\ trCall.pc \in {"tunnel", "http1", "upgrade", "http2", "response", "upgrading", "initialize",
                    "settings", "settings1", "receive", "receive1"}
  /\ trCall.pc = "tunnel" => TrNeedsTunnel
  /\ ~trWire.alive /\ trConn.replay = <<>>
  /\ TrFail(TrPhaseStatus("DISCONNECTED"), 0)

\* The answer takes too long, or the origin refuses the stream before treating it.
TrAnswerFails ==
  /\ trWire.alive /\ TrMayFault
  /\ \/ trCall.pc \in {"response", "receive", "receive1"} /\ TrFail("IO_TIMEOUT", 1)
     \/ trCall.pc = "receive" /\ TrFail("RETRY", 1)

----------------------------------------
TrInit ==
  /\ trRoute \in TrRoutes /\ trServer \in TrServers
  /\ trConn = TrNoConn /\ trWire = TrDeadWire
  /\ trCall = TrIdle /\ trOut = TrNoOut /\ trSeen = {}

TrConnecting ==
  \/ \E q \in TrRequests : TrSend(q)
  \/ EnsureSocketConnected \/ ConnectSocketToAddress \/ TrAddressFails \/ TrNoAddressLeft
  \/ EnsureTlsConnected \/ EstablishProxyTunnel \/ ConnectTlsOnExistingSocket
  \/ \E failure \in {"version", "early", "other"} : TrHandshakeFails(failure)

TrTalking ==
  \/ TrDispatch \/ TrSendHttp1
  \/ \E reusable \in BOOLEAN : TrReadHttp1(reusable) \/ TrDecode(reusable) \/ TrDeliver(reusable)
  \/ TrSendUpgrade \/ ReadH2cUpgradeResponse \/ TrInitialize \/ TrInitializeAfterUpgrade
  \/ TrReadSettings \/ TrBeginRequest \/ TrReceiveFrame \/ TrReceiveGarbage \/ TrEndOfResponse
  \/ TrBodyFails \/ TrIoFails \/ TrAnswerFails

TrNext ==
  \/ (TrConnecting \/ TrTalking) /\ UNCHANGED <<trRoute, trServer>>
  \/ TrPeerStartsHttp2 \/ TrWireBreaks \/ TrDisconnectIndicated

TrSpec == TrInit /\ [][TrNext]_trVars

----------------------------------------
(* Properties.                                                             *)

TrSentRequests(n) == {e \in trSeen : e.what = "request" /\ e.call = n}

\* Through reconnects, tunnels, the TLS 1.2 confirmation and retries: the far end is never
\* told something it does not expect there; a secure request is shown to nobody but the
\* origin and only under an allowed TLS version; the proxy's credentials are shown to nobody
\* but the proxy; TLS is never started with the proxy; and only a safe request is ever sent twice.
RouteIsAsChosen ==
  /\ ~trWire.confused
  /\ \A e \in trSeen :
       /\ e.what \in {"connect", "credentials"} => e.who = "proxy" /\ e.tls = 0
       /\ e.what = "hello" => e.who = "origin"
       /\ e.what = "request" =>
            IF trRoute.https THEN e.who = "origin" /\ e.tls \in trRoute.min .. trRoute.max
            ELSE e.who = IF trRoute.proxied THEN "proxy" ELSE "origin"
  /\ \A n \in 1 .. TrMaxCalls : Cardinality(TrSentRequests(n)) <= 2
  /\ trCall.request.method # "GET" => Cardinality(TrSentRequests(trCall.number)) <= 1

TrWhole == [i \in 1 .. TrChunks |-> "plain"]

\* A callback has been shown a beginning of the body, decoded, and not the end.
ShowsABeginning(o) == o.final = 0 /\ \E g \in 0 .. TrChunks : o.live = [i \in 1 .. g |-> "plain"]

\* The callback is shown all of the decoded body and then the end; the response carries it
\* when there is no callback or both were asked for.
LastAttemptDelivers ==
  (trCall.status = "SUCCESS" /\ trOut.http2) =>
    /\ trOut.final \in {0, 1}
    /\ trOut.live = IF trOut.final = 1 THEN TrWhole ELSE <<>>
    /\ (trOut.final = 0 \/ trCall.request.aggregate) => trOut.body = TrWhole
    /\ (trOut.final = 1 /\ ~trCall.request.aggregate) => trOut.body = <<>>

\* The attempt that succeeds hands over an HTTP/2 body whole and once; an attempt that was
\* given up has shown the callback a beginning of it at most: no coded frame and no end.
Http2BodyIsDelivered == ShowsABeginning(trCall.earlier) /\ LastAttemptDelivers

\* What a caller would expect of the callbacks, and the code does not keep: they are told of
\* one response only, so that what an attempt given up has shown is not shown again.
CallbacksSeeOneResponse == ~trCall.earlier.headers

\* A connection that is kept is read from a frame boundary: what was read behind the 101 of
\* an upgrade is replayed to the HTTP/2 connection, all of it.
ReplayLosesNothing ==
  (trConn.http2 /\ trConn.replay = <<>> /\ trWire.in # <<>>) => Head(trWire.in) # "-ping"

\* A request travels the way its options choose, the attempt that succeeds hands over its
\* HTTP/2 body whole and once, and what is read on a kept connection begins at a frame.
RouteServesRequest == RouteIsAsChosen /\ Http2BodyIsDelivered /\ ReplayLosesNothing
=============================================================================
