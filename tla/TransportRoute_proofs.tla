------------------------ MODULE TransportRoute_proofs ------------------------
\* A request travels the way its options choose and its HTTP/2 body
\* arrives once (RouteServesRequest of TransportRoute), for any routes,
\* servers, requests, addresses, DATA frames, calls and faults.
\*
\* The invariant says, for each place a request can be at, what its
\* connection is (TrPlaceOK), that the holder of the connection and the
\* far end mean the same byte stream (TrLinked), and who has been shown
\* what (TrSeenOK).  What has been read of an HTTP/2 answer is a position
\* k in the units the origin sends; the caller has been given the DATA
\* frames before it.
EXTENDS TransportRoute, SequenceTheorems, FiniteSetTheorems, TLAPS

TrUnitKinds == {"101", "response", "settings", "headers", "data", "end", "ping-", "-ping"}

TrConns ==
  [up : BOOLEAN, tunnel : BOOLEAN, tls : {0, 12, 13}, alpn : {"", "h2", "http/1.1"}, http2 : BOOLEAN,
   replay : Seq(TrUnitKinds)]

TrWires ==
  [alive : BOOLEAN, peer : {"origin", "proxy"}, tls : {0, 12, 13}, alpn : {"", "h2", "http/1.1"},
   speaks : {"start", "h1", "101", "h2"}, in : Seq(TrUnitKinds), confused : {FALSE}]

\* The places of a request: before it has been sent, and after.
TrWaiting == {"socket", "connect", "tls", "tunnel", "handshake", "dispatch", "upgrade", "http2", "http1", "settings"}
TrAsked == {"response", "upgrading", "initialize", "settings1", "receive", "receive1", "decode", "deliver", "done"}

\* The call is a record of its eleven fields.
TrCallShape ==
  trCall = [pc |-> trCall.pc, request |-> trCall.request, number |-> trCall.number, attempt |-> trCall.attempt,
            reused |-> trCall.reused, address |-> trCall.address, phase |-> trCall.phase,
            original |-> trCall.original, status |-> trCall.status, faults |-> trCall.faults,
            earlier |-> trCall.earlier]
USE DEF TrCallShape

TrCallOK ==
  /\ TrCallShape
  /\ trCall.pc \in {"idle"} \cup TrWaiting \cup TrAsked
  /\ trCall.number \in Nat /\ (trCall.pc = "idle" <=> trCall.number = 0)
  /\ trCall.pc # "idle" => trCall.request \in TrRequests /\ trCall.attempt \in {1, 2}
  /\ trCall.attempt = 2 => trCall.request.method = "GET"
  /\ trCall.pc \notin {"idle", "done"} => TrEarlyStatus(trCall.request) = ""
  /\ trCall.status = "SUCCESS" => trCall.pc = "done"
  /\ trCall.phase = "confirm" => trRoute.https
  /\ ShowsABeginning(trCall.earlier)

\* What the holder knows of the byte stream is what the far end knows.
TrLinked ==
  /\ trWire.alive => trConn.up
  /\ ~trWire.alive => trWire.in = <<>>
  /\ trConn.up =>
       /\ trWire.tls = trConn.tls /\ trWire.alpn = trConn.alpn
       /\ trWire.peer = IF trRoute.proxied /\ ~trConn.tunnel THEN "proxy" ELSE "origin"
       /\ trConn.tunnel => trRoute.https
       /\ trConn.tls = 0 => trConn.alpn = ""
       /\ trConn.tls # 0 => /\ trRoute.https /\ trConn.tls \in trRoute.min .. trRoute.max
                            /\ trRoute.proxied => trConn.tunnel

\* What the route and the handshake have chosen.
TrSpeaksH2 == trRoute.clear # "off" \/ trConn.alpn = "h2"

TrUp == trConn.up /\ (trRoute.https => trConn.tls # 0)

TrUntouched == ~trConn.http2 /\ trConn.replay = <<>> /\ trWire.speaks = "start" /\ trWire.in = <<>>

\* A socket to the far end; the same ready for a request; one that has served a request.
TrFresh == trConn.up /\ trConn.tls = 0 /\ TrUntouched

TrReady == TrUp /\ TrUntouched

TrLeftovers ==
  {<<>>, <<"ping-", "-ping">>} \cup (IF "upgrade" \in TrLateModes THEN {<<"-ping">>} ELSE {})

TrSettled ==
  /\ TrUp /\ trConn.replay = <<>> /\ (trConn.http2 <=> TrSpeaksH2)
  /\ IF trConn.http2 THEN trWire.speaks = "h2" /\ trWire.in \in TrLeftovers ELSE trWire.speaks = "h1"

\* HTTP/2 has been begun by an upgrade, or has been adopted.
TrUpgraded == TrUp /\ trRoute.clear = "upgrade" /\ ~trConn.http2

TrOverHttp2 == TrUp /\ TrSpeaksH2 /\ trConn.http2 /\ trWire.speaks = "h2"

\* The units that the connection will deliver, and what they are a part of.
TrPending == trConn.replay \o trWire.in

TrFollows(units, whole, k) ==
  /\ k + Len(units) <= Len(whole)
  /\ \A i \in 1 .. Len(units) : units[i] = whole[k + i]

TrPendingFollows(whole, k) ==
  TrFollows(TrPending, whole, k) /\ (trWire.alive => k + Len(TrPending) = Len(whole))

\* An answer behind what an earlier one, or an upgrade, has left.
TrReading(lead, mode, k) ==
  /\ k = 0 \/ k >= Len(lead)
  /\ k <= Len(lead) + TrChunks + 1
  /\ TrPendingFollows(lead \o TrAnswer(mode), k)

\* DATA frames among the first k units.
TrRead(lead, k) == IF k <= Len(lead) THEN 0 ELSE k - Len(lead) - 1

TrLate == <<"ping-", "-ping">>

TrModes == {"tls", "plain", "prior", "upgrade"}

\* What the caller of a request has been given of g DATA frames.
TrUnitsOf(g) == [i \in 1 .. g |-> TrUnit]

TrShown(g) ==
  LET q == trCall.request IN
  [TrNoOut EXCEPT !.headers = TRUE, !.suppress = q.coded, !.aggregate = q.aggregate \/ q.coded,
                  !.buffer = IF q.aggregate \/ q.coded THEN TrUnitsOf(g) ELSE <<>>,
                  !.live = IF q.coded THEN <<>> ELSE TrUnitsOf(g)]

TrBuffered(g) == [TrNoOut EXCEPT !.buffer = TrUnitsOf(g)]

TrGiven(g) == IF ~trCall.request.callback THEN TrBuffered(g) ELSE IF g = 0 THEN TrNoOut ELSE TrShown(g)

TrPlaceOK ==
  /\ trCall.pc \in {"idle", "done", "socket"} => trConn.replay = <<>> /\ (trConn.up => TrSettled)
  /\ trCall.pc = "connect" => trConn = TrNoConn
  /\ trCall.pc = "tls" => trRoute.https /\ (TrFresh \/ TrSettled)
  /\ trCall.pc = "tunnel" => trRoute.https /\ TrFresh
  /\ trCall.pc = "handshake" => trRoute.https /\ TrFresh /\ (trRoute.proxied => trConn.tunnel)
  /\ trCall.pc = "dispatch" => TrReady \/ TrSettled
  /\ trCall.pc = "upgrade" => TrReady /\ trRoute.clear = "upgrade"
  /\ trCall.pc = "http2" => TrSpeaksH2 /\ (TrReady \/ TrSettled)
  /\ trCall.pc = "http1" => ~TrSpeaksH2 /\ (TrReady \/ TrSettled)
  /\ trCall.pc = "response" => TrUp /\ ~TrSpeaksH2 /\ ~trConn.http2 /\ trConn.replay = <<>> /\ trWire.speaks = "h1"
  /\ trCall.pc = "upgrading" =>
       /\ TrUpgraded /\ trConn.replay = <<>>
       /\ \/ trWire.speaks = "101" /\ trWire.in \in {<<>>, <<"101">>, <<"101", "settings">> \o TrAnswer("upgrade")}
          \/ trWire.speaks = "h1" /\ trWire.in \in {<<>>, <<"response">>}
  /\ trCall.pc = "initialize" =>
       TrUpgraded /\ trWire.speaks = "101" /\ TrPendingFollows(<<"settings">> \o TrAnswer("upgrade"), 0)
  /\ trCall.pc = "settings1" =>
       TrUpgraded /\ trWire.speaks = "h2" /\ TrPendingFollows(<<"settings">> \o TrAnswer("upgrade"), 0)
  /\ trCall.pc = "settings" =>
       /\ TrUp /\ TrSpeaksH2 /\ ~trConn.http2 /\ trConn.replay = <<>>
       /\ trWire.speaks = "h2" /\ trWire.in \in {<<>>, <<"settings">>}
  /\ trCall.pc = "receive" =>
       /\ TrOverHttp2 /\ trConn.replay = <<>>
       /\ \E lead \in TrLeftovers, mode \in TrModes, k \in 0 .. TrChunks + 3 :
            TrReading(lead, mode, k) /\ trOut = TrGiven(TrRead(lead, k))
  /\ trCall.pc = "receive1" =>
       /\ TrOverHttp2 /\ trRoute.clear = "upgrade"
       /\ \E k \in 1 .. TrChunks + 2 :
            TrReading(<<"settings">>, "upgrade", k) /\ trOut = TrBuffered(TrRead(<<"settings">>, k))
  /\ trCall.pc \in {"decode", "deliver"} =>
       /\ TrOverHttp2
       /\ trConn.replay = <<>> \/ "upgrade" \in TrLateModes
       /\ TrPending = <<>> \/ TrPendingFollows(TrLate, 0)

\* Nothing has been read of the answer.
TrQuiet == {"idle", "response", "upgrading", "initialize", "settings1"} \cup TrWaiting

TrOutOK ==
  /\ trCall.pc \in TrQuiet => trOut = TrNoOut
  /\ trCall.pc = "decode" => trOut = TrBuffered(TrChunks)
  /\ trCall.pc = "deliver" => trOut = TrShown(TrChunks)
  /\ LastAttemptDelivers

\* Who may be shown what.
TrEventOK(e) ==
  /\ e.what \in {"connect", "credentials"} => e.who = "proxy" /\ e.tls = 0
  /\ e.what = "hello" => e.who = "origin"
  /\ e.what = "request" =>
       IF trRoute.https THEN e.who = "origin" /\ e.tls \in trRoute.min .. trRoute.max
       ELSE e.who = IF trRoute.proxied THEN "proxy" ELSE "origin"

\* An attempt sends its request once: seen is a history in which attempt a of call n has
\* not sent one yet unless asked.
TrHistory(seen, n, a, asked) ==
  /\ \A e \in seen :
       /\ TrEventOK(e) /\ e.call \in 1 .. n /\ e.attempt \in {1, 2}
       /\ e.call = n => e.attempt <= a
       /\ e.what = "request" /\ e.call = n /\ e.attempt = a => asked
  /\ \A e, f \in seen :
       e.what = "request" /\ f.what = "request" /\ e.call = f.call /\ e.attempt = f.attempt => e = f

TrSeenOK == TrHistory(trSeen, trCall.number, trCall.attempt, trCall.pc \in TrAsked)

TrInv ==
  /\ trRoute \in TrRoutes /\ trServer \in TrServers /\ trConn \in TrConns /\ trWire \in TrWires
  /\ TrCallOK /\ TrLinked /\ TrPlaceOK /\ TrOutOK /\ TrSeenOK

----------------------------------------
(* What the options say *)

\* Routes, servers and requests are what the options allow (TrConstants).
LEMMA TrRouteIs ==
  ASSUME trRoute \in TrRoutes, trServer \in TrServers
  PROVE  TrIsRoute(trRoute) /\ trServer.tls \subseteq {12, 13} /\ trServer.h2 \in BOOLEAN
         /\ TrChunks \in Nat
  BY TrConstants

\* Cleartext HTTP/2 goes neither over TLS nor through a proxy (SendViaTransport).
LEMMA TrEarlySays ==
  ASSUME trRoute \in TrRoutes, trServer \in TrServers, NEW q, TrEarlyStatus(q) = ""
  PROVE  trRoute.clear # "off" => ~trRoute.https /\ ~trRoute.proxied
  BY TrRouteIs DEF TrEarlyStatus, TrIsRoute

----------------------------------------
(* Histories *)

\* A history stays one when the attempt has sent its request.
LEMMA TrHistoryAsked ==
  ASSUME NEW s, NEW n, NEW a, NEW b, NEW c, TrHistory(s, n, a, b), b => c
  PROVE  TrHistory(s, n, a, c)
  BY DEF TrHistory

\* Whatever is not a request may be shown at any time to whom it is for.
LEMMA TrHistoryShows ==
  ASSUME NEW s, NEW n \in Nat \ {0}, NEW a \in {1, 2}, NEW b, TrHistory(s, n, a, b),
         n = trCall.number, a = trCall.attempt,
         NEW w, NEW what, what # "request", \A e \in TrShow(w, what) : TrEventOK(e)
  PROVE  TrHistory(s \cup TrShow(w, what), n, a, b)
<1> DEFINE x == [who |-> w.peer, what |-> what, tls |-> w.tls, call |-> n, attempt |-> a]
<1>1. TrShow(w, what) = {x} /\ x.what # "request" /\ x.call = n /\ x.attempt = a /\ TrEventOK(x)
  BY DEF TrShow
<1> HIDE DEF x
<1> QED  BY <1>1 DEF TrHistory

\* The request of an attempt is shown once.
LEMMA TrHistoryRequest ==
  ASSUME NEW s, NEW n \in Nat \ {0}, NEW a \in {1, 2}, TrHistory(s, n, a, FALSE),
         n = trCall.number, a = trCall.attempt,
         NEW w, \A e \in TrShow(w, "request") : TrEventOK(e)
  PROVE  TrHistory(s \cup TrShow(w, "request"), n, a, TRUE)
<1> DEFINE x == [who |-> w.peer, what |-> "request", tls |-> w.tls, call |-> n, attempt |-> a]
<1>1. TrShow(w, "request") = {x} /\ x.what = "request" /\ x.call = n /\ x.attempt = a /\ TrEventOK(x)
  BY DEF TrShow
<1> HIDE DEF x
<1> QED  BY <1>1 DEF TrHistory

\* The second attempt has sent nothing.
LEMMA TrHistoryAgain ==
  ASSUME NEW s, NEW n, NEW b, TrHistory(s, n, 1, b)
  PROVE  TrHistory(s, n, 2, FALSE)
  BY DEF TrHistory

\* The next call has sent nothing.
LEMMA TrHistoryNext ==
  ASSUME NEW s, NEW n \in Nat, NEW a, NEW b, TrHistory(s, n, a, b)
  PROVE  TrHistory(s, n + 1, 1, FALSE)
  BY DEF TrHistory

\* The history of a step that leaves the route alone.
LEMMA TrSeenFrame ==
  ASSUME trRoute' = trRoute, TrHistory(trSeen', trCall'.number, trCall'.attempt, trCall'.pc \in TrAsked)
  PROVE  TrSeenOK'
  BY DEF TrSeenOK, TrHistory, TrEventOK

----------------------------------------
(* The end of an attempt *)

\* What an earlier answer, or an upgrade, has left: nothing, a late PING or its second half.
LEMMA TrLeftoversAre ==
  ASSUME NEW lead \in TrLeftovers
  PROVE  /\ lead \in Seq(TrUnitKinds) /\ Len(lead) \in {0, 1, 2}
         /\ Len(lead) = 1 => lead[1] = "-ping"
         /\ Len(lead) = 2 => lead[1] = "ping-"
<1>1. CASE lead = <<>>
  BY <1>1, EmptySeq
<1>2. CASE lead = <<"ping-", "-ping">>
  <2>1. Len(<<"ping-", "-ping">>) = 2 /\ <<"ping-", "-ping">>[1] = "ping-"
    OBVIOUS
  <2>2. <<"ping-", "-ping">> \in Seq(TrUnitKinds)
    BY DEF TrUnitKinds
  <2> QED  BY <1>2, <2>1, <2>2
<1>3. CASE lead = <<"-ping">>
  <2>1. Len(<<"-ping">>) = 1 /\ <<"-ping">>[1] = "-ping"
    OBVIOUS
  <2>2. <<"-ping">> \in Seq(TrUnitKinds)
    BY DEF TrUnitKinds
  <2> QED  BY <1>3, <2>1, <2>2
<1>4. lead \in {<<>>, <<"ping-", "-ping">>, <<"-ping">>}
  BY DEF TrLeftovers
<1> QED  BY <1>1, <1>2, <1>3, <1>4

\* What the origin of an upgrade sends before its answer.
LEMMA TrSettingsLead == <<"settings">> \in Seq(TrUnitKinds) /\ Len(<<"settings">>) = 1 /\ <<"settings">>[1] = "settings"
  BY DEF TrUnitKinds

\* Nothing is a beginning.
LEMMA TrNothingShown == ShowsABeginning(TrNoOut)
<1>1. TrNoOut.final = 0 /\ TrNoOut.live = [i \in 1 .. 0 |-> "plain"]
  BY DEF TrNoOut
<1> QED  BY <1>1, TrConstants DEF ShowsABeginning

\* Before its end a request has a beginning of the answer at most.
LEMMA TrNotYetWhole ==
  ASSUME TrInv, trCall.pc # "done"
  PROVE  trOut.http2 = FALSE /\ ShowsABeginning(trOut)
<1> DEFINE ok(o) == o.http2 = FALSE /\ ShowsABeginning(o)
<1>1. TrChunks \in Nat
  BY TrConstants
<1>2. ok(TrNoOut)
  BY TrNothingShown DEF TrNoOut
<1>3. ASSUME NEW g \in 0 .. TrChunks  PROVE ok(TrBuffered(g)) /\ ok(TrShown(g))
  <2>1. TrBuffered(g).http2 = FALSE /\ TrBuffered(g).final = 0 /\ TrBuffered(g).live = <<>>
    BY DEF TrBuffered, TrNoOut
  <2>2. /\ TrShown(g).http2 = FALSE /\ TrShown(g).final = 0
        /\ TrShown(g).live = IF trCall.request.coded THEN <<>> ELSE TrUnitsOf(g)
    BY DEF TrShown, TrNoOut
  <2>3. ~trCall.request.coded => TrUnitsOf(g) = [i \in 1 .. g |-> "plain"]
    BY DEF TrUnitsOf, TrUnit
  <2> QED  BY <1>1, <2>1, <2>2, <2>3 DEF ShowsABeginning
<1>4. ASSUME NEW lead \in Seq(TrUnitKinds), NEW mode, NEW k \in Nat, TrReading(lead, mode, k)
      PROVE  TrRead(lead, k) \in 0 .. TrChunks
  BY <1>1, <1>4, LenProperties DEF TrRead, TrReading
<1> HIDE DEF ok
<1>5. CASE trCall.pc = "receive"
  <2>1. PICK lead \in TrLeftovers, mode \in TrModes, k \in 0 .. TrChunks + 3 :
          TrReading(lead, mode, k) /\ trOut = TrGiven(TrRead(lead, k))
    BY <1>5 DEF TrInv, TrPlaceOK
  <2>2. lead \in Seq(TrUnitKinds) /\ k \in Nat
    BY TrLeftoversAre
  <2>3. TrRead(lead, k) \in 0 .. TrChunks
    BY <1>4, <2>1, <2>2
  <2>4. ok(trOut)
    BY <1>2, <1>3, <2>1, <2>3 DEF TrGiven
  <2> QED  BY <2>4 DEF ok
<1>6. CASE trCall.pc = "receive1"
  <2> DEFINE lead == <<"settings">>
  <2>1. PICK k \in 1 .. TrChunks + 2 : TrReading(lead, "upgrade", k) /\ trOut = TrBuffered(TrRead(lead, k))
    BY <1>6 DEF TrInv, TrPlaceOK
  <2>4. lead \in Seq(TrUnitKinds) /\ k \in Nat
    BY TrSettingsLead
  <2> HIDE DEF lead
  <2>2. TrRead(lead, k) \in 0 .. TrChunks
    BY <1>4, <2>1, <2>4
  <2>3. ok(trOut)
    BY <1>3, <2>1, <2>2
  <2> QED  BY <2>3 DEF ok
<1>7. CASE trCall.pc \notin {"receive", "receive1"}
  <2>1. trOut \in {TrNoOut, TrBuffered(TrChunks), TrShown(TrChunks)}
    BY <1>7 DEF TrInv, TrCallOK, TrOutOK, TrQuiet, TrWaiting, TrAsked
  <2>2. ok(trOut)
    BY <1>1, <1>2, <1>3, <2>1
  <2> QED  BY <2>2 DEF ok
<1> QED  BY <1>5, <1>6, <1>7

\* A closed connection is one that nothing is known of.
TrGone == trConn = TrNoConn /\ trWire = TrDeadWire

\* An attempt that ends with its connection closed: the request is over, or starts again.
LEMMA TrReturned ==
  ASSUME TrInv, trCall.pc \notin {"idle", "done"}, trRoute' = trRoute, trServer' = trServer,
         NEW status, NEW w, w.confused = FALSE, NEW f,
         TrReturn(status, trConn, w, FALSE, f),
         TrHistory(trSeen', trCall.number, trCall.attempt, TRUE)
  PROVE  TrInv'
<1>1. TrGone'
  BY DEF TrReturn, TrRelease, TrGone, TrNoConn, TrDeadWire
<1>2. trConn' \in TrConns /\ trWire' \in TrWires
  BY <1>1, EmptySeq DEF TrGone, TrNoConn, TrDeadWire, TrConns, TrWires
<1>3. TrLinked'
  BY <1>1 DEF TrGone, TrNoConn, TrDeadWire, TrLinked
<1>4. /\ TrCallShape
      /\ trCall.status # "SUCCESS" /\ trCall.pc # "idle"
  BY DEF TrInv, TrCallOK
<1>5. CASE ShouldRetryWithFreshConnection(trCall, status)
  <2>1. /\ trCall' = [trCall EXCEPT !.pc = "socket", !.attempt = 2, !.reused = FALSE, !.address = 0,
                                    !.phase = "first", !.original = "", !.faults = @ + f,
                                    !.earlier = trOut]
        /\ trOut' = TrNoOut /\ trCall.attempt = 1 /\ trCall.request.method = "GET"
    BY <1>5 DEF TrReturn, ShouldRetryWithFreshConnection
  <2>2. /\ trCall'.pc = "socket" /\ trCall'.attempt = 2 /\ trCall'.number = trCall.number
        /\ trCall'.status = trCall.status /\ trCall'.phase = "first" /\ trCall'.request = trCall.request
        /\ ShowsABeginning(trCall'.earlier)
    BY <1>4, <2>1, TrNotYetWhole
  <2>3. TrCallOK'
    <3>1. TrCallShape'
      BY <1>4, <2>1
    <3>2. TrEarlyStatus(trCall.request)' = TrEarlyStatus(trCall'.request)
      BY DEF TrEarlyStatus, RequestUsesExpectContinue
    <3>3. TrEarlyStatus(trCall'.request) = ""
      BY <2>2 DEF TrInv, TrCallOK
    <3> QED  BY <1>4, <2>1, <2>2, <3>1 DEF TrInv, TrCallOK, TrWaiting, TrAsked, TrEarlyStatus, RequestUsesExpectContinue
  <2>4. TrPlaceOK'
    BY <1>1, <2>2 DEF TrGone, TrNoConn, TrPlaceOK
  <2>5. TrOutOK'
    BY <1>4, <2>1, <2>2 DEF TrOutOK, LastAttemptDelivers, TrQuiet, TrWaiting
  <2>6. TrSeenOK'
    BY <2>1, <2>2, TrHistoryAgain, TrHistoryAsked, TrSeenFrame DEF TrAsked
  <2> QED  BY <1>2, <1>3, <2>3, <2>4, <2>5, <2>6 DEF TrInv
<1>6. CASE ~ShouldRetryWithFreshConnection(trCall, status)
  <2>1. trCall' = [trCall EXCEPT !.pc = "done", !.status = status, !.faults = @ + f] /\ trOut' = trOut
    BY <1>6 DEF TrReturn
  <2>2. /\ trCall'.pc = "done" /\ trCall'.attempt = trCall.attempt /\ trCall'.number = trCall.number
        /\ trCall'.phase = trCall.phase /\ trCall'.earlier = trCall.earlier /\ trCall'.request = trCall.request
    BY <1>4, <2>1
  <2>3. TrCallOK'
    <3>1. TrCallShape'
      BY <1>4, <2>1
    <3> QED  BY <2>2, <3>1 DEF TrInv, TrCallOK, TrAsked
  <2>4. TrPlaceOK'
    BY <1>1, <2>2 DEF TrGone, TrNoConn, TrPlaceOK
  <2>5. TrOutOK'
    BY <2>1, <2>2, TrNotYetWhole DEF TrOutOK, LastAttemptDelivers, TrQuiet, TrWaiting
  <2>6. TrSeenOK'
    BY <2>2, TrSeenFrame DEF TrAsked
  <2> QED  BY <1>2, <1>3, <2>3, <2>4, <2>5, <2>6 DEF TrInv
<1> QED  BY <1>5, <1>6

\* The same without anything shown.
LEMMA TrFailed ==
  ASSUME TrInv, trCall.pc \notin {"idle", "done"}, trRoute' = trRoute, trServer' = trServer,
         NEW status, NEW f, TrFail(status, f)
  PROVE  TrInv'
<1>1. TrHistory(trSeen', trCall.number, trCall.attempt, TRUE)
  BY TrHistoryAsked DEF TrInv, TrSeenOK, TrFail
<1>2. trWire.confused = FALSE
  BY DEF TrInv, TrWires
<1> QED  BY <1>1, <1>2, TrReturned DEF TrFail

----------------------------------------
(* A request that goes on *)

\* A step to another place of the same attempt keeps the call well formed.
LEMMA TrMoves ==
  ASSUME TrInv, trRoute' = trRoute, trCall.pc \notin {"idle", "done"},
         NEW p \in TrWaiting \cup (TrAsked \ {"done"}), TrGoto(p)
  PROVE  /\ TrCallOK'
         /\ trCall'.pc = p /\ trCall'.request = trCall.request /\ trCall'.number = trCall.number
         /\ trCall'.attempt = trCall.attempt /\ trCall'.status # "SUCCESS"
<1>1. /\ TrCallShape
      /\ trCall.status # "SUCCESS" /\ p \notin {"idle", "done"}
  BY DEF TrInv, TrCallOK, TrWaiting, TrAsked
<1>2. trCall' = [trCall EXCEPT !.pc = p]
  BY DEF TrGoto
<1>3. /\ trCall'.pc = p /\ trCall'.request = trCall.request /\ trCall'.number = trCall.number
      /\ trCall'.attempt = trCall.attempt /\ trCall'.status = trCall.status /\ trCall'.phase = trCall.phase /\ trCall'.earlier = trCall.earlier
      /\ trCall'.reused = trCall.reused /\ trCall'.address = trCall.address
      /\ trCall'.original = trCall.original /\ trCall'.faults = trCall.faults
  BY <1>1, <1>2
<1>4. TrCallShape'
  BY <1>1, <1>2
<1> QED  BY <1>1, <1>3, <1>4 DEF TrInv, TrCallOK, TrEarlyStatus, RequestUsesExpectContinue

\* A step that shows nobody anything and gives the caller nothing.
LEMMA TrMovesQuietly ==
  ASSUME TrInv, trRoute' = trRoute, trCall.pc \in TrQuiet \ {"idle"}, NEW p \in TrQuiet \ {"idle"}, TrGoto(p),
         trCall.pc \in TrAsked => p \in TrAsked,
         trOut' = trOut, trSeen' = trSeen
  PROVE  TrCallOK' /\ TrOutOK' /\ TrSeenOK' /\ trCall'.pc = p
<1>1. p \in TrWaiting \cup (TrAsked \ {"done"}) /\ p \notin {"done", "decode", "deliver"}
  BY DEF TrQuiet, TrWaiting, TrAsked
<1>2. trCall.pc \notin {"idle", "done"}
  BY DEF TrQuiet, TrWaiting
<1>3. /\ TrCallOK' /\ trCall'.pc = p /\ trCall'.number = trCall.number
      /\ trCall'.attempt = trCall.attempt /\ trCall'.status # "SUCCESS"
  BY <1>1, <1>2, TrMoves
<1>4. TrOutOK'
  BY <1>1, <1>3 DEF TrInv, TrOutOK, LastAttemptDelivers
<1>5. TrSeenOK'
  BY <1>3, TrHistoryAsked, TrSeenFrame DEF TrInv, TrSeenOK
<1> QED  BY <1>3, <1>4, <1>5

----------------------------------------
(* The socket, the tunnel and TLS *)

\* A caller takes the connection and sends a request with it (SendViaTransport).
LEMMA TrSendKeeps ==
  ASSUME TrInv, NEW new \in TrRequests, TrSend(new), trRoute' = trRoute, trServer' = trServer
  PROVE  TrInv'
<1>1. trCall' = [TrIdle EXCEPT !.request = new, !.number = trCall.number + 1, !.attempt = 1,
                  !.reused = trConn.up, !.faults = trCall.faults,
                  !.pc = IF TrEarlyStatus(new) = "" THEN "socket" ELSE "done", !.status = TrEarlyStatus(new)]
      /\ trOut' = TrNoOut /\ trSeen' = trSeen /\ trCall.pc \in {"idle", "done"}
  BY DEF TrSend
<1>2. /\ trCall'.pc = (IF TrEarlyStatus(new) = "" THEN "socket" ELSE "done")
      /\ trCall'.request = new /\ trCall'.number = trCall.number + 1 /\ trCall'.attempt = 1
      /\ trCall'.status = TrEarlyStatus(new) /\ trCall'.phase = "first" /\ trCall'.earlier = TrNoOut
  BY <1>1 DEF TrIdle
<1>10. TrCallShape'
  BY <1>1 DEF TrIdle
<1>3. trCall.number \in Nat
  BY DEF TrInv, TrCallOK
<1>4. TrEarlyStatus(new) # "SUCCESS"
  BY TrRouteIs DEF TrInv, TrEarlyStatus, TrIsRoute
<1>5. TrCallOK'
  <2>1. TrEarlyStatus(trCall.request)' = TrEarlyStatus(new)
    BY <1>2 DEF TrEarlyStatus, RequestUsesExpectContinue
  <2>2. trCall'.pc \in {"socket", "done"} /\ (trCall'.pc # "done" => TrEarlyStatus(trCall.request)' = "")
    BY <1>2, <2>1
  <2>3. trCall'.number = trCall.number + 1 /\ trCall'.attempt = 1
    BY <1>2
  <2>4. trCall'.number \in Nat /\ trCall'.number # 0
    BY <1>3, <2>3
  <2>5. trCall'.request = new /\ trCall'.phase = "first" /\ trCall'.status # "SUCCESS"
    BY <1>2, <1>4
  <2>6. trCall'.attempt \in {1, 2} /\ trCall'.attempt # 2
    BY <2>3
  <2>7. trCall'.pc \in {"idle"} \cup TrWaiting \cup TrAsked
    BY <2>2 DEF TrWaiting, TrAsked
  <2>8. trCall'.request \in TrRequests
    BY <2>5
  <2>9. trCall'.phase # "confirm"
    BY <2>5
  <2>10. ShowsABeginning(trCall'.earlier)
    BY <1>2, TrNothingShown
  <2> QED  BY <1>10, <2>2, <2>4, <2>5, <2>6, <2>7, <2>8, <2>9, <2>10, Zenon DEF TrCallOK
<1>6. TrSeenOK'
  <2>1. TrHistory(trSeen', trCall'.number, trCall'.attempt, FALSE)
    BY <1>1, <1>2, <1>3, TrHistoryNext DEF TrInv, TrSeenOK
  <2> QED  BY <2>1, TrHistoryAsked, TrSeenFrame
<1>7. TrOutOK'
  BY <1>1, <1>2 DEF TrOutOK, TrNoOut, LastAttemptDelivers
<1>8. CASE TrEarlyStatus(new) = ""
  <2>1. trConn' = trConn /\ trWire' = trWire
    BY <1>8 DEF TrSend
  <2>2. trConn.replay = <<>> /\ (trConn.up => TrSettled)
    BY <1>1 DEF TrInv, TrPlaceOK
  <2>3. TrSettled' = TrSettled
    BY <2>1 DEF TrSettled, TrUp, TrSpeaksH2
  <2>4. TrPlaceOK'
    BY <1>2, <1>8, <2>1, <2>2, <2>3 DEF TrPlaceOK
  <2> QED  BY <1>5, <1>6, <1>7, <2>1, <2>4 DEF TrInv, TrLinked
<1>9. CASE TrEarlyStatus(new) # ""
  <2>1. TrGone'
    BY <1>9 DEF TrInv, TrWires, TrSend, TrGone, TrDeadWire
  <2>2. TrPlaceOK' /\ TrLinked' /\ trConn' \in TrConns /\ trWire' \in TrWires
    BY <1>2, <1>9, <2>1, EmptySeq DEF TrGone, TrNoConn, TrDeadWire, TrPlaceOK, TrLinked, TrConns, TrWires
  <2> QED  BY <1>5, <1>6, <1>7, <2>2 DEF TrInv
<1> QED  BY <1>8, <1>9

\* A connected socket is used, what is left of another connection is closed.
LEMMA EnsureSocketConnectedKeeps ==
  ASSUME TrInv, EnsureSocketConnected, trRoute' = trRoute, trServer' = trServer
  PROVE  TrInv'
<1>1. trCall.pc = "socket" /\ trOut' = trOut /\ trSeen' = trSeen
  BY DEF EnsureSocketConnected
<1>2. CASE trConn.up
  <2>1. TrGoto(TrAfterSocket) /\ trConn' = trConn /\ trWire' = trWire
    BY <1>2 DEF EnsureSocketConnected
  <2>2. TrAfterSocket \in {"tls", "dispatch"} /\ (TrAfterSocket = "tls" => trRoute.https)
    BY DEF TrAfterSocket
  <2>3. TrCallOK' /\ TrOutOK' /\ TrSeenOK' /\ trCall'.pc = TrAfterSocket
    BY <1>1, <2>1, <2>2, TrMovesQuietly DEF TrQuiet, TrWaiting, TrAsked
  <2>4. TrSettled
    BY <1>1, <1>2 DEF TrInv, TrPlaceOK
  <2>5. TrSettled'
    BY <2>1, <2>4 DEF TrSettled, TrUp, TrSpeaksH2
  <2>6. TrPlaceOK'
    BY <2>2, <2>3, <2>5 DEF TrPlaceOK
  <2> QED  BY <2>1, <2>3, <2>6 DEF TrInv, TrLinked
<1>3. CASE ~trConn.up
  <2>1. /\ trConn' = TrCloseTransportResources(trConn)
        /\ trWire' = [TrDeadWire EXCEPT !.confused = trWire.confused]
        /\ trCall' = [trCall EXCEPT !.pc = "connect", !.address = 0]
    BY <1>3 DEF EnsureSocketConnected
  <2>2. trConn.replay = <<>>
    BY <1>1 DEF TrInv, TrPlaceOK
  <2>3. TrGone'
    BY <2>1, <2>2 DEF TrInv, TrConns, TrWires, TrGone, TrNoConn, TrDeadWire, TrCloseTransportResources, TrReleaseTls
  <2>4. /\ trCall'.pc = "connect" /\ trCall'.number = trCall.number /\ trCall'.attempt = trCall.attempt
        /\ trCall'.status # "SUCCESS" /\ TrCallOK'
    BY <1>1, <2>1 DEF TrInv, TrCallOK, TrWaiting, TrAsked, TrEarlyStatus, RequestUsesExpectContinue
  <2>5. TrPlaceOK' /\ TrLinked' /\ trConn' \in TrConns /\ trWire' \in TrWires
    BY <2>3, <2>4, EmptySeq DEF TrGone, TrNoConn, TrDeadWire, TrPlaceOK, TrLinked, TrConns, TrWires
  <2>6. TrOutOK'
    BY <1>1, <2>4 DEF TrInv, TrOutOK, LastAttemptDelivers, TrQuiet, TrWaiting
  <2>7. TrSeenOK'
    BY <1>1, <2>4, TrSeenFrame, TrHistoryAsked DEF TrInv, TrSeenOK, TrAsked
  <2> QED  BY <2>4, <2>5, <2>6, <2>7 DEF TrInv
<1> QED  BY <1>2, <1>3

\* A step in which the connection and the far end are left as they are.
LEMMA TrSameBytes ==
  ASSUME TrInv, trConn' = trConn, trWire' = trWire, trRoute' = trRoute, trServer' = trServer,
         TrCallOK', TrOutOK', TrSeenOK', TrPlaceOK'
  PROVE  TrInv'
  BY DEF TrInv, TrLinked

\* The next address is tried.
LEMMA TrAddressFailsKeeps ==
  ASSUME TrInv, TrAddressFails, trRoute' = trRoute, trServer' = trServer
  PROVE  TrInv'
<1>1. trCall.pc = "connect" /\ trCall.pc \notin {"idle", "done"}
  BY DEF TrAddressFails
<1>2. CASE TrFail(TrPhaseStatus("INSUFFICIENT_RESOURCES"), 1)
  BY <1>1, <1>2, TrFailed
<1>3. CASE /\ trCall' = [trCall EXCEPT !.address = @ + 1, !.faults = @ + 1]
           /\ UNCHANGED <<trConn, trWire, trOut, trSeen>>
  <2>1. /\ TrCallShape
        /\ trCall.status # "SUCCESS"
    BY <1>1 DEF TrInv, TrCallOK
  <2>2. /\ trCall'.pc = trCall.pc /\ trCall'.number = trCall.number /\ trCall'.attempt = trCall.attempt
        /\ trCall'.status = trCall.status /\ trCall'.request = trCall.request /\ trCall'.phase = trCall.phase /\ trCall'.earlier = trCall.earlier
    BY <1>3, <2>1
  <2>3. TrCallShape'
    BY <1>3, <2>1
  <2>4. TrCallOK'
    BY <2>2, <2>3 DEF TrInv, TrCallOK, TrEarlyStatus, RequestUsesExpectContinue
  <2>5. TrOutOK'
    BY <1>1, <1>3, <2>1, <2>2 DEF TrInv, TrOutOK, LastAttemptDelivers, TrQuiet, TrWaiting
  <2>6. TrSeenOK'
    BY <1>3, <2>2, TrSeenFrame DEF TrInv, TrSeenOK
  <2>7. TrPlaceOK'
    BY <1>1, <1>3, <2>2 DEF TrInv, TrPlaceOK
  <2> QED  BY <1>3, <2>4, <2>5, <2>6, <2>7, TrSameBytes
<1> QED  BY <1>2, <1>3 DEF TrAddressFails

\* No address of the name could be reached.
LEMMA TrNoAddressLeftKeeps ==
  ASSUME TrInv, TrNoAddressLeft, trRoute' = trRoute, trServer' = trServer
  PROVE  TrInv'
  BY TrFailed DEF TrNoAddressLeft

\* A new byte stream, to the proxy when there is one.
LEMMA ConnectSocketToAddressKeeps ==
  ASSUME TrInv, ConnectSocketToAddress, trRoute' = trRoute, trServer' = trServer
  PROVE  TrInv'
<1> DEFINE p == IF trCall.phase = "confirm" THEN "tunnel" ELSE TrAfterSocket
<1>1. /\ trCall.pc = "connect" /\ TrGoto(p) /\ trOut' = trOut /\ trSeen' = trSeen
      /\ trConn' = TrAdoptSocket(trConn)
      /\ trWire' = [TrNewWire EXCEPT !.confused = trWire.confused]
  BY DEF ConnectSocketToAddress
<1>2. trConn = TrNoConn
  BY <1>1 DEF TrInv, TrPlaceOK
<1>3. p \in {"tunnel", "tls", "dispatch"} /\ (p = "dispatch" <=> ~trRoute.https)
  <2>1. trCall.phase = "confirm" => trRoute.https
    BY DEF TrInv, TrCallOK
  <2> QED  BY <2>1 DEF TrAfterSocket
<1>4. TrCallOK' /\ TrOutOK' /\ TrSeenOK' /\ trCall'.pc = p
  <2> HIDE DEF p
  <2> QED  BY <1>1, <1>3, TrMovesQuietly DEF TrQuiet, TrWaiting, TrAsked
<1> HIDE DEF p
<1>5. /\ trConn' = [up |-> TRUE, tunnel |-> FALSE, tls |-> 0, alpn |-> "", http2 |-> FALSE, replay |-> <<>>]
      /\ trWire' = [alive |-> TRUE, peer |-> IF trRoute.proxied THEN "proxy" ELSE "origin", tls |-> 0, alpn |-> "",
                    speaks |-> "start", in |-> <<>>, confused |-> FALSE]
  BY <1>1, <1>2 DEF TrInv, TrWires, TrNoConn, TrAdoptSocket, TrNewWire, TrDeadWire
<1>6. trConn' \in TrConns /\ trWire' \in TrWires
  BY <1>5, EmptySeq DEF TrConns, TrWires
<1>7. TrLinked'
  BY <1>5 DEF TrLinked
<1>8. TrUntouched' /\ TrFresh' /\ (~trRoute.https => TrReady')
  BY <1>5 DEF TrFresh, TrUntouched, TrReady, TrUp
<1>9. TrPlaceOK'
  BY <1>3, <1>4, <1>8 DEF TrPlaceOK
<1> QED  BY <1>4, <1>6, <1>7, <1>9 DEF TrInv

\* An established TLS layer is used, otherwise the tunnel and the handshake come first.
LEMMA EnsureTlsConnectedKeeps ==
  ASSUME TrInv, EnsureTlsConnected, trRoute' = trRoute, trServer' = trServer
  PROVE  TrInv'
<1>1. trCall.pc = "tls" /\ trOut' = trOut /\ trSeen' = trSeen /\ trWire' = trWire
  BY DEF EnsureTlsConnected
<1>2. trRoute.https /\ (TrFresh \/ TrSettled)
  BY <1>1 DEF TrInv, TrPlaceOK
<1>3. CASE trConn.tls # 0
  <2>1. TrGoto("dispatch") /\ trConn' = trConn
    BY <1>3 DEF EnsureTlsConnected
  <2>2. TrCallOK' /\ TrOutOK' /\ TrSeenOK' /\ trCall'.pc = "dispatch"
    BY <1>1, <2>1, TrMovesQuietly DEF TrQuiet, TrWaiting, TrAsked
  <2>3. TrSettled'
    BY <1>1, <1>2, <1>3, <2>1 DEF TrFresh, TrSettled, TrUp, TrSpeaksH2
  <2>4. TrPlaceOK'
    BY <2>2, <2>3 DEF TrPlaceOK
  <2> QED  BY <1>1, <2>1, <2>2, <2>4, TrSameBytes
<1>4. CASE trConn.tls = 0
  <2>1. TrGoto("tunnel") /\ trConn' = TrReleaseTls(trConn) /\ TrFresh
    BY <1>2, <1>4 DEF EnsureTlsConnected, TrSettled, TrUp
  <2>2. TrCallOK' /\ TrOutOK' /\ TrSeenOK' /\ trCall'.pc = "tunnel"
    BY <1>1, <2>1, TrMovesQuietly DEF TrQuiet, TrWaiting, TrAsked
  <2>3. trConn' = trConn
    BY <2>1 DEF TrInv, TrFresh, TrUntouched, TrLinked, TrReleaseTls, TrConns
  <2>4. TrFresh'
    BY <1>1, <2>1, <2>3 DEF TrFresh, TrUntouched
  <2>5. TrPlaceOK'
    BY <1>2, <2>2, <2>4 DEF TrPlaceOK
  <2> QED  BY <1>1, <2>2, <2>3, <2>5, TrSameBytes
<1> QED  BY <1>3, <1>4

\* What the proxy, or the origin, is shown in a handshake.
LEMMA TrShowsConnect ==
  ASSUME TrInv, trCall.pc # "idle", trWire.peer = "proxy", trWire.tls = 0,
         trSeen' = trSeen \cup TrShow(trWire, "connect")
                     \cup (IF trRoute.auth THEN TrShow(trWire, "credentials") ELSE {})
  PROVE  TrHistory(trSeen', trCall.number, trCall.attempt, trCall.pc \in TrAsked)
<1>1. /\ TrHistory(trSeen, trCall.number, trCall.attempt, trCall.pc \in TrAsked)
      /\ trCall.number \in Nat \ {0} /\ trCall.attempt \in {1, 2}
  BY DEF TrInv, TrSeenOK, TrCallOK
<1>2. \A what \in {"connect", "credentials"} : \A e \in TrShow(trWire, what) : TrEventOK(e)
  BY DEF TrShow, TrEventOK
<1>3. TrHistory(trSeen \cup TrShow(trWire, "connect"), trCall.number, trCall.attempt, trCall.pc \in TrAsked)
  BY <1>1, <1>2, TrHistoryShows
<1>4. TrHistory(trSeen \cup TrShow(trWire, "connect") \cup TrShow(trWire, "credentials"),
                trCall.number, trCall.attempt, trCall.pc \in TrAsked)
  BY <1>1, <1>2, <1>3, TrHistoryShows
<1>5. CASE trRoute.auth
  BY <1>4, <1>5
<1>6. CASE ~trRoute.auth
  <2>1. trSeen' = trSeen \cup TrShow(trWire, "connect")
    BY <1>6
  <2> QED  BY <1>3, <2>1
<1> QED  BY <1>5, <1>6

\* TLS is begun with the origin only.
LEMMA TrShowsHello ==
  ASSUME TrInv, trCall.pc # "idle", trWire.peer = "origin"
  PROVE  TrHistory(trSeen \cup TrShow(trWire, "hello"), trCall.number, trCall.attempt, trCall.pc \in TrAsked)
<1>1. /\ TrHistory(trSeen, trCall.number, trCall.attempt, trCall.pc \in TrAsked)
      /\ trCall.number \in Nat \ {0} /\ trCall.attempt \in {1, 2}
  BY DEF TrInv, TrSeenOK, TrCallOK
<1>2. \A e \in TrShow(trWire, "hello") : TrEventOK(e)
  BY DEF TrShow, TrEventOK
<1> QED  BY <1>1, <1>2, TrHistoryShows

\* The tunnel is asked of the proxy, before TLS and once per socket.
LEMMA EstablishProxyTunnelKeeps ==
  ASSUME TrInv, EstablishProxyTunnel, trRoute' = trRoute, trServer' = trServer
  PROVE  TrInv'
<1>1. trCall.pc = "tunnel"
  BY DEF EstablishProxyTunnel
<1>2. trRoute.https /\ TrFresh
  BY <1>1 DEF TrInv, TrPlaceOK
<1>3. CASE ~TrNeedsTunnel
  <2>1. TrGoto("handshake") /\ UNCHANGED <<trConn, trWire, trOut, trSeen>>
    BY <1>3 DEF EstablishProxyTunnel
  <2>2. TrCallOK' /\ TrOutOK' /\ TrSeenOK' /\ trCall'.pc = "handshake"
    BY <1>1, <2>1, TrMovesQuietly DEF TrQuiet, TrWaiting, TrAsked
  <2>3. TrFresh' /\ (trRoute'.proxied => trConn'.tunnel)
    BY <1>2, <1>3, <2>1 DEF TrFresh, TrUntouched, TrNeedsTunnel
  <2>4. TrPlaceOK'
    BY <1>2, <2>2, <2>3 DEF TrPlaceOK
  <2> QED  BY <2>1, <2>2, <2>4, TrSameBytes
<1>4. CASE TrNeedsTunnel
  <2>1. trRoute.proxied /\ ~trConn.tunnel /\ trConn.up
    BY <1>2, <1>4 DEF TrNeedsTunnel, TrFresh
  <2>2. trWire.peer = "proxy" /\ trWire.tls = 0 /\ trWire.speaks = "start" /\ trWire.in = <<>> /\ trWire.alpn = ""
    BY <1>2, <2>1 DEF TrInv, TrLinked, TrFresh, TrUntouched
  <2>3. /\ trWire.alive
        /\ trSeen' = trSeen \cup TrShow(trWire, "connect")
                       \cup (IF trRoute.auth THEN TrShow(trWire, "credentials") ELSE {})
    BY <1>4 DEF EstablishProxyTunnel
  <2>4. TrHistory(trSeen', trCall.number, trCall.attempt, trCall.pc \in TrAsked)
    BY <1>1, <2>2, <2>3, TrShowsConnect
  <2>5. CASE /\ trWire' = TrPeerConnect(trWire, TRUE)
             /\ trConn' = [trConn EXCEPT !.tunnel = TRUE]
             /\ TrGoto("handshake") /\ UNCHANGED trOut
    <3>1. TrCallOK' /\ trCall'.pc = "handshake" /\ trCall'.status # "SUCCESS"
          /\ trCall'.number = trCall.number /\ trCall'.attempt = trCall.attempt
      BY <1>1, <2>5, TrMoves DEF TrWaiting
    <3>2. trWire' = [trWire EXCEPT !.peer = "origin"]
      BY <2>2, <2>5 DEF TrPeerConnect
    <3>3. trConn' \in TrConns /\ trWire' \in TrWires
      BY <2>5, <3>2 DEF TrInv, TrConns, TrWires
    <3>4. /\ trWire'.peer = "origin" /\ trWire'.alive /\ trWire'.tls = 0 /\ trWire'.alpn = "" /\ trWire'.speaks = "start"
          /\ trWire'.in = <<>>
          /\ trConn'.tunnel /\ trConn'.up /\ trConn'.tls = 0 /\ trConn'.alpn = "" /\ ~trConn'.http2
          /\ trConn'.replay = <<>>
      BY <1>2, <2>2, <2>3, <2>5, <3>2 DEF TrInv, TrConns, TrWires, TrFresh, TrUntouched, TrLinked
    <3>5. TrLinked'
      BY <1>2, <3>4 DEF TrLinked
    <3>6. TrFresh'
      BY <3>4 DEF TrFresh, TrUntouched
    <3>7. TrPlaceOK'
      BY <1>2, <3>1, <3>4, <3>6 DEF TrPlaceOK
    <3>8. TrOutOK'
      BY <1>1, <2>5, <3>1 DEF TrInv, TrOutOK, LastAttemptDelivers, TrQuiet, TrWaiting
    <3>9. TrSeenOK'
      BY <2>4, <3>1, TrHistoryAsked, TrSeenFrame, <1>1 DEF TrAsked
    <3> QED  BY <3>1, <3>3, <3>5, <3>7, <3>8, <3>9 DEF TrInv
  <2>6. ASSUME NEW status, TrReturn(TrPhaseStatus(status), trConn, TrPeerConnect(trWire, FALSE), FALSE, 1)
        PROVE  TrInv'
    <3>1. TrPeerConnect(trWire, FALSE).confused = FALSE
      BY <2>2 DEF TrPeerConnect, TrInv, TrWires
    <3>2. TrHistory(trSeen', trCall.number, trCall.attempt, TRUE)
      BY <2>4, TrHistoryAsked
    <3> QED  BY <1>1, <2>6, <3>1, <3>2, TrReturned
  <2> QED  BY <1>4, <2>5, <2>6 DEF EstablishProxyTunnel
<1> QED  BY <1>3, <1>4

\* A version that both ends have is one the options allow.
LEMMA TrVersionsAreAllowed ==
  ASSUME TrInv, TrVersions # {}
  PROVE  TrVersion \in {12, 13} /\ TrVersion \in trRoute.min .. trRoute.max
<1>1. /\ trServer.tls \subseteq {12, 13} /\ trRoute.min \in {12, 13} /\ trRoute.max \in {12, 13}
  BY TrRouteIs DEF TrInv, TrIsRoute
<1>2. TrVersions \subseteq {12, 13} /\ TrVersions \subseteq trRoute.min .. trRoute.max
  BY <1>1 DEF TrVersions
<1>3. TrVersion \in TrVersions
  BY <1>2 DEF TrVersion
<1> QED  BY <1>2, <1>3

\* The handshake and the adoption of its TLS transport (ConnectTlsOnExistingSocket).
LEMMA ConnectTlsKeeps ==
  ASSUME TrInv, ConnectTlsOnExistingSocket, trRoute' = trRoute, trServer' = trServer
  PROVE  TrInv'
<1>1. /\ trCall.pc = "handshake" /\ trWire.alive /\ TrVersions # {}
      /\ trSeen' = trSeen \cup TrShow(trWire, "hello")
      /\ trWire' = TrPeerHello(trWire, TrVersion, TrAlpn)
      /\ trConn' = TrAdoptTls(trConn, TrVersion, TrAlpn)
      /\ TrGoto("dispatch") /\ trOut' = trOut
  BY DEF ConnectTlsOnExistingSocket
<1>2. trRoute.https /\ TrFresh /\ (trRoute.proxied => trConn.tunnel)
  BY <1>1 DEF TrInv, TrPlaceOK
<1>3. trWire.peer = "origin" /\ trWire.tls = 0 /\ trWire.speaks = "start" /\ trWire.in = <<>> /\ trConn.replay = <<>>
      /\ trConn.up /\ ~trConn.http2
  BY <1>2 DEF TrInv, TrLinked, TrFresh, TrUntouched
<1>4. TrVersion \in {12, 13} /\ TrVersion \in trRoute.min .. trRoute.max
  BY <1>1, TrVersionsAreAllowed
<1>5. TrAlpn \in {"", "h2", "http/1.1"}
  BY DEF TrAlpn
<1>6. trWire' = [trWire EXCEPT !.tls = TrVersion, !.alpn = TrAlpn]
  BY <1>1, <1>3 DEF TrPeerHello
<1>7. trConn' = [trConn EXCEPT !.tls = TrVersion, !.alpn = TrAlpn]
  BY <1>1 DEF TrAdoptTls
<1> HIDE DEF TrVersion, TrAlpn
<1>8. trConn' \in TrConns /\ trWire' \in TrWires
  BY <1>4, <1>5, <1>6, <1>7 DEF TrInv, TrConns, TrWires
<1>9. /\ trWire'.tls = TrVersion /\ trConn'.tls = TrVersion /\ trWire'.alpn = trConn'.alpn
      /\ trWire'.peer = "origin" /\ trWire'.alive = trWire.alive /\ trWire'.speaks = "start" /\ trWire'.in = <<>>
      /\ trConn'.up /\ trConn'.tunnel = trConn.tunnel /\ ~trConn'.http2 /\ trConn'.replay = <<>>
  BY <1>3, <1>6, <1>7 DEF TrInv, TrConns, TrWires
<1>10. TrVersion # 0
  BY <1>4
<1>11. TrLinked'
  BY <1>1, <1>2, <1>4, <1>9, <1>10 DEF TrInv, TrLinked
<1>12. TrReady'
  BY <1>2, <1>9, <1>10 DEF TrReady, TrUp, TrUntouched
<1>13. TrCallOK' /\ trCall'.pc = "dispatch" /\ trCall'.status # "SUCCESS"
       /\ trCall'.number = trCall.number /\ trCall'.attempt = trCall.attempt
  BY <1>1, TrMoves DEF TrWaiting
<1>14. TrPlaceOK'
  BY <1>12, <1>13 DEF TrPlaceOK
<1>15. TrOutOK'
  BY <1>1, <1>13 DEF TrInv, TrOutOK, LastAttemptDelivers, TrQuiet, TrWaiting
<1>16. TrSeenOK'
  <2>1. TrHistory(trSeen', trCall.number, trCall.attempt, trCall.pc \in TrAsked)
    BY <1>1, <1>3, TrShowsHello
  <2> QED  BY <1>1, <1>13, <2>1, TrHistoryAsked, TrSeenFrame DEF TrAsked
<1> QED  BY <1>8, <1>11, <1>13, <1>14, <1>15, <1>16 DEF TrInv

\* A handshake that fails: once more with TLS 1.2 on a new socket, or the end.
LEMMA TrHandshakeFailsKeeps ==
  ASSUME TrInv, NEW failure, TrHandshakeFails(failure), trRoute' = trRoute, trServer' = trServer
  PROVE  TrInv'
<1> DEFINE told == IF trWire.alive THEN TrPeerHello(trWire, 0, "") ELSE trWire
           status == IF failure = "early" THEN "DISCONNECTED" ELSE "HANDSHAKE_FAILED"
           fault == IF failure = "version" \/ ~trWire.alive THEN 0 ELSE 1
<1>1. /\ trCall.pc = "handshake"
      /\ trSeen' = trSeen \cup (IF trWire.alive THEN TrShow(trWire, "hello") ELSE {})
  BY DEF TrHandshakeFails
<1>2. trRoute.https /\ TrFresh /\ (trRoute.proxied => trConn.tunnel)
  BY <1>1 DEF TrInv, TrPlaceOK
<1>3. trWire.peer = "origin" /\ trWire.tls = 0 /\ trWire.speaks = "start" /\ trConn.replay = <<>> /\ trConn.tls = 0
      /\ ~trConn.http2 /\ trConn.alpn = ""
  BY <1>2 DEF TrInv, TrLinked, TrFresh, TrUntouched
<1>4. told.confused = FALSE
  BY <1>3 DEF TrPeerHello, TrInv, TrWires
<1>5. TrHistory(trSeen', trCall.number, trCall.attempt, trCall.pc \in TrAsked)
  <2>1. CASE trWire.alive
    <3>1. trSeen' = trSeen \cup TrShow(trWire, "hello")
      BY <1>1, <2>1
    <3> QED  BY <1>1, <1>3, <3>1, TrShowsHello
  <2>2. CASE ~trWire.alive
    <3>1. trSeen' = trSeen
      BY <1>1, <2>2
    <3> QED  BY <3>1 DEF TrInv, TrSeenOK
  <2> QED  BY <2>1, <2>2
<1>6. CASE TrReturn(TrPhaseStatus(status), trConn, told, FALSE, fault)
  <2>1. TrHistory(trSeen', trCall.number, trCall.attempt, TRUE)
    BY <1>5, TrHistoryAsked
  <2> HIDE DEF told, status, fault
  <2> QED  BY <1>1, <1>4, <1>6, <2>1, TrReturned
<1>7. CASE /\ trConn' = TrCloseTransportResources(trConn)
           /\ trWire' = [TrDeadWire EXCEPT !.confused = told.confused]
           /\ trCall' = [trCall EXCEPT !.pc = "connect", !.phase = "confirm", !.original = status,
                                       !.address = 0, !.faults = @ + fault]
           /\ UNCHANGED trOut
  <2> HIDE DEF told, status, fault
  <2>1. TrGone'
    BY <1>3, <1>4, <1>7 DEF TrInv, TrConns, TrGone, TrNoConn, TrDeadWire, TrCloseTransportResources, TrReleaseTls
  <2>2. /\ TrCallShape
        /\ trCall.status # "SUCCESS"
    BY <1>1 DEF TrInv, TrCallOK
  <2>3. /\ trCall'.pc = "connect" /\ trCall'.number = trCall.number /\ trCall'.attempt = trCall.attempt
        /\ trCall'.status = trCall.status /\ trCall'.request = trCall.request /\ trCall'.phase = "confirm"
        /\ trCall'.earlier = trCall.earlier
    BY <1>7, <2>2
  <2>4. TrCallShape'
    BY <1>7, <2>2
  <2>5. TrCallOK'
    BY <1>1, <1>2, <2>2, <2>3, <2>4 DEF TrInv, TrCallOK, TrWaiting, TrEarlyStatus, RequestUsesExpectContinue
  <2>6. TrPlaceOK' /\ TrLinked' /\ trConn' \in TrConns /\ trWire' \in TrWires
    BY <2>1, <2>3, EmptySeq DEF TrGone, TrNoConn, TrDeadWire, TrPlaceOK, TrLinked, TrConns, TrWires
  <2>7. TrOutOK'
    BY <1>1, <1>7, <2>2, <2>3 DEF TrInv, TrOutOK, LastAttemptDelivers, TrQuiet, TrWaiting
  <2>8. TrSeenOK'
    BY <1>1, <1>5, <2>3, TrSeenFrame DEF TrAsked
  <2> QED  BY <2>5, <2>6, <2>7, <2>8 DEF TrInv
<1> QED  BY <1>6, <1>7 DEF TrHandshakeFails

----------------------------------------
(* The choice of the protocol, HTTP/1.1 *)

\* Every way a dispatched request can go is one the connection is ready for.
LEMMA TrDispatchKeeps ==
  ASSUME TrInv, TrDispatch, trRoute' = trRoute, trServer' = trServer
  PROVE  TrInv'
<1>1. trCall.pc = "dispatch" /\ (TrReady \/ TrSettled) /\ TrUp
  BY DEF TrDispatch, TrInv, TrPlaceOK, TrReady, TrSettled
<1>2. TrEarlyStatus(trCall.request) = ""
  BY <1>1 DEF TrInv, TrCallOK
<1>3. ASSUME NEW p \in {"upgrade", "http1", "http2"}, TrGoto(p), UNCHANGED <<trConn, trWire, trOut, trSeen>>,
             p = "upgrade" => TrReady /\ trRoute.clear = "upgrade",
             p = "http1" => ~TrSpeaksH2, p = "http2" => TrSpeaksH2
      PROVE  TrInv'
  <2>1. TrCallOK' /\ TrOutOK' /\ TrSeenOK' /\ trCall'.pc = p
    BY <1>1, <1>3, TrMovesQuietly DEF TrQuiet, TrWaiting, TrAsked
  <2>2. TrReady' = TrReady /\ TrSettled' = TrSettled /\ TrSpeaksH2' = TrSpeaksH2
    BY <1>3 DEF TrReady, TrSettled, TrUp, TrUntouched, TrSpeaksH2
  <2>3. TrPlaceOK'
    BY <1>1, <1>3, <2>1, <2>2 DEF TrPlaceOK
  <2> QED  BY <1>3, <2>1, <2>3, TrSameBytes
<1>4. CASE trRoute.clear = "upgrade" /\ ~trConn.http2
  <2>1. TrGoto("upgrade") /\ UNCHANGED <<trConn, trWire, trOut, trSeen>>
    BY <1>4 DEF TrDispatch
  <2>2. TrReady
    BY <1>1, <1>4 DEF TrSettled, TrSpeaksH2
  <2> QED  BY <1>3, <1>4, <2>1, <2>2
<1>5. CASE trRoute.clear # "off" /\ (trRoute.clear # "upgrade" \/ trConn.http2)
  <2>1. TrGoto("http2") /\ UNCHANGED <<trConn, trWire, trOut, trSeen>>
    BY <1>5 DEF TrDispatch
  <2>2. TrSpeaksH2
    BY <1>5 DEF TrSpeaksH2
  <2> QED  BY <1>3, <2>1, <2>2
<1>6. CASE trRoute.clear = "off" /\ TrSpeaksHttp2
  <2>1. CASE RequestUsesExpectContinue(trCall.request) \/ trConn.alpn # "h2"
    <3>1. TrFail("NOT_SUPPORTED", 0)
      BY <1>6, <2>1 DEF TrDispatch
    <3> QED  BY <1>1, <3>1, TrFailed
  <2>2. CASE ~(RequestUsesExpectContinue(trCall.request) \/ trConn.alpn # "h2")
    <3>1. TrGoto("http2") /\ UNCHANGED <<trConn, trWire, trOut, trSeen>>
      BY <1>6, <2>2 DEF TrDispatch
    <3>2. TrSpeaksH2
      BY <2>2 DEF TrSpeaksH2
    <3> QED  BY <1>3, <3>1, <3>2
  <2> QED  BY <2>1, <2>2
<1>7. CASE trRoute.clear = "off" /\ ~TrSpeaksHttp2
  <2>1. TrGoto("http1") /\ UNCHANGED <<trConn, trWire, trOut, trSeen>>
    BY <1>7 DEF TrDispatch
  <2>2. ~TrSpeaksH2
    BY <1>1, <1>7 DEF TrSpeaksHttp2, TrSpeaksH2, TrInv, TrLinked, TrUp
  <2> QED  BY <1>3, <2>1, <2>2
<1> QED  BY <1>4, <1>5, <1>6, <1>7

\* A sequence of one.
LEMMA TrOneUnit ==
  ASSUME NEW S, NEW x \in S
  PROVE  <<x>> \in Seq(S)
  OBVIOUS

\* One behind one.
LEMMA TrTwoUnits ==
  ASSUME NEW x, NEW y
  PROVE  <<x>> \o <<y>> = <<x, y>>
<1> DEFINE S == {x, y}
           u == <<x>>
           v == <<y>>
           w == <<x, y>>
<1>1. u \in Seq(S) /\ v \in Seq(S) /\ w \in Seq(S)
  OBVIOUS
<1>2. Len(u) = 1 /\ Len(v) = 1 /\ Len(w) = 2 /\ u[1] = x /\ v[1] = y /\ w[1] = x /\ w[2] = y
  OBVIOUS
<1> HIDE DEF S, u, v, w
<1>3. /\ u \o v \in Seq(S) /\ Len(u \o v) = Len(u) + Len(v)
      /\ \A i \in 1 .. Len(u) + Len(v) : (u \o v)[i] = IF i <= Len(u) THEN u[i] ELSE v[i - Len(u)]
  BY <1>1, ConcatProperties
<1>4. (u \o v)[1] = x /\ (u \o v)[2] = y /\ Len(u \o v) = 2
  BY <1>2, <1>3
<1>5. \A i \in 1 .. Len(u \o v) : (u \o v)[i] = w[i]
  BY <1>2, <1>4
<1>6. u \o v = w
  BY <1>1, <1>2, <1>3, <1>4, <1>5, SeqEqual
<1> QED  BY <1>6 DEF u, v, w

\* A request is shown to the far end its route is for, once in an attempt.
LEMMA TrShowsRequest ==
  ASSUME TrInv, trCall.pc \in TrWaiting, TrUp
  PROVE  TrHistory(trSeen \cup TrShow(trWire, "request"), trCall.number, trCall.attempt, TRUE)
<1>1. /\ TrHistory(trSeen, trCall.number, trCall.attempt, FALSE)
      /\ trCall.number \in Nat \ {0} /\ trCall.attempt \in {1, 2}
  <2>1. trCall.pc \notin TrAsked /\ trCall.pc # "idle"
    BY DEF TrWaiting, TrAsked
  <2>2. TrHistory(trSeen, trCall.number, trCall.attempt, trCall.pc \in TrAsked)
    BY DEF TrInv, TrSeenOK
  <2>3. TrHistory(trSeen, trCall.number, trCall.attempt, FALSE)
    <3>1. trCall.pc \in TrAsked => FALSE
      BY <2>1
    <3> QED  BY <2>2, <3>1 DEF TrHistory
  <2> QED  BY <2>1, <2>3 DEF TrInv, TrCallOK
<1>2. \A e \in TrShow(trWire, "request") : e.what = "request" /\ e.who = trWire.peer /\ e.tls = trWire.tls
  BY DEF TrShow
<1>3. /\ trRoute.https => trWire.peer = "origin" /\ trWire.tls \in trRoute.min .. trRoute.max
      /\ ~trRoute.https => trWire.peer = IF trRoute.proxied THEN "proxy" ELSE "origin"
  BY DEF TrInv, TrLinked, TrUp
<1>4. \A e \in TrShow(trWire, "request") : TrEventOK(e)
  BY <1>2, <1>3 DEF TrEventOK
<1> QED  BY <1>1, <1>4, TrHistoryRequest

\* An HTTP/1.1 request goes to the origin, or to the proxy when it is plain.
LEMMA TrSendHttp1Keeps ==
  ASSUME TrInv, TrSendHttp1, trRoute' = trRoute, trServer' = trServer
  PROVE  TrInv'
<1> DEFINE asked == trSeen \cup TrShow(trWire, "request")
           charged == trRoute.proxied /\ trRoute.auth /\ ~trRoute.https
<1>1. /\ trCall.pc = "http1" /\ trWire.alive /\ TrGoto("response")
      /\ trSeen' = asked \cup (IF charged THEN TrShow(trWire, "credentials") ELSE {})
      /\ trWire' = TrPeerHttp1(trWire, FALSE) /\ trConn' = trConn /\ trOut' = trOut
  BY DEF TrSendHttp1
<1>2. ~TrSpeaksH2 /\ (TrReady \/ TrSettled) /\ TrUp
  BY <1>1 DEF TrInv, TrPlaceOK, TrReady, TrSettled
<1>3. ~trConn.http2 /\ trConn.replay = <<>> /\ trWire.speaks \in {"start", "h1"} /\ trWire.alpn # "h2" /\ trConn.up
  <2>1. trConn.up /\ trWire.alpn # "h2"
    BY <1>2 DEF TrInv, TrLinked, TrUp, TrSpeaksH2
  <2>2. CASE TrReady
    BY <2>1, <2>2 DEF TrReady, TrUntouched
  <2>3. CASE TrSettled
    <3>1. ~trConn.http2
      BY <1>2, <2>3 DEF TrSettled
    <3> QED  BY <2>1, <2>3, <3>1 DEF TrSettled
  <2> QED  BY <1>2, <2>1, <2>2, <2>3
<1>4. trWire' = [trWire EXCEPT !.speaks = "h1", !.in = @ \o <<"response">>]
  BY <1>1, <1>3 DEF TrPeerHttp1
<1>5. trConn' \in TrConns /\ trWire' \in TrWires
  <2>1. trWire.in \o <<"response">> \in Seq(TrUnitKinds)
    <3>1. trWire.in \in Seq(TrUnitKinds)
      BY DEF TrInv, TrWires
    <3>2. <<"response">> \in Seq(TrUnitKinds)
      BY TrOneUnit DEF TrUnitKinds
    <3> QED  BY <3>1, <3>2, ConcatProperties
  <2> QED  BY <1>1, <1>4, <2>1 DEF TrInv, TrWires
<1>6. /\ trWire'.alive /\ trWire'.tls = trWire.tls /\ trWire'.alpn = trWire.alpn
      /\ trWire'.peer = trWire.peer /\ trWire'.speaks = "h1"
  BY <1>1, <1>4 DEF TrInv, TrWires
<1>7. TrLinked'
  BY <1>1, <1>3, <1>6 DEF TrInv, TrLinked
<1>8. TrCallOK' /\ trCall'.pc = "response" /\ trCall'.status # "SUCCESS"
      /\ trCall'.number = trCall.number /\ trCall'.attempt = trCall.attempt
  BY <1>1, TrMoves DEF TrAsked
<1>9. TrPlaceOK'
  BY <1>1, <1>2, <1>3, <1>6, <1>8 DEF TrPlaceOK, TrUp, TrSpeaksH2
<1>10. TrOutOK'
  BY <1>1, <1>8 DEF TrInv, TrOutOK, LastAttemptDelivers, TrQuiet, TrWaiting
<1>11. TrHistory(asked, trCall.number, trCall.attempt, TRUE)
  BY <1>1, <1>2, TrShowsRequest DEF TrWaiting
<1>12. TrHistory(trSeen', trCall.number, trCall.attempt, TRUE)
  <2>1. CASE charged
    <3>1. trWire.peer = "proxy" /\ trWire.tls = 0
      BY <1>3, <2>1 DEF TrInv, TrLinked
    <3>2. \A e \in TrShow(trWire, "credentials") : TrEventOK(e)
      BY <3>1 DEF TrShow, TrEventOK
    <3>3. trCall.number \in Nat \ {0} /\ trCall.attempt \in {1, 2}
      BY <1>1 DEF TrInv, TrCallOK
    <3>4. trSeen' = asked \cup TrShow(trWire, "credentials")
      BY <1>1, <2>1
    <3> HIDE DEF asked
    <3> QED  BY <1>11, <3>2, <3>3, <3>4, TrHistoryShows
  <2>2. CASE ~charged
    <3>1. trSeen' = asked
      BY <1>1, <2>2
    <3> QED  BY <1>11, <3>1
  <2> QED  BY <2>1, <2>2
<1>13. TrSeenOK'
  BY <1>8, <1>12, TrSeenFrame DEF TrAsked
<1> QED  BY <1>5, <1>7, <1>8, <1>9, <1>10, <1>13 DEF TrInv

\* A request that is over leaves its connection settled, or gone.
LEMMA TrFinished ==
  ASSUME TrInv, trRoute' = trRoute, trCall'.pc = "done", TrUp, NEW in \in Seq(TrUnitKinds),
         trConn.http2 <=> TrSpeaksH2, ~trWire.alive => in = <<>>,
         trConn.http2 => trWire.speaks = "h2" /\ in \in TrLeftovers,
         ~trConn.http2 => trWire.speaks = "h1",
         NEW keep, TrRelease(trConn, [trWire EXCEPT !.in = in], keep)
  PROVE  trConn' \in TrConns /\ trWire' \in TrWires /\ TrLinked' /\ TrPlaceOK'
<1>1. CASE keep /\ trRoute.pooled
  <2>1. trConn' = [trConn EXCEPT !.replay = <<>>] /\ trWire' = [trWire EXCEPT !.in = in]
    BY <1>1 DEF TrRelease
  <2>2. trConn' \in TrConns /\ trWire' \in TrWires
    BY <2>1, EmptySeq DEF TrInv, TrConns, TrWires
  <2>3. /\ trConn'.up = trConn.up /\ trConn'.tunnel = trConn.tunnel /\ trConn'.tls = trConn.tls
        /\ trConn'.alpn = trConn.alpn /\ trConn'.http2 = trConn.http2 /\ trConn'.replay = <<>>
        /\ trWire'.alive = trWire.alive /\ trWire'.peer = trWire.peer /\ trWire'.tls = trWire.tls
        /\ trWire'.alpn = trWire.alpn /\ trWire'.speaks = trWire.speaks /\ trWire'.in = in
    BY <2>1 DEF TrInv, TrConns, TrWires
  <2>4. TrLinked'
    BY <2>3 DEF TrInv, TrLinked
  <2>5. TrSettled'
    BY <2>3 DEF TrSettled, TrUp, TrSpeaksH2
  <2>6. TrPlaceOK'
    BY <2>3, <2>5 DEF TrPlaceOK
  <2> QED  BY <2>2, <2>4, <2>6
<1>2. CASE ~(keep /\ trRoute.pooled)
  <2>1. TrGone'
    BY <1>2 DEF TrInv, TrWires, TrRelease, TrGone, TrDeadWire
  <2> QED  BY <2>1, EmptySeq DEF TrGone, TrNoConn, TrDeadWire, TrPlaceOK, TrLinked, TrConns, TrWires
<1> QED  BY <1>1, <1>2

\* The answer of HTTP/1.1, and the connection kept or closed behind it.
LEMMA TrReadHttp1Keeps ==
  ASSUME TrInv, NEW reusable \in BOOLEAN, TrReadHttp1(reusable), trRoute' = trRoute, trServer' = trServer
  PROVE  TrInv'
<1>1. /\ trCall.pc = "response" /\ trWire.in # <<>> /\ trSeen' = trSeen
      /\ TrReturn("SUCCESS", trConn, [trWire EXCEPT !.in = Tail(@)], reusable, 0)
  BY DEF TrReadHttp1
<1>2. ~ShouldRetryWithFreshConnection(trCall, "SUCCESS")
  BY DEF ShouldRetryWithFreshConnection, TrClosedStatuses
<1>3. /\ TrRelease(trConn, [trWire EXCEPT !.in = Tail(@)], reusable)
      /\ trCall' = [trCall EXCEPT !.pc = "done", !.status = "SUCCESS", !.faults = @ + 0]
      /\ trOut' = trOut
  BY <1>1, <1>2 DEF TrReturn
<1>4. TrUp /\ ~TrSpeaksH2 /\ ~trConn.http2 /\ trConn.replay = <<>> /\ trWire.speaks = "h1" /\ trWire.alive
  BY <1>1 DEF TrInv, TrPlaceOK, TrLinked
<1>5. Tail(trWire.in) \in Seq(TrUnitKinds)
  BY <1>1, HeadTailProperties DEF TrInv, TrWires
<1>6. /\ TrCallShape
  BY DEF TrInv, TrCallOK
<1>7. /\ trCall'.pc = "done" /\ trCall'.number = trCall.number /\ trCall'.attempt = trCall.attempt
      /\ trCall'.request = trCall.request /\ trCall'.phase = trCall.phase /\ trCall'.earlier = trCall.earlier
  BY <1>3, <1>6
<1>8. TrCallOK'
  <2>1. TrCallShape'
    BY <1>3, <1>6
  <2> QED  BY <1>1, <1>7, <2>1 DEF TrInv, TrCallOK, TrAsked
<1>9. trConn' \in TrConns /\ trWire' \in TrWires /\ TrLinked' /\ TrPlaceOK'
  BY <1>3, <1>4, <1>5, <1>7, TrFinished
<1>10. TrOutOK'
  BY <1>1, <1>3, <1>7, TrNotYetWhole DEF TrOutOK, LastAttemptDelivers, TrQuiet, TrWaiting
<1>11. TrSeenOK'
  <2>1. TrHistory(trSeen', trCall.number, trCall.attempt, TRUE)
    BY <1>1, TrHistoryAsked DEF TrInv, TrSeenOK
  <2> QED  BY <1>7, <2>1, TrSeenFrame DEF TrAsked
<1> QED  BY <1>8, <1>9, <1>10, <1>11 DEF TrInv

----------------------------------------
(* Sequences of units *)

\* The answer of the origin: the headers, the DATA frames, the end, and a late PING.
LEMMA TrAnswerIs ==
  ASSUME NEW mode
  PROVE  /\ TrAnswer(mode) \in Seq(TrUnitKinds)
         /\ Len(TrAnswer(mode)) = TrChunks + 2 + (IF mode \in TrLateModes THEN 2 ELSE 0)
         /\ TrAnswer(mode)[1] = "headers"
         /\ \A i \in 2 .. TrChunks + 1 : TrAnswer(mode)[i] = "data"
         /\ TrAnswer(mode)[TrChunks + 2] = "end"
         /\ mode \in TrLateModes => TrAnswer(mode)[TrChunks + 3] = "ping-" /\ TrAnswer(mode)[TrChunks + 4] = "-ping"
<1> DEFINE data == [i \in 1..TrChunks |-> "data"]
           late == IF mode \in TrLateModes THEN <<"ping-", "-ping">> ELSE <<>>
<1>1. TrChunks \in Nat
  BY TrConstants
<1>2. data \in Seq(TrUnitKinds) /\ Len(data) = TrChunks /\ \A i \in 1..TrChunks : data[i] = "data"
  BY <1>1 DEF TrUnitKinds
<1>3. late \in Seq(TrUnitKinds) /\ Len(late) = (IF mode \in TrLateModes THEN 2 ELSE 0)
      /\ (mode \in TrLateModes => late[1] = "ping-" /\ late[2] = "-ping")
  <2>1. <<"ping-", "-ping">> \in Seq(TrUnitKinds)
    BY DEF TrUnitKinds
  <2> QED  BY <2>1, EmptySeq
<1>4. TrAnswer(mode) = <<"headers">> \o data \o <<"end">> \o late
  BY DEF TrAnswer
<1> HIDE DEF data, late
<1>5. <<"headers">> \in Seq(TrUnitKinds) /\ <<"end">> \in Seq(TrUnitKinds)
  BY TrOneUnit DEF TrUnitKinds
<1> DEFINE a == <<"headers">> \o data
           b == a \o <<"end">>
<1>6. a \in Seq(TrUnitKinds) /\ Len(a) = TrChunks + 1 /\ a[1] = "headers"
      /\ \A i \in 2 .. TrChunks + 1 : a[i] = "data"
  <2>1. Len(<<"headers">>) = 1
    OBVIOUS
  <2>2. /\ a \in Seq(TrUnitKinds) /\ Len(a) = 1 + TrChunks
        /\ \A i \in 1 .. 1 + TrChunks : a[i] = IF i <= 1 THEN <<"headers">>[i] ELSE data[i - 1]
    BY <1>2, <1>5, <2>1, ConcatProperties
  <2> HIDE DEF a
  <2>3. ASSUME NEW i \in 2 .. TrChunks + 1  PROVE  a[i] = "data"
    <3>1. i - 1 \in 1 .. TrChunks /\ i \in 1 .. 1 + TrChunks /\ ~(i <= 1)
      BY <1>1
    <3> QED  BY <1>2, <2>2, <3>1
  <2>4. a[1] = "headers"
    BY <1>1, <2>2
  <2> QED  BY <1>1, <2>2, <2>3, <2>4
<1> HIDE DEF a
<1>7. b \in Seq(TrUnitKinds) /\ Len(b) = TrChunks + 2 /\ b[1] = "headers" /\ b[TrChunks + 2] = "end"
      /\ \A i \in 2 .. TrChunks + 1 : b[i] = "data"
  <2> DEFINE e == <<"end">>
  <2>1. Len(e) = 1 /\ e[1] = "end" /\ e \in Seq(TrUnitKinds)
    BY <1>5
  <2> HIDE DEF e
  <2>2. /\ b \in Seq(TrUnitKinds) /\ Len(b) = TrChunks + 1 + 1
        /\ \A i \in 1 .. TrChunks + 1 + 1 : b[i] = IF i <= TrChunks + 1 THEN a[i] ELSE e[i - (TrChunks + 1)]
    <3>1. b = a \o e
      BY DEF e
    <3>2. /\ a \o e \in Seq(TrUnitKinds) /\ Len(a \o e) = Len(a) + Len(e)
          /\ \A i \in 1 .. Len(a) + Len(e) : (a \o e)[i] = IF i <= Len(a) THEN a[i] ELSE e[i - Len(a)]
      BY <1>6, <2>1, ConcatProperties
    <3> HIDE DEF b
    <3> QED  BY <1>6, <2>1, <3>1, <3>2
  <2> HIDE DEF b
  <2>3. b[TrChunks + 2] = "end"
    <3>1. TrChunks + 2 \in 1 .. TrChunks + 1 + 1 /\ ~(TrChunks + 2 <= TrChunks + 1)
          /\ TrChunks + 2 - (TrChunks + 1) = 1
      BY <1>1
    <3> DEFINE j == TrChunks + 2
    <3>2. j \in 1 .. TrChunks + 1 + 1 /\ ~(j <= TrChunks + 1) /\ j - (TrChunks + 1) = 1
      BY <1>1
    <3> HIDE DEF j
    <3>3. b[j] = e[j - (TrChunks + 1)]
      BY <2>2, <3>2
    <3>4. b[j] = "end"
      BY <2>1, <3>2, <3>3
    <3> QED  BY <3>4 DEF j
  <2>4. ASSUME NEW i \in 1 .. TrChunks + 1  PROVE  b[i] = a[i]
    BY <1>1, <2>2
  <2>5. b[1] = "headers" /\ \A i \in 2 .. TrChunks + 1 : b[i] = "data"
    BY <1>1, <1>6, <2>4
  <2> QED  BY <1>1, <2>2, <2>3, <2>5
<1>8. TrAnswer(mode) = b \o late
  BY <1>4 DEF a, b
<1> HIDE DEF b
<1>9. /\ b \o late \in Seq(TrUnitKinds)
      /\ Len(b \o late) = TrChunks + 2 + Len(late)
      /\ \A i \in 1 .. TrChunks + 2 + Len(late) :
           (b \o late)[i] = IF i <= TrChunks + 2 THEN b[i] ELSE late[i - (TrChunks + 2)]
  <2>1. /\ b \o late \in Seq(TrUnitKinds)
        /\ Len(b \o late) = Len(b) + Len(late)
        /\ \A i \in 1 .. Len(b) + Len(late) : (b \o late)[i] = IF i <= Len(b) THEN b[i] ELSE late[i - Len(b)]
    BY <1>3, <1>7, ConcatProperties
  <2> QED  BY <1>7, <2>1
<1>10. ASSUME NEW i \in 1 .. TrChunks + 2  PROVE  TrAnswer(mode)[i] = b[i]
  BY <1>1, <1>3, <1>8, <1>9
<1>11. ASSUME mode \in TrLateModes
       PROVE  TrAnswer(mode)[TrChunks + 3] = "ping-" /\ TrAnswer(mode)[TrChunks + 4] = "-ping"
  <2>1. Len(late) = 2
    BY <1>3, <1>11
  <2>2. /\ TrChunks + 3 \in 1 .. TrChunks + 2 + 2 /\ ~(TrChunks + 3 <= TrChunks + 2) /\ TrChunks + 3 - (TrChunks + 2) = 1
        /\ TrChunks + 4 \in 1 .. TrChunks + 2 + 2 /\ ~(TrChunks + 4 <= TrChunks + 2) /\ TrChunks + 4 - (TrChunks + 2) = 2
    BY <1>1
  <2> DEFINE x == b \o late
  <2>3. \A i \in 1 .. TrChunks + 2 + 2 : x[i] = IF i <= TrChunks + 2 THEN b[i] ELSE late[i - (TrChunks + 2)]
    BY <1>9, <2>1
  <2>4. TrAnswer(mode) = x
    BY <1>8
  <2> HIDE DEF x
  <2>5. ASSUME NEW j, j \in 1 .. TrChunks + 2 + 2, ~(j <= TrChunks + 2)  PROVE  x[j] = late[j - (TrChunks + 2)]
    BY <2>3, <2>5
  <2>6. x[TrChunks + 3] = late[1] /\ x[TrChunks + 4] = late[2]
    <3>1. x[TrChunks + 3] = late[1]
      <4> DEFINE j == TrChunks + 3
      <4>1. j \in 1 .. TrChunks + 2 + 2 /\ ~(j <= TrChunks + 2) /\ j - (TrChunks + 2) = 1
        BY <1>1
      <4> HIDE DEF j
      <4>2. x[j] = late[j - (TrChunks + 2)]
        BY <2>5, <4>1
      <4>3. x[j] = late[1]
        BY <4>1, <4>2
      <4> QED  BY <4>3 DEF j
    <3>2. x[TrChunks + 4] = late[2]
      <4> DEFINE j == TrChunks + 4
      <4>1. j \in 1 .. TrChunks + 2 + 2 /\ ~(j <= TrChunks + 2) /\ j - (TrChunks + 2) = 2
        BY <1>1
      <4> HIDE DEF j
      <4>2. x[j] = late[j - (TrChunks + 2)]
        BY <2>5, <4>1
      <4>3. x[j] = late[2]
        BY <4>1, <4>2
      <4> QED  BY <4>3 DEF j
    <3> QED  BY <3>1, <3>2
  <2> QED  BY <1>3, <1>11, <2>4, <2>6
<1>12. 1 \in 1 .. TrChunks + 2 /\ TrChunks + 2 \in 1 .. TrChunks + 2
       /\ 2 .. TrChunks + 1 \subseteq 1 .. TrChunks + 2
  BY <1>1
<1>13. TrAnswer(mode)[1] = "headers" /\ TrAnswer(mode)[TrChunks + 2] = "end"
  BY <1>7, <1>10, <1>12
<1>14. \A i \in 2 .. TrChunks + 1 : TrAnswer(mode)[i] = "data"
  BY <1>7, <1>10, <1>12
<1> QED  BY <1>3, <1>8, <1>9, <1>11, <1>13, <1>14

\* The same behind what was there before.
LEMMA TrBehind ==
  ASSUME NEW lead \in Seq(TrUnitKinds), NEW mode
  PROVE  /\ lead \o TrAnswer(mode) \in Seq(TrUnitKinds)
         /\ Len(lead \o TrAnswer(mode)) = Len(lead) + TrChunks + 2 + (IF mode \in TrLateModes THEN 2 ELSE 0)
         /\ \A i \in 1 .. Len(lead) : (lead \o TrAnswer(mode))[i] = lead[i]
         /\ \A i \in 1 .. TrChunks + 2 + (IF mode \in TrLateModes THEN 2 ELSE 0) :
              (lead \o TrAnswer(mode))[Len(lead) + i] = TrAnswer(mode)[i]
<1> DEFINE extra == IF mode \in TrLateModes THEN 2 ELSE 0
<1>1. TrAnswer(mode) \in Seq(TrUnitKinds) /\ Len(TrAnswer(mode)) = TrChunks + 2 + extra
  BY TrAnswerIs
<1>2. extra \in Nat /\ TrChunks \in Nat /\ Len(lead) \in Nat
  BY TrConstants, LenProperties
<1> HIDE DEF extra
<1>3. /\ lead \o TrAnswer(mode) \in Seq(TrUnitKinds)
      /\ Len(lead \o TrAnswer(mode)) = Len(lead) + (TrChunks + 2 + extra)
      /\ \A i \in 1 .. Len(lead) + (TrChunks + 2 + extra) :
           (lead \o TrAnswer(mode))[i] = IF i <= Len(lead) THEN lead[i] ELSE TrAnswer(mode)[i - Len(lead)]
  BY <1>1, ConcatProperties
<1>4. \A i \in 1 .. Len(lead) : (lead \o TrAnswer(mode))[i] = lead[i]
  BY <1>2, <1>3
<1>5. ASSUME NEW i \in 1 .. TrChunks + 2 + extra
      PROVE  (lead \o TrAnswer(mode))[Len(lead) + i] = TrAnswer(mode)[i]
  <2>1. Len(lead) + i \in 1 .. Len(lead) + (TrChunks + 2 + extra) /\ ~(Len(lead) + i <= Len(lead))
        /\ Len(lead) + i - Len(lead) = i
    BY <1>2
  <2> QED  BY <1>3, <2>1
<1>6. Len(lead) + (TrChunks + 2 + extra) = Len(lead) + TrChunks + 2 + extra
  BY <1>2
<1> QED  BY <1>3, <1>4, <1>5, <1>6 DEF extra

\* What is pending is the bytes kept for replay and those not yet received.
LEMMA TrPendingIs ==
  ASSUME TrInv
  PROVE  /\ trConn.replay \in Seq(TrUnitKinds) /\ trWire.in \in Seq(TrUnitKinds) /\ TrPending \in Seq(TrUnitKinds)
         /\ Len(TrPending) = Len(trConn.replay) + Len(trWire.in)
         /\ \A i \in 1 .. Len(trConn.replay) + Len(trWire.in) :
              TrPending[i] = IF i <= Len(trConn.replay) THEN trConn.replay[i] ELSE trWire.in[i - Len(trConn.replay)]
         /\ TrNextUnit = IF TrPending = <<>> THEN "nothing" ELSE TrPending[1]
<1>1. trConn.replay \in Seq(TrUnitKinds) /\ trWire.in \in Seq(TrUnitKinds)
  BY DEF TrInv, TrConns, TrWires
<1>2. /\ TrPending \in Seq(TrUnitKinds) /\ Len(TrPending) = Len(trConn.replay) + Len(trWire.in)
      /\ \A i \in 1 .. Len(trConn.replay) + Len(trWire.in) :
           TrPending[i] = IF i <= Len(trConn.replay) THEN trConn.replay[i] ELSE trWire.in[i - Len(trConn.replay)]
  BY <1>1, ConcatProperties DEF TrPending
<1>3. Len(trConn.replay) \in Nat /\ Len(trWire.in) \in Nat
      /\ (trConn.replay = <<>> <=> Len(trConn.replay) = 0) /\ (trWire.in = <<>> <=> Len(trWire.in) = 0)
      /\ (TrPending = <<>> <=> Len(TrPending) = 0)
  BY <1>1, <1>2, LenProperties, EmptySeq
<1>4. CASE trConn.replay # <<>>
  <2>1. TrNextUnit = trConn.replay[1] /\ TrPending # <<>>
    <3>1. TrNextUnit = trConn.replay[1]
      BY <1>1, <1>4 DEF TrNextUnit
    <3>2. Len(TrPending) # 0
      <4>1. Len(trConn.replay) # 0
        BY <1>3, <1>4
      <4>2. Len(TrPending) = Len(trConn.replay) + Len(trWire.in) /\ Len(trConn.replay) \in Nat /\ Len(trWire.in) \in Nat
        BY <1>2, <1>3
      <4> DEFINE a == Len(trConn.replay)
                 b == Len(trWire.in)
                 c == Len(TrPending)
      <4>3. a # 0 /\ c = a + b /\ a \in Nat /\ b \in Nat
        BY <4>1, <4>2
      <4> HIDE DEF a, b, c
      <4>4. c # 0
        BY <4>3
      <4> QED  BY <4>4 DEF c
    <3> QED  BY <1>3, <3>1, <3>2
  <2>2. TrPending[1] = trConn.replay[1]
    <3>1. 1 \in 1 .. Len(trConn.replay) + Len(trWire.in) /\ 1 <= Len(trConn.replay)
      <4>1. Len(trConn.replay) # 0
        BY <1>3, <1>4
      <4>2. Len(trConn.replay) \in Nat /\ Len(trWire.in) \in Nat
        BY <1>3
      <4> DEFINE a == Len(trConn.replay)
                 b == Len(trWire.in)
      <4>3. a # 0 /\ a \in Nat /\ b \in Nat
        BY <4>1, <4>2
      <4> HIDE DEF a, b
      <4>4. 1 \in 1 .. a + b /\ 1 <= a
        BY <4>3
      <4> QED  BY <4>4 DEF a, b
    <3> QED  BY <1>2, <3>1
  <2> QED  BY <1>1, <1>2, <2>1, <2>2
<1>5. CASE trConn.replay = <<>> /\ trWire.in # <<>>
  <2>1. TrNextUnit = trWire.in[1] /\ TrPending # <<>>
    <3>1. TrNextUnit = trWire.in[1]
      BY <1>1, <1>5 DEF TrNextUnit
    <3>2. Len(TrPending) # 0
      BY <1>2, <1>3, <1>5
    <3> QED  BY <1>3, <3>1, <3>2
  <2>2. TrPending[1] = trWire.in[1]
    <3>1. 1 \in 1 .. Len(trConn.replay) + Len(trWire.in) /\ ~(1 <= Len(trConn.replay)) /\ 1 - Len(trConn.replay) = 1
      BY <1>3, <1>5
    <3>2. TrPending[1] = trWire.in[1 - Len(trConn.replay)]
      BY <1>2, <3>1
    <3> QED  BY <3>1, <3>2
  <2> QED  BY <1>1, <1>2, <2>1, <2>2
<1>6. CASE trConn.replay = <<>> /\ trWire.in = <<>>
  <2>1. TrNextUnit = "nothing" /\ TrPending = <<>>
    BY <1>2, <1>3, <1>6 DEF TrNextUnit
  <2> QED  BY <1>1, <1>2, <2>1
<1> QED  BY <1>4, <1>5, <1>6

\* A step that takes n units leaves the rest of what was pending.
LEMMA TrTakes ==
  ASSUME TrInv, NEW n \in Nat, n <= Len(TrPending), NEW h \in BOOLEAN,
         trConn' = [TrConnAfter(n) EXCEPT !.http2 = h], trWire' = TrWireAfter(n)
  PROVE  /\ trConn' \in TrConns /\ trWire' \in TrWires
         /\ trConn'.up = trConn.up /\ trConn'.tunnel = trConn.tunnel /\ trConn'.tls = trConn.tls
         /\ trConn'.alpn = trConn.alpn /\ trConn'.http2 = h
         /\ trWire'.alive = trWire.alive /\ trWire'.peer = trWire.peer /\ trWire'.tls = trWire.tls
         /\ trWire'.alpn = trWire.alpn /\ trWire'.speaks = trWire.speaks
         /\ trConn.replay = <<>> => trConn'.replay = <<>>
         /\ trWire.in = <<>> => trWire'.in = <<>>
         /\ TrPending' \in Seq(TrUnitKinds) /\ Len(TrPending') = Len(TrPending) - n
         /\ \A i \in 1 .. Len(TrPending) - n : TrPending'[i] = TrPending[n + i]
<1> DEFINE r == trConn.replay
           w == trWire.in
           r1 == SubSeq(r, n + 1, Len(r))
           w1 == IF n > Len(r) THEN SubSeq(w, n - Len(r) + 1, Len(w)) ELSE w
<1>1. r \in Seq(TrUnitKinds) /\ w \in Seq(TrUnitKinds) /\ Len(TrPending) = Len(r) + Len(w)
      /\ \A i \in 1 .. Len(r) + Len(w) : TrPending[i] = IF i <= Len(r) THEN r[i] ELSE w[i - Len(r)]
  BY TrPendingIs
<1>2. Len(r) \in Nat /\ Len(w) \in Nat /\ (r = <<>> => Len(r) = 0) /\ (w = <<>> => Len(w) = 0)
  BY <1>1, LenProperties, EmptySeq
<1>3. /\ trConn' = [trConn EXCEPT !.replay = r1, !.http2 = h]
      /\ trWire' = [trWire EXCEPT !.in = w1]
  <2>1. trConn' = [trConn EXCEPT !.replay = r1, !.http2 = h]
    BY DEF TrInv, TrConns, TrConnAfter
  <2>2. CASE n > Len(r)
    <3>1. n - Len(trConn.replay) > 0
      BY <1>2, <2>2
    <3> QED  BY <2>1, <2>2, <3>1 DEF TrWireAfter
  <2>3. CASE ~(n > Len(r))
    <3>1. ~(n - Len(trConn.replay) > 0)
      BY <1>2, <2>3
    <3> QED  BY <2>1, <2>3, <3>1 DEF TrWireAfter, TrInv, TrWires
  <2> QED  BY <2>2, <2>3
<1>4. /\ r1 \in Seq(TrUnitKinds) /\ Len(r1) = (IF n >= Len(r) THEN 0 ELSE Len(r) - n)
      /\ \A i \in 1 .. Len(r) - n : r1[i] = r[n + i]
  <2>1. \A i \in n + 1 .. Len(r) : r[i] \in TrUnitKinds
    BY <1>1, <1>2, ElementOfSeq
  <2> HIDE DEF r
  <2>2. /\ r1 \in Seq(TrUnitKinds) /\ Len(r1) = (IF n + 1 <= Len(r) THEN Len(r) - (n + 1) + 1 ELSE 0)
        /\ \A i \in 1 .. Len(r) - (n + 1) + 1 : r1[i] = r[n + 1 + i - 1]
    <3>1. n + 1 \in Int /\ Len(r) \in Int
      BY <1>2
    <3> QED  BY <2>1, <3>1, SubSeqProperties
  <2> HIDE DEF r1
  <2> QED  BY <1>2, <2>2
<1>5. /\ w1 \in Seq(TrUnitKinds) /\ Len(w1) = (IF n > Len(r) THEN Len(w) + Len(r) - n ELSE Len(w))
      /\ n > Len(r) => \A i \in 1 .. Len(w) + Len(r) - n : w1[i] = w[n - Len(r) + i]
      /\ n <= Len(r) => w1 = w
  <2>1. CASE n > Len(r)
    <3> DEFINE m == n - Len(r) + 1
    <3>1. m \in Nat /\ m >= 1 /\ m <= Len(w) + 1 /\ w1 = SubSeq(w, m, Len(w))
      <4>1. w1 = SubSeq(w, m, Len(w))
        BY <2>1
      <4> HIDE DEF r, w, w1
      <4>2. n <= Len(r) + Len(w)
        BY <1>1
      <4> QED  BY <1>2, <2>1, <4>1, <4>2
    <3>2. \A i \in m .. Len(w) : w[i] \in TrUnitKinds
      BY <1>1, <1>2, <3>1, ElementOfSeq
    <3> HIDE DEF m, w, w1
    <3>3. /\ w1 \in Seq(TrUnitKinds) /\ Len(w1) = (IF m <= Len(w) THEN Len(w) - m + 1 ELSE 0)
          /\ \A i \in 1 .. Len(w) - m + 1 : w1[i] = w[m + i - 1]
      <4>1. m \in Int /\ Len(w) \in Int
        BY <1>2, <3>1
      <4> QED  BY <3>1, <3>2, <4>1, SubSeqProperties
    <3> HIDE DEF r
    <3>4. m = n - Len(r) + 1 /\ n - Len(r) \in Nat
      BY <1>2, <2>1 DEF m
    <3>5. Len(w1) = Len(w) + Len(r) - n
      BY <1>2, <3>1, <3>3, <3>4
    <3>6. ASSUME NEW i \in 1 .. Len(w) + Len(r) - n  PROVE  w1[i] = w[n - Len(r) + i]
      <4>1. i \in 1 .. Len(w) - m + 1 /\ m + i - 1 = n - Len(r) + i
        BY <1>2, <3>4
      <4> QED  BY <3>3, <4>1
    <3>7. ~(n <= Len(r))
      BY <1>2, <2>1
    <3> QED  BY <2>1, <3>3, <3>5, <3>6, <3>7
  <2>2. CASE ~(n > Len(r))
    BY <1>1, <1>2, <2>2
  <2> QED  BY <2>1, <2>2
<1> HIDE DEF r1, w1
<1>6. /\ trConn'.up = trConn.up /\ trConn'.tunnel = trConn.tunnel /\ trConn'.tls = trConn.tls
      /\ trConn'.alpn = trConn.alpn /\ trConn'.http2 = h /\ trConn'.replay = r1
      /\ trWire'.alive = trWire.alive /\ trWire'.peer = trWire.peer /\ trWire'.tls = trWire.tls
      /\ trWire'.alpn = trWire.alpn /\ trWire'.speaks = trWire.speaks /\ trWire'.in = w1
  BY <1>3 DEF TrInv, TrConns, TrWires
<1>7. trConn' \in TrConns /\ trWire' \in TrWires
  BY <1>3, <1>4, <1>5 DEF TrInv, TrConns, TrWires
<1>8. TrPending' = r1 \o w1
  BY <1>6 DEF TrPending
<1>9. /\ TrPending' \in Seq(TrUnitKinds) /\ Len(TrPending') = Len(r1) + Len(w1)
      /\ \A i \in 1 .. Len(r1) + Len(w1) : TrPending'[i] = IF i <= Len(r1) THEN r1[i] ELSE w1[i - Len(r1)]
  <2>1. /\ r1 \o w1 \in Seq(TrUnitKinds) /\ Len(r1 \o w1) = Len(r1) + Len(w1)
        /\ \A i \in 1 .. Len(r1) + Len(w1) : (r1 \o w1)[i] = IF i <= Len(r1) THEN r1[i] ELSE w1[i - Len(r1)]
    <3>1. r1 \in Seq(TrUnitKinds) /\ w1 \in Seq(TrUnitKinds)
      BY <1>4, <1>5
    <3> QED  BY <3>1, ConcatProperties
  <2> QED  BY <1>8, <2>1
<1>10. Len(r1) + Len(w1) = Len(TrPending) - n
  <2> HIDE DEF r, w
  <2>1. /\ Len(r1) = (IF n >= Len(r) THEN 0 ELSE Len(r) - n)
        /\ Len(w1) = (IF n > Len(r) THEN Len(w) + Len(r) - n ELSE Len(w))
        /\ Len(TrPending) = Len(r) + Len(w)
    BY <1>1, <1>4, <1>5
  <2> QED  BY <1>2, <2>1
<1>11. ASSUME NEW i \in 1 .. Len(TrPending) - n  PROVE  TrPending'[i] = TrPending[n + i]
  <2> HIDE DEF r, w
  <2>1. i \in 1 .. Len(r1) + Len(w1) /\ n + i \in 1 .. Len(r) + Len(w)
    BY <1>1, <1>2, <1>10
  <2>2. CASE n + i <= Len(r)
    <3>1. Len(r1) = Len(r) - n /\ i <= Len(r1) /\ i \in 1 .. Len(r) - n
      BY <1>2, <1>4, <2>1, <2>2
    <3> QED  BY <1>1, <1>4, <1>9, <2>1, <2>2, <3>1
  <2>3. CASE ~(n + i <= Len(r)) /\ n > Len(r)
    <3>1. Len(r1) = 0 /\ ~(i <= Len(r1)) /\ i - Len(r1) = i /\ i \in 1 .. Len(w) + Len(r) - n
          /\ n - Len(r) + i = n + i - Len(r)
      BY <1>1, <1>2, <1>4, <2>1, <2>3
    <3>2. TrPending'[i] = w1[i] /\ w1[i] = w[n + i - Len(r)]
      BY <1>5, <1>9, <2>1, <2>3, <3>1
    <3> QED  BY <1>1, <2>1, <2>3, <3>2
  <2>4. CASE ~(n + i <= Len(r)) /\ n <= Len(r)
    <3>1. Len(r1) = Len(r) - n /\ ~(i <= Len(r1)) /\ i - Len(r1) = n + i - Len(r)
      BY <1>2, <1>4, <2>1, <2>4
    <3>2. TrPending'[i] = w1[i - Len(r1)] /\ w1 = w
      BY <1>5, <1>9, <2>1, <2>4, <3>1
    <3> QED  BY <1>1, <2>1, <2>4, <3>1, <3>2
  <2> QED  BY <1>2, <2>1, <2>2, <2>3, <2>4
<1>12. trConn.replay = <<>> => trConn'.replay = <<>>
  <2>1. trConn.replay = <<>> => Len(r1) = 0
    BY <1>2, <1>4
  <2> QED  BY <1>4, <1>6, <2>1, EmptySeq
<1>13. trWire.in = <<>> => trWire'.in = <<>>
  <2>1. trWire.in = <<>> => Len(w1) = 0
    BY <1>1, <1>2, <1>5
  <2> QED  BY <1>5, <1>6, <2>1, EmptySeq
<1> QED  BY <1>6, <1>7, <1>9, <1>10, <1>11, <1>12, <1>13

----------------------------------------
(* The h2c upgrade and the start of HTTP/2 *)

\* HTTP/2 over cleartext is neither over TLS nor through a proxy.
LEMMA TrClearIs ==
  ASSUME TrInv, trCall.pc \notin {"idle", "done"}, trRoute.clear # "off", trConn.up
  PROVE  ~trRoute.https /\ trWire.peer = "origin" /\ trWire.tls = 0 /\ trWire.alpn = ""
<1>1. TrEarlyStatus(trCall.request) = ""
  BY DEF TrInv, TrCallOK
<1>2. ~trRoute.https /\ ~trRoute.proxied
  BY <1>1, TrEarlySays DEF TrInv
<1> QED  BY <1>2 DEF TrInv, TrLinked

\* The request for an upgrade goes to the origin as HTTP/1.1, or is refused.
LEMMA TrSendUpgradeKeeps ==
  ASSUME TrInv, TrSendUpgrade, trRoute' = trRoute, trServer' = trServer
  PROVE  TrInv'
<1>1. trCall.pc = "upgrade" /\ trWire.alive
  BY DEF TrSendUpgrade
<1>2. CASE TrUpgradeRequest # ""
  <2>1. TrFail(TrUpgradeRequest, 0)
    BY <1>2 DEF TrSendUpgrade
  <2> QED  BY <1>1, <2>1, TrFailed
<1>3. CASE TrUpgradeRequest = ""
  <2>1. /\ trSeen' = trSeen \cup TrShow(trWire, "request") /\ trWire' = TrPeerHttp1(trWire, TRUE)
        /\ TrGoto("upgrading") /\ trConn' = trConn /\ trOut' = trOut
    BY <1>3 DEF TrSendUpgrade
  <2>2. TrReady /\ trRoute.clear = "upgrade" /\ trConn.up
    BY <1>1 DEF TrInv, TrPlaceOK, TrReady, TrUp
  <2>3. trWire.speaks = "start" /\ trWire.in = <<>> /\ trWire.alpn = "" /\ ~trConn.http2 /\ trConn.replay = <<>>
    BY <1>1, <2>2, TrClearIs DEF TrReady, TrUntouched
  <2>4. \/ trWire' = [trWire EXCEPT !.speaks = "101", !.in = <<"101">>]
        \/ trWire' = [trWire EXCEPT !.speaks = "h1", !.in = <<"response">>]
    <3>1. <<>> \o <<"101">> = <<"101">> /\ <<>> \o <<"response">> = <<"response">>
      OBVIOUS
    <3>2. CASE trServer.h2
      <4>1. trWire' = [trWire EXCEPT !.speaks = "101", !.in = @ \o <<"101">>]
        BY <2>1, <2>3, <3>2 DEF TrPeerHttp1
      <4> QED  BY <2>3, <3>1, <4>1
    <3>3. CASE ~trServer.h2
      <4>1. trWire' = [trWire EXCEPT !.speaks = "h1", !.in = @ \o <<"response">>]
        BY <2>1, <2>3, <3>3 DEF TrPeerHttp1
      <4> QED  BY <2>3, <3>1, <4>1
    <3> QED  BY <3>2, <3>3
  <2>5. <<"101">> \in Seq(TrUnitKinds) /\ <<"response">> \in Seq(TrUnitKinds)
    BY TrOneUnit DEF TrUnitKinds
  <2>6. trConn' \in TrConns /\ trWire' \in TrWires
    BY <2>1, <2>4, <2>5 DEF TrInv, TrWires
  <2>7. /\ trWire'.alive /\ trWire'.tls = trWire.tls /\ trWire'.alpn = trWire.alpn
        /\ trWire'.peer = trWire.peer
        /\ \/ trWire'.speaks = "101" /\ trWire'.in = <<"101">>
           \/ trWire'.speaks = "h1" /\ trWire'.in = <<"response">>
    BY <1>1, <2>4 DEF TrInv, TrWires
  <2>8. TrLinked'
    BY <2>1, <2>2, <2>7 DEF TrInv, TrLinked
  <2>9. TrCallOK' /\ trCall'.pc = "upgrading" /\ trCall'.status # "SUCCESS"
        /\ trCall'.number = trCall.number /\ trCall'.attempt = trCall.attempt
    BY <1>1, <2>1, TrMoves DEF TrAsked
  <2>10. TrPlaceOK'
    BY <2>1, <2>2, <2>3, <2>7, <2>9 DEF TrPlaceOK, TrUp, TrUpgraded, TrReady
  <2>11. TrOutOK'
    BY <1>1, <2>1, <2>9 DEF TrInv, TrOutOK, LastAttemptDelivers, TrQuiet, TrWaiting
  <2>12. TrHistory(trSeen', trCall.number, trCall.attempt, TRUE)
    BY <1>1, <2>1, <2>2, TrShowsRequest DEF TrWaiting, TrReady
  <2>13. TrSeenOK'
    BY <2>9, <2>12, TrSeenFrame DEF TrAsked
  <2> QED  BY <2>6, <2>8, <2>9, <2>10, <2>11, <2>13 DEF TrInv
<1> QED  BY <1>2, <1>3

\* The origin's first flight stands right behind the 101.
LEMMA TrPeerStartsHttp2Keeps ==
  ASSUME TrInv, TrPeerStartsHttp2
  PROVE  TrInv'
<1> DEFINE a == TrAnswer("upgrade")
<1>1. /\ trCall.pc = "upgrading" /\ trWire.in = <<"101">>
      /\ trWire' = [trWire EXCEPT !.in = @ \o <<"settings">> \o a]
      /\ UNCHANGED <<trRoute, trServer, trConn, trCall, trOut, trSeen>>
  BY DEF TrPeerStartsHttp2
<1>2. a \in Seq(TrUnitKinds)
  BY TrAnswerIs
<1> HIDE DEF a
<1>3. <<"101">> \o <<"settings">> = <<"101", "settings">>
  BY TrTwoUnits
<1>4. <<"101", "settings">> \in Seq(TrUnitKinds)
  BY DEF TrUnitKinds
<1>5. trWire' = [trWire EXCEPT !.in = <<"101", "settings">> \o a]
  BY <1>1, <1>3
<1>6. trWire' \in TrWires
  <2>1. <<"101", "settings">> \o a \in Seq(TrUnitKinds)
    BY <1>2, <1>4, ConcatProperties
  <2> QED  BY <1>5, <2>1 DEF TrInv, TrWires
<1>7. TrUpgraded /\ trConn.replay = <<>> /\ trWire.speaks = "101" /\ trWire.alive
  <2>1. trWire.in # <<>> /\ trWire.in # <<"response">>
    <3>1. <<"101">>[1] # <<"response">>[1] /\ Len(<<"101">>) = 1 /\ Len(<<>>) = 0
      OBVIOUS
    <3> QED  BY <1>1, <3>1
  <2>2. TrUpgraded /\ trConn.replay = <<>> /\ (trWire.speaks = "h1" => trWire.in \in {<<>>, <<"response">>})
        /\ trWire.speaks \in {"101", "h1"}
    BY <1>1 DEF TrInv, TrPlaceOK
  <2> QED  BY <2>1, <2>2 DEF TrInv, TrLinked
<1>8. /\ trWire'.alive /\ trWire'.tls = trWire.tls /\ trWire'.alpn = trWire.alpn /\ trWire'.peer = trWire.peer
      /\ trWire'.speaks = "101" /\ trWire'.in = <<"101", "settings">> \o a
  BY <1>5, <1>7 DEF TrInv, TrWires
<1>9. TrLinked'
  BY <1>1, <1>7, <1>8 DEF TrInv, TrLinked
<1>10. TrPlaceOK'
  <2>1. TrAnswer("upgrade")' = a
    BY DEF TrAnswer, a
  <2>2. TrUpgraded'
    BY <1>1, <1>7 DEF TrUpgraded, TrUp
  <2> QED  BY <1>1, <1>7, <1>8, <2>1, <2>2 DEF TrPlaceOK
<1>11. TrCallOK'
  BY <1>1 DEF TrInv, TrCallOK, TrEarlyStatus, RequestUsesExpectContinue
<1>12. TrOutOK'
  BY <1>1 DEF TrInv, TrOutOK, LastAttemptDelivers, TrQuiet, TrWaiting
<1>13. TrSeenOK'
  BY <1>1 DEF TrInv, TrSeenOK, TrHistory, TrEventOK
<1> QED  BY <1>1, <1>6, <1>9, <1>10, <1>11, <1>12, <1>13 DEF TrInv

\* What is read behind the 101 is kept, what is not read yet follows it.
LEMMA ReadH2cUpgradeResponseKeeps ==
  ASSUME TrInv, ReadH2cUpgradeResponse, trRoute' = trRoute, trServer' = trServer
  PROVE  TrInv'
<1> DEFINE a == TrAnswer("upgrade")
           f == <<"settings">> \o a
           s == trWire.in
<1>1. trCall.pc = "upgrading" /\ s # <<>>
  BY DEF ReadH2cUpgradeResponse
<1>2. CASE ~TrIsUpgraded(Head(trWire.in))
  <2>1. TrFail("NOT_SUPPORTED", 0)
    BY <1>2 DEF ReadH2cUpgradeResponse
  <2> QED  BY <1>1, <2>1, TrFailed
<1>3. CASE TrIsUpgraded(Head(trWire.in))
  <2>1. Len(s) > 1 /\ TrGoto("initialize") /\ trOut' = trOut /\ trSeen' = trSeen
    BY <1>3 DEF ReadH2cUpgradeResponse
  <2>2. PICK n \in 1 .. Len(s) : /\ trConn' = [trConn EXCEPT !.replay = SubSeq(s, 2, n)]
                                 /\ trWire' = [trWire EXCEPT !.in = SubSeq(s, n + 1, Len(s))]
    BY <1>3 DEF ReadH2cUpgradeResponse
  <2>3. TrUpgraded /\ trWire.speaks = "101" /\ s = <<"101", "settings">> \o a /\ trWire.alive
    <3>1. Len(<<>>) = 0 /\ Len(<<"101">>) = 1 /\ Len(<<"response">>) = 1
      OBVIOUS
    <3>2. s \notin {<<>>, <<"101">>, <<"response">>}
      <4>1. ~(0 > 1) /\ ~(1 > 1)
        OBVIOUS
      <4> HIDE DEF s
      <4>2. s # <<>>
        BY <2>1, <3>1, <4>1, Zenon
      <4>3. s # <<"101">>
        BY <2>1, <3>1, <4>1, Zenon
      <4>4. s # <<"response">>
        BY <2>1, <3>1, <4>1, Zenon
      <4> QED  BY <4>2, <4>3, <4>4
    <3>3. trWire.speaks = "101" /\ s = <<"101", "settings">> \o a /\ TrUpgraded
      BY <1>1, <3>2 DEF TrInv, TrPlaceOK
    <3>4. trWire.alive
      BY <1>1 DEF TrInv, TrLinked
    <3> QED  BY <3>3, <3>4
  <2>4. a \in Seq(TrUnitKinds) /\ Len(a) \in Nat
    BY TrAnswerIs, LenProperties
  <2> HIDE DEF a
  <2>5. /\ s \in Seq(TrUnitKinds) /\ Len(s) = 2 + Len(a) /\ f \in Seq(TrUnitKinds) /\ Len(f) = 1 + Len(a)
        /\ \A i \in 1 .. 1 + Len(a) : s[1 + i] = f[i]
    <3>1. <<"101">> \in Seq(TrUnitKinds) /\ <<"settings">> \in Seq(TrUnitKinds)
      BY TrOneUnit DEF TrUnitKinds
    <3>2. <<"101", "settings">> = <<"101">> \o <<"settings">>
      BY TrTwoUnits
    <3>3. s = <<"101">> \o f
      BY <2>3, <2>4, <3>1, <3>2, ConcatAssociative
    <3>4. f \in Seq(TrUnitKinds) /\ Len(f) = 1 + Len(a)
      <4>1. Len(<<"settings">>) = 1
        OBVIOUS
      <4> QED  BY <2>4, <3>1, <4>1, ConcatProperties
    <3> HIDE DEF f, s
    <3> DEFINE g == <<"101">>
    <3>5. g \in Seq(TrUnitKinds) /\ Len(g) = 1 /\ s = g \o f
      BY <3>1, <3>3
    <3> HIDE DEF g
    <3>6. /\ s \in Seq(TrUnitKinds) /\ Len(s) = 1 + Len(f)
          /\ \A i \in 1 .. 1 + Len(f) : s[i] = IF i <= 1 THEN g[i] ELSE f[i - 1]
      <4>1. /\ g \o f \in Seq(TrUnitKinds) /\ Len(g \o f) = Len(g) + Len(f)
            /\ \A i \in 1 .. Len(g) + Len(f) : (g \o f)[i] = IF i <= Len(g) THEN g[i] ELSE f[i - Len(g)]
        <5>1. g \in Seq(TrUnitKinds) /\ f \in Seq(TrUnitKinds)
          BY <3>4, <3>5
        <5> QED  BY <5>1, ConcatProperties
      <4> QED  BY <3>5, <4>1
    <3>7. ASSUME NEW i \in 1 .. 1 + Len(a)  PROVE  s[1 + i] = f[i]
      <4> DEFINE j == 1 + i
      <4>1. j \in 1 .. 1 + Len(f) /\ ~(j <= 1) /\ j - 1 = i
        BY <2>4, <3>4
      <4> HIDE DEF j
      <4>2. s[j] = f[j - 1]
        BY <3>6, <4>1
      <4>3. s[j] = f[i]
        BY <4>1, <4>2
      <4> QED  BY <4>3 DEF j
    <3> QED  BY <2>4, <3>4, <3>6, <3>7
  <2> HIDE DEF f
  <2>6. /\ SubSeq(s, 2, n) \in Seq(TrUnitKinds) /\ SubSeq(s, n + 1, Len(s)) \in Seq(TrUnitKinds)
        /\ SubSeq(s, 2, n) \o SubSeq(s, n + 1, Len(s)) = SubSeq(s, 2, Len(s))
        /\ Len(SubSeq(s, 2, Len(s))) = 1 + Len(a)
        /\ \A i \in 1 .. 1 + Len(a) : SubSeq(s, 2, Len(s))[i] = f[i]
    <3> HIDE DEF s
    <3>1. \A i \in 1 .. Len(s) : s[i] \in TrUnitKinds
      BY <2>5, ElementOfSeq
    <3>2. \A i \in 2 .. n : s[i] \in TrUnitKinds
      BY <2>4, <2>5, <3>1
    <3>3. \A i \in n + 1 .. Len(s) : s[i] \in TrUnitKinds
      BY <2>4, <2>5, <3>1
    <3>4. SubSeq(s, 2, n) \in Seq(TrUnitKinds)
      BY <2>4, <2>5, <3>2, SubSeqProperties
    <3>5. SubSeq(s, n + 1, Len(s)) \in Seq(TrUnitKinds)
      <4>1. n + 1 \in Int /\ Len(s) \in Int
        BY <2>4, <2>5
      <4> QED  BY <3>3, <4>1, SubSeqProperties
    <3>6. SubSeq(s, 2, n) \o SubSeq(s, n + 1, Len(s)) = SubSeq(s, 2, Len(s))
      <4>1. 2 \in 1 .. Len(s) + 1 /\ n \in 2 - 1 .. Len(s) /\ Len(s) \in n .. Len(s)
        BY <2>4, <2>5
      <4> QED  BY <2>5, <4>1, ConcatAdjacentSubSeq
    <3>7. \A i \in 2 .. Len(s) : s[i] \in TrUnitKinds
      BY <2>4, <2>5, <3>1
    <3>8. /\ Len(SubSeq(s, 2, Len(s))) = IF 2 <= Len(s) THEN Len(s) - 2 + 1 ELSE 0
          /\ \A i \in 1 .. Len(s) - 2 + 1 : SubSeq(s, 2, Len(s))[i] = s[2 + i - 1]
      <4>1. 2 \in Int /\ Len(s) \in Int
        BY <2>4, <2>5
      <4> QED  BY <3>7, <4>1, SubSeqProperties
    <3>9. ASSUME NEW i \in 1 .. 1 + Len(a)  PROVE  SubSeq(s, 2, Len(s))[i] = f[i]
      <4>1. i \in 1 .. Len(s) - 2 + 1 /\ 2 + i - 1 = 1 + i
        BY <2>4, <2>5
      <4>2. SubSeq(s, 2, Len(s))[i] = s[1 + i]
        BY <3>8, <4>1
      <4> QED  BY <2>5, <4>2
    <3>10. Len(SubSeq(s, 2, Len(s))) = 1 + Len(a)
      BY <2>4, <2>5, <3>8
    <3> QED  BY <3>4, <3>5, <3>6, <3>9, <3>10
  <2>7. trConn' \in TrConns /\ trWire' \in TrWires
    BY <2>2, <2>6 DEF TrInv, TrConns, TrWires
  <2>8. /\ trConn'.up = trConn.up /\ trConn'.tunnel = trConn.tunnel /\ trConn'.tls = trConn.tls
        /\ trConn'.alpn = trConn.alpn /\ trConn'.http2 = trConn.http2 /\ trConn'.replay = SubSeq(s, 2, n)
        /\ trWire'.alive = trWire.alive /\ trWire'.peer = trWire.peer /\ trWire'.tls = trWire.tls
        /\ trWire'.alpn = trWire.alpn /\ trWire'.speaks = trWire.speaks /\ trWire'.in = SubSeq(s, n + 1, Len(s))
    BY <2>2 DEF TrInv, TrConns, TrWires
  <2>9. TrLinked'
    BY <2>3, <2>8 DEF TrInv, TrLinked
  <2>10. TrPending' = SubSeq(s, 2, Len(s))
    BY <2>6, <2>8 DEF TrPending
  <2>11. TrPendingFollows(<<"settings">> \o TrAnswer("upgrade"), 0)'
    <3>1. (<<"settings">> \o TrAnswer("upgrade"))' = f
      BY DEF TrAnswer, f, a
    <3>2. Len(TrPending') = 1 + Len(a) /\ \A i \in 1 .. 1 + Len(a) : TrPending'[i] = f[i]
      BY <2>6, <2>10
    <3>3. 0 + Len(TrPending') = Len(f) /\ \A i \in 1 .. Len(TrPending') : TrPending'[i] = f[0 + i]
      BY <2>4, <2>5, <3>2
    <3>4. TrFollows(TrPending', f, 0)
      BY <2>4, <2>5, <3>3 DEF TrFollows
    <3> QED  BY <3>1, <3>3, <3>4 DEF TrPendingFollows, TrFollows
  <2>12. TrUpgraded' /\ trWire'.speaks = "101"
    BY <2>3, <2>8 DEF TrUpgraded, TrUp
  <2>13. TrCallOK' /\ TrOutOK' /\ TrSeenOK' /\ trCall'.pc = "initialize"
    BY <1>1, <2>1, TrMovesQuietly DEF TrQuiet, TrWaiting, TrAsked
  <2>14. TrPlaceOK'
    BY <2>11, <2>12, <2>13 DEF TrPlaceOK
  <2> QED  BY <2>7, <2>9, <2>13, <2>14 DEF TrInv
<1> QED  BY <1>2, <1>3

\* The preface is sent to an origin that expects it.
LEMMA TrInitializeKeeps ==
  ASSUME TrInv, TrInitialize, trRoute' = trRoute, trServer' = trServer
  PROVE  TrInv'
<1>1. /\ trCall.pc = "http2" /\ ~trConn.http2 /\ trWire.alive /\ TrGoto("settings")
      /\ trWire' = TrPeerPreface(trWire) /\ trConn' = trConn /\ trOut' = trOut /\ trSeen' = trSeen
  BY DEF TrInitialize
<1>2. TrSpeaksH2 /\ TrReady /\ trConn.up /\ TrUp
  <2>1. TrSpeaksH2 /\ (TrReady \/ TrSettled)
    BY <1>1 DEF TrInv, TrPlaceOK
  <2>2. ~TrSettled
    BY <1>1, <2>1 DEF TrSettled
  <2> QED  BY <2>1, <2>2 DEF TrReady, TrUp
<1>3. trWire.speaks = "start" /\ trWire.in = <<>> /\ trConn.replay = <<>>
  BY <1>2 DEF TrReady, TrUntouched
<1>4. trWire.peer = "origin" /\ (trWire.tls = 0 \/ trWire.alpn = "h2")
  <2>1. CASE trRoute.clear # "off"
    BY <1>1, <1>2, <2>1, TrClearIs
  <2>2. CASE trConn.alpn = "h2"
    BY <1>2, <2>2 DEF TrInv, TrLinked
  <2> QED  BY <1>2, <2>1, <2>2 DEF TrSpeaksH2
<1>5. trWire' = [trWire EXCEPT !.speaks = "h2", !.in = <<"settings">>]
  <2>1. trWire' = [trWire EXCEPT !.speaks = "h2", !.in = @ \o <<"settings">>]
    BY <1>1, <1>3, <1>4 DEF TrPeerPreface
  <2>2. <<>> \o <<"settings">> = <<"settings">>
    OBVIOUS
  <2> QED  BY <1>3, <2>1, <2>2
<1>6. trConn' \in TrConns /\ trWire' \in TrWires
  <2>1. <<"settings">> \in Seq(TrUnitKinds)
    BY TrOneUnit DEF TrUnitKinds
  <2> QED  BY <1>1, <1>5, <2>1 DEF TrInv, TrWires
<1>7. /\ trWire'.alive /\ trWire'.tls = trWire.tls /\ trWire'.alpn = trWire.alpn /\ trWire'.peer = trWire.peer
      /\ trWire'.speaks = "h2" /\ trWire'.in = <<"settings">>
  BY <1>1, <1>5 DEF TrInv, TrWires
<1>8. TrLinked'
  BY <1>1, <1>2, <1>7 DEF TrInv, TrLinked
<1>9. TrCallOK' /\ TrOutOK' /\ TrSeenOK' /\ trCall'.pc = "settings"
  BY <1>1, TrMovesQuietly DEF TrQuiet, TrWaiting, TrAsked
<1>10. TrUp' /\ TrSpeaksH2' /\ ~trConn'.http2 /\ trConn'.replay = <<>>
  BY <1>1, <1>2, <1>3 DEF TrUp, TrSpeaksH2
<1>11. TrPlaceOK'
  BY <1>7, <1>9, <1>10 DEF TrPlaceOK
<1> QED  BY <1>6, <1>8, <1>9, <1>11 DEF TrInv

\* The preface behind a 101, whatever has been read ahead.
LEMMA TrInitializeAfterUpgradeKeeps ==
  ASSUME TrInv, TrInitializeAfterUpgrade, trRoute' = trRoute, trServer' = trServer
  PROVE  TrInv'
<1>1. /\ trCall.pc = "initialize" /\ trWire.alive /\ TrGoto("settings1")
      /\ trWire' = TrPeerPreface(trWire) /\ trConn' = trConn /\ trOut' = trOut /\ trSeen' = trSeen
  BY DEF TrInitializeAfterUpgrade
<1>2. TrUpgraded /\ trWire.speaks = "101" /\ TrPendingFollows(<<"settings">> \o TrAnswer("upgrade"), 0)
  BY <1>1 DEF TrInv, TrPlaceOK
<1>3. trWire' = [trWire EXCEPT !.speaks = "h2"]
  BY <1>1, <1>2 DEF TrPeerPreface
<1>4. trConn' \in TrConns /\ trWire' \in TrWires
  BY <1>1, <1>3 DEF TrInv, TrWires
<1>5. /\ trWire'.alive = trWire.alive /\ trWire'.tls = trWire.tls /\ trWire'.alpn = trWire.alpn
      /\ trWire'.peer = trWire.peer /\ trWire'.speaks = "h2" /\ trWire'.in = trWire.in
  BY <1>3 DEF TrInv, TrWires
<1>6. TrLinked'
  BY <1>1, <1>5 DEF TrInv, TrLinked
<1>7. TrCallOK' /\ TrOutOK' /\ TrSeenOK' /\ trCall'.pc = "settings1"
  BY <1>1, TrMovesQuietly DEF TrQuiet, TrWaiting, TrAsked
<1>8. TrUpgraded' /\ TrPendingFollows(<<"settings">> \o TrAnswer("upgrade"), 0)'
  <2>1. TrPending' = TrPending /\ (<<"settings">> \o TrAnswer("upgrade"))' = <<"settings">> \o TrAnswer("upgrade")
    BY <1>1, <1>5 DEF TrPending, TrAnswer
  <2> QED  BY <1>1, <1>2, <1>5, <2>1 DEF TrUpgraded, TrUp, TrPendingFollows, TrFollows
<1>9. TrPlaceOK'
  BY <1>5, <1>7, <1>8 DEF TrPlaceOK
<1> QED  BY <1>4, <1>6, <1>7, <1>9 DEF TrInv

----------------------------------------
(* Reading an answer *)

\* Which unit comes next, from the position in the answer.
LEMMA TrNextIs ==
  ASSUME TrInv, NEW lead \in Seq(TrUnitKinds), NEW mode, NEW k \in Nat, TrReading(lead, mode, k),
         TrNextUnit # "nothing"
  PROVE  /\ Len(TrPending) \in Nat \ {0}
         /\ k < Len(lead) => k = 0 /\ TrNextUnit = lead[1]
         /\ k = Len(lead) => TrNextUnit = "headers"
         /\ k > Len(lead) /\ k <= Len(lead) + TrChunks => TrNextUnit = "data"
         /\ k = Len(lead) + TrChunks + 1 => TrNextUnit = "end"
<1> DEFINE whole == lead \o TrAnswer(mode)
<1>1. Len(lead) \in Nat /\ TrChunks \in Nat
  BY LenProperties, TrConstants
<1>2. /\ k = 0 \/ k >= Len(lead)
      /\ k <= Len(lead) + TrChunks + 1
      /\ k + Len(TrPending) <= Len(whole)
      /\ \A i \in 1 .. Len(TrPending) : TrPending[i] = whole[k + i]
  BY DEF TrReading, TrPendingFollows, TrFollows
<1>3. TrPending \in Seq(TrUnitKinds) /\ TrPending # <<>> /\ TrNextUnit = TrPending[1]
  BY TrPendingIs
<1>4. Len(TrPending) \in Nat \ {0}
  BY <1>3, EmptySeq
<1>5. TrNextUnit = whole[k + 1]
  BY <1>2, <1>3, <1>4
<1>6. /\ \A i \in 1 .. Len(lead) : whole[i] = lead[i]
      /\ \A i \in 1 .. TrChunks + 2 : whole[Len(lead) + i] = TrAnswer(mode)[i]
  <2>1. /\ \A i \in 1 .. Len(lead) : whole[i] = lead[i]
        /\ \A i \in 1 .. TrChunks + 2 + (IF mode \in TrLateModes THEN 2 ELSE 0) :
              whole[Len(lead) + i] = TrAnswer(mode)[i]
    BY TrBehind
  <2>2. 1 .. TrChunks + 2 \subseteq 1 .. TrChunks + 2 + (IF mode \in TrLateModes THEN 2 ELSE 0)
    BY <1>1
  <2> QED  BY <2>1, <2>2
<1> HIDE DEF whole
<1>7. /\ TrAnswer(mode)[1] = "headers"
      /\ \A i \in 2 .. TrChunks + 1 : TrAnswer(mode)[i] = "data"
      /\ TrAnswer(mode)[TrChunks + 2] = "end"
  BY TrAnswerIs
<1>8. ASSUME k < Len(lead)  PROVE  k = 0 /\ TrNextUnit = lead[1]
  <2>1. k = 0 /\ 1 \in 1 .. Len(lead) /\ k + 1 = 1
    BY <1>1, <1>2, <1>8
  <2> QED  BY <1>5, <1>6, <2>1
<1>9. ASSUME k = Len(lead)  PROVE  TrNextUnit = "headers"
  <2>1. 1 \in 1 .. TrChunks + 2
    BY <1>1
  <2> QED  BY <1>5, <1>6, <1>7, <1>9, <2>1
<1>10. ASSUME k > Len(lead), k <= Len(lead) + TrChunks  PROVE  TrNextUnit = "data"
  <2> DEFINE i == k + 1 - Len(lead)
  <2>1. i \in 1 .. TrChunks + 2 /\ i \in 2 .. TrChunks + 1 /\ Len(lead) + i = k + 1
    BY <1>1, <1>10
  <2> HIDE DEF i
  <2>2. whole[Len(lead) + i] = TrAnswer(mode)[i] /\ TrAnswer(mode)[i] = "data"
    BY <1>6, <1>7, <2>1
  <2> QED  BY <1>5, <2>1, <2>2
<1>11. ASSUME k = Len(lead) + TrChunks + 1  PROVE  TrNextUnit = "end"
  <2> DEFINE i == TrChunks + 2
  <2>1. i \in 1 .. TrChunks + 2 /\ Len(lead) + i = k + 1
    BY <1>1, <1>11
  <2>2. TrAnswer(mode)[i] = "end"
    BY <1>7
  <2> HIDE DEF i
  <2>3. whole[Len(lead) + i] = TrAnswer(mode)[i]
    BY <1>6, <2>1
  <2> QED  BY <1>5, <2>1, <2>2, <2>3
<1> QED  BY <1>4, <1>8, <1>9, <1>10, <1>11

\* Reading n units moves the position by n.
LEMMA TrReads ==
  ASSUME TrInv, NEW whole \in Seq(TrUnitKinds), NEW k \in Nat, TrPendingFollows(whole, k),
         NEW n \in Nat, n <= Len(TrPending), NEW h \in BOOLEAN,
         trConn' = [TrConnAfter(n) EXCEPT !.http2 = h], trWire' = TrWireAfter(n)
  PROVE  TrPendingFollows(whole, k + n)'
<1>1. /\ trWire'.alive = trWire.alive /\ Len(TrPending') = Len(TrPending) - n
      /\ \A i \in 1 .. Len(TrPending) - n : TrPending'[i] = TrPending[n + i]
  BY TrTakes
<1>2. Len(TrPending) \in Nat /\ Len(whole) \in Nat
  BY TrPendingIs, LenProperties
<1>3. /\ k + Len(TrPending) <= Len(whole) /\ \A i \in 1 .. Len(TrPending) : TrPending[i] = whole[k + i]
      /\ trWire.alive => k + Len(TrPending) = Len(whole)
  BY DEF TrPendingFollows, TrFollows
<1>4. ASSUME NEW i \in 1 .. Len(TrPending')  PROVE  TrPending'[i] = whole[k + n + i]
  <2>1. i \in 1 .. Len(TrPending) - n /\ n + i \in 1 .. Len(TrPending) /\ k + (n + i) = k + n + i
    BY <1>1, <1>2
  <2>2. TrPending'[i] = TrPending[n + i] /\ TrPending[n + i] = whole[k + (n + i)]
    BY <1>1, <1>3, <2>1
  <2> QED  BY <2>1, <2>2
<1>5. k + n + Len(TrPending') = k + Len(TrPending)
  BY <1>1, <1>2
<1>6. k + n + Len(TrPending') <= Len(whole) /\ (trWire'.alive => k + n + Len(TrPending') = Len(whole))
  BY <1>1, <1>3, <1>5
<1> QED  BY <1>4, <1>6 DEF TrPendingFollows, TrFollows

\* The DATA frames the caller has been given, one by one.
LEMMA TrUnitsNext ==
  /\ TrUnitsOf(0) = <<>>
  /\ \A g \in Nat : TrUnitsOf(g) \in Seq({"coded", "plain"}) /\ Append(TrUnitsOf(g), TrUnit) = TrUnitsOf(g + 1)
<1>1. TrUnit \in {"coded", "plain"}
  BY DEF TrUnit
<1> HIDE DEF TrUnit
<1>2. TrUnitsOf(0) = <<>>
  <2>1. 1 .. 0 = {}
    OBVIOUS
  <2> QED  BY <2>1 DEF TrUnitsOf
<1>3. ASSUME NEW g \in Nat
      PROVE  TrUnitsOf(g) \in Seq({"coded", "plain"}) /\ Append(TrUnitsOf(g), TrUnit) = TrUnitsOf(g + 1)
  <2> DEFINE s == TrUnitsOf(g)
             t == TrUnitsOf(g + 1)
             u == Append(s, TrUnit)
  <2>1. s \in Seq({"coded", "plain"}) /\ Len(s) = g /\ \A i \in 1 .. g : s[i] = TrUnit
    BY <1>1 DEF TrUnitsOf
  <2>2. t \in Seq({"coded", "plain"}) /\ Len(t) = g + 1 /\ \A i \in 1 .. g + 1 : t[i] = TrUnit
    BY <1>1 DEF TrUnitsOf
  <2> HIDE DEF s, t
  <2>3. /\ u \in Seq({"coded", "plain"}) /\ Len(u) = g + 1
        /\ (\A i \in 1 .. g : u[i] = s[i]) /\ u[g + 1] = TrUnit
    BY <1>1, <2>1, AppendProperties
  <2> HIDE DEF u
  <2>4. ASSUME NEW i \in 1 .. g + 1  PROVE  u[i] = t[i]
    <3>1. CASE i \in 1 .. g
      BY <2>1, <2>2, <2>3, <3>1
    <3>2. CASE i = g + 1
      BY <2>2, <2>3, <3>2
    <3> QED  BY <3>1, <3>2
  <2>5. u = t
    BY <2>2, <2>3, <2>4, SeqEqual
  <2> USE DEF u, t, s
  <2> QED  BY <2>1, <2>5
<1> QED  BY <1>2, <1>3

\* The options of a request that concern its body are Boolean.
LEMMA TrRequestIs ==
  ASSUME TrInv, trCall.pc # "idle"
  PROVE  {trCall.request.callback, trCall.request.aggregate, trCall.request.coded} \subseteq BOOLEAN
  BY TrConstants DEF TrInv, TrCallOK, TrIsRequest

\* The callback has seen the headers of an answer that it has been shown.
LEMMA TrGivenHeaders ==
  ASSUME TrInv, trCall.pc # "idle", trCall.request.callback, NEW g \in Nat
  PROVE  TrHeadersDelivered(TrGiven(g)) = TrShown(g)
<1>1. {trCall.request.callback, trCall.request.aggregate, trCall.request.coded} \subseteq BOOLEAN
  BY TrRequestIs
<1>2. CASE g = 0
  <2>1. TrGiven(g) = TrNoOut
    BY <1>2 DEF TrGiven
  <2>2. TrUnitsOf(0) = <<>>
    BY TrUnitsNext
  <2>3. TrHeadersDelivered(TrNoOut) =
          [TrNoOut EXCEPT !.headers = TRUE, !.suppress = trCall.request.coded,
                 !.aggregate = trCall.request.aggregate \/ trCall.request.coded]
    BY DEF TrHeadersDelivered, TrNoOut
  <2>4. TrShown(0) = [TrNoOut EXCEPT !.headers = TRUE, !.suppress = trCall.request.coded,
                 !.aggregate = trCall.request.aggregate \/ trCall.request.coded]
    <3> DEFINE c == trCall.request.coded
               a == trCall.request.aggregate \/ trCall.request.coded
               x == IF a THEN TrUnitsOf(0) ELSE <<>>
               y == IF c THEN <<>> ELSE TrUnitsOf(0)
    <3>1. TrShown(0) = [TrNoOut EXCEPT !.headers = TRUE, !.suppress = c, !.aggregate = a, !.buffer = x, !.live = y]
      BY DEF TrShown
    <3>0. a \in BOOLEAN /\ c \in BOOLEAN
      BY <1>1
    <3>2. x = <<>> /\ y = <<>>
      BY <2>2
    <3> HIDE DEF a, c, x, y
    <3>3. TrShown(0) = [TrNoOut EXCEPT !.headers = TRUE, !.suppress = c, !.aggregate = a]
      <4> DEFINE S == Seq({1})
      <4>1. TrNoOut \in [headers : BOOLEAN, suppress : BOOLEAN, aggregate : BOOLEAN, live : S, final : Nat,
                         buffer : S, body : S, http2 : BOOLEAN]
        BY DEF TrNoOut
      <4>2. TrNoOut.buffer = x /\ TrNoOut.live = y
        BY <3>2 DEF TrNoOut
      <4> QED  BY <3>0, <3>1, <4>1, <4>2
    <3> QED  BY <3>3 DEF a, c
  <2> QED  BY <1>2, <2>1, <2>3, <2>4
<1>3. CASE g # 0
  <2>1. TrGiven(g) = TrShown(g)
    BY <1>3 DEF TrGiven
  <2>2. TrShown(g).headers
    BY DEF TrShown, TrNoOut
  <2> QED  BY <2>1, <2>2 DEF TrHeadersDelivered
<1> QED  BY <1>2, <1>3

\* One more DATA frame.
LEMMA TrGivenNext ==
  ASSUME TrInv, NEW g \in Nat
  PROVE  /\ trCall.pc = "receive" => TrAppend(TrGiven(g)) = TrGiven(g + 1)
         /\ trCall.pc = "receive1" => TrAppend(TrBuffered(g)) = TrBuffered(g + 1)
<1>1. Append(TrUnitsOf(g), TrUnit) = TrUnitsOf(g + 1)
  BY TrUnitsNext
<1>2. [TrBuffered(g) EXCEPT !.buffer = Append(@, TrUnit)] = TrBuffered(g + 1)
  <2>1. TrBuffered(g).buffer = TrUnitsOf(g)
    BY DEF TrBuffered, TrNoOut
  <2>2. [TrBuffered(g) EXCEPT !.buffer = TrUnitsOf(g + 1)] = TrBuffered(g + 1)
    BY DEF TrBuffered, TrNoOut
  <2> QED  BY <1>1, <2>1, <2>2
<1>3. ASSUME trCall.pc = "receive1"  PROVE  TrAppend(TrBuffered(g)) = TrBuffered(g + 1)
  <2>1. ~TrStreams
    BY <1>3 DEF TrStreams
  <2> QED  BY <1>2, <2>1 DEF TrAppend
<1>4. ASSUME trCall.pc = "receive", ~trCall.request.callback  PROVE  TrAppend(TrGiven(g)) = TrGiven(g + 1)
  <2>1. ~TrStreams /\ TrGiven(g) = TrBuffered(g) /\ TrGiven(g + 1) = TrBuffered(g + 1)
    BY <1>4 DEF TrStreams, TrGiven
  <2> QED  BY <1>2, <2>1 DEF TrAppend
<1>5. ASSUME trCall.pc = "receive", trCall.request.callback  PROVE  TrAppend(TrGiven(g)) = TrGiven(g + 1)
  <2>1. TrStreams /\ trCall.pc # "idle"
    BY <1>5 DEF TrStreams
  <2>2. TrHeadersDelivered(TrGiven(g)) = TrShown(g)
    BY <1>5, <2>1, TrGivenHeaders
  <2>3. {trCall.request.callback, trCall.request.aggregate, trCall.request.coded} \subseteq BOOLEAN
    BY <2>1, TrRequestIs
  <2>4. TrGiven(g + 1) = TrShown(g + 1)
    <3>1. g + 1 # 0
      OBVIOUS
    <3> QED  BY <1>5, <3>1 DEF TrGiven
  <2> DEFINE d == TrShown(g)
  <2>5. TrAppend(TrGiven(g)) = [d EXCEPT !.buffer = IF d.aggregate \/ d.suppress THEN Append(@, TrUnit) ELSE @,
                                         !.live = IF d.suppress THEN @ ELSE Append(@, TrUnit)]
    BY <2>1, <2>2 DEF TrAppend, TrAppendStreaming
  <2>6. /\ d.aggregate = (trCall.request.aggregate \/ trCall.request.coded) /\ d.suppress = trCall.request.coded
        /\ d.buffer = (IF trCall.request.aggregate \/ trCall.request.coded THEN TrUnitsOf(g) ELSE <<>>)
        /\ d.live = (IF trCall.request.coded THEN <<>> ELSE TrUnitsOf(g))
    BY DEF TrShown, TrNoOut
  <2>7. [d EXCEPT !.buffer = IF trCall.request.aggregate \/ trCall.request.coded THEN TrUnitsOf(g + 1) ELSE <<>>,
                  !.live = IF trCall.request.coded THEN <<>> ELSE TrUnitsOf(g + 1)] = TrShown(g + 1)
    BY DEF TrShown, TrNoOut
  <2> HIDE DEF d
  <2>8. CASE trCall.request.coded
    BY <1>1, <2>4, <2>5, <2>6, <2>7, <2>8
  <2>9. CASE ~trCall.request.coded
    <3>1. d.suppress = FALSE /\ d.live = TrUnitsOf(g)
      BY <2>3, <2>6, <2>9
    <3>2. CASE trCall.request.aggregate
      <4>1. TrAppend(TrGiven(g)) = [d EXCEPT !.buffer = TrUnitsOf(g + 1), !.live = TrUnitsOf(g + 1)]
        BY <1>1, <2>5, <2>6, <3>1, <3>2
      <4> QED  BY <2>4, <2>7, <2>9, <3>2, <4>1
    <3>3. CASE ~trCall.request.aggregate
      <4>1. d.aggregate = FALSE /\ d.buffer = <<>>
        BY <2>3, <2>6, <2>9, <3>3
      <4>2. TrAppend(TrGiven(g)) = [d EXCEPT !.buffer = <<>>, !.live = TrUnitsOf(g + 1)]
        BY <1>1, <2>5, <3>1, <4>1
      <4> QED  BY <2>4, <2>7, <2>9, <3>3, <4>2
    <3> QED  BY <3>2, <3>3
  <2> QED  BY <2>8, <2>9
<1> QED  BY <1>3, <1>4, <1>5

\* The connection is the same one after a read.
LEMMA TrStays ==
  ASSUME TrInv, trRoute' = trRoute, NEW n \in Nat, n <= Len(TrPending), NEW h \in BOOLEAN,
         trConn' = [TrConnAfter(n) EXCEPT !.http2 = h], trWire' = TrWireAfter(n)
  PROVE  /\ trConn' \in TrConns /\ trWire' \in TrWires /\ TrLinked' /\ (TrUp => TrUp') /\ TrSpeaksH2' = TrSpeaksH2
         /\ trConn'.http2 = h /\ trWire'.speaks = trWire.speaks /\ trWire'.alive = trWire.alive
         /\ trConn.replay = <<>> => trConn'.replay = <<>>
<1>1. /\ trConn' \in TrConns /\ trWire' \in TrWires
      /\ trConn'.up = trConn.up /\ trConn'.tunnel = trConn.tunnel /\ trConn'.tls = trConn.tls
      /\ trConn'.alpn = trConn.alpn /\ trConn'.http2 = h
      /\ trWire'.alive = trWire.alive /\ trWire'.peer = trWire.peer /\ trWire'.tls = trWire.tls
      /\ trWire'.alpn = trWire.alpn /\ trWire'.speaks = trWire.speaks
      /\ trConn.replay = <<>> => trConn'.replay = <<>>
      /\ trWire.in = <<>> => trWire'.in = <<>>
  BY TrTakes
<1>2. TrLinked'
  BY <1>1 DEF TrInv, TrLinked
<1>3. (TrUp => TrUp') /\ TrSpeaksH2' = TrSpeaksH2
  BY <1>1 DEF TrUp, TrSpeaksH2
<1> QED  BY <1>1, <1>2, <1>3

\* Reading does not change which protocol the connection speaks.
LEMMA TrSameHttp2 ==
  ASSUME TrInv, NEW n
  PROVE  TrConnAfter(n) = [TrConnAfter(n) EXCEPT !.http2 = trConn.http2] /\ trConn.http2 \in BOOLEAN
  BY DEF TrInv, TrConns, TrConnAfter

\* The HTTP/2 state is adopted when the peer's SETTINGS have been read.
LEMMA TrReadSettingsKeeps ==
  ASSUME TrInv, TrReadSettings, trRoute' = trRoute, trServer' = trServer
  PROVE  TrInv'
<1>1. /\ trCall.pc \in {"settings", "settings1"} /\ TrNextUnit = "settings"
      /\ trConn' = [TrConnAfter(1) EXCEPT !.http2 = TRUE] /\ trWire' = TrWireAfter(1)
      /\ TrGoto(IF trCall.pc = "settings" THEN "http2" ELSE "receive1")
      /\ trOut' = trOut /\ trSeen' = trSeen
  BY DEF TrReadSettings, TrAdoptHttp2
<1>2. TrPending \in Seq(TrUnitKinds) /\ TrPending # <<>>
      /\ Len(TrPending) = Len(trConn.replay) + Len(trWire.in) /\ trWire.in \in Seq(TrUnitKinds)
  BY <1>1, TrPendingIs
<1>3. Len(TrPending) \in Nat /\ 1 <= Len(TrPending)
  <2>1. Len(TrPending) \in Nat \ {0}
    BY <1>2, EmptySeq
  <2> HIDE DEF TrPending
  <2> QED  BY <2>1
<1>4. /\ trConn' \in TrConns /\ trWire' \in TrWires /\ TrLinked' /\ (TrUp => TrUp') /\ TrSpeaksH2' = TrSpeaksH2
      /\ trConn'.http2 = TRUE /\ trWire'.speaks = trWire.speaks /\ trWire'.alive = trWire.alive
      /\ trConn.replay = <<>> => trConn'.replay = <<>>
  BY <1>1, <1>3, TrStays
<1>5. CASE trCall.pc = "settings"
  <2>1. /\ TrUp /\ TrSpeaksH2 /\ ~trConn.http2 /\ trConn.replay = <<>>
        /\ trWire.speaks = "h2" /\ trWire.in \in {<<>>, <<"settings">>}
    BY <1>5 DEF TrInv, TrPlaceOK
  <2>2. Len(TrPending) = Len(trWire.in) /\ Len(<<"settings">>) = 1 /\ Len(<<>>) = 0
    <3>1. Len(TrPending) = 0 + Len(trWire.in)
      BY <1>2, <2>1
    <3>2. Len(trWire.in) \in Nat
      BY <1>2, LenProperties
    <3> QED  BY <3>1, <3>2
  <2>3. Len(TrPending) = 1
    BY <1>3, <2>1, <2>2
  <2>4. trWire'.in = <<>> /\ trConn'.replay = <<>>
    <3>1. Len(TrPending') = 0 /\ TrPending' \in Seq(TrUnitKinds)
      <4>1. Len(TrPending') = Len(TrPending) - 1 /\ TrPending' \in Seq(TrUnitKinds)
        BY <1>1, <1>3, TrTakes
      <4> QED  BY <2>3, <4>1
    <3>2. TrPending' = trConn'.replay \o trWire'.in /\ trConn'.replay \in Seq(TrUnitKinds) /\ trWire'.in \in Seq(TrUnitKinds)
      BY <1>4 DEF TrPending, TrConns, TrWires
    <3>3. TrPending' = <<>>
      BY <3>1, EmptySeq
    <3>4. trConn'.replay \o trWire'.in = <<>>
      BY <3>2, <3>3
    <3>5. trConn'.replay = <<>> /\ trWire'.in = <<>>
      BY <3>2, <3>4, ConcatEqualIffEmpty
    <3> QED  BY <3>5
  <2>5. TrSettled'
    BY <1>4, <2>1, <2>4 DEF TrSettled, TrLeftovers
  <2>6. TrGoto("http2")
    BY <1>1, <1>5
  <2>7. TrCallOK' /\ TrOutOK' /\ TrSeenOK' /\ trCall'.pc = "http2"
    BY <1>1, <1>5, <2>6, TrMovesQuietly DEF TrQuiet, TrWaiting, TrAsked
  <2>8. TrPlaceOK'
    BY <1>4, <2>1, <2>5, <2>7 DEF TrPlaceOK
  <2> QED  BY <1>4, <2>7, <2>8 DEF TrInv
<1>6. CASE trCall.pc = "settings1"
  <2> DEFINE lead == <<"settings">>
             whole == lead \o TrAnswer("upgrade")
  <2>1. TrUpgraded /\ trWire.speaks = "h2" /\ TrPendingFollows(whole, 0)
    BY <1>6 DEF TrInv, TrPlaceOK
  <2>2. whole \in Seq(TrUnitKinds)
    BY TrSettingsLead, TrBehind
  <2>3. TrPendingFollows(lead \o TrAnswer("upgrade"), 1)'
    <3> HIDE DEF whole
    <3>1. 0 + 1 = 1
      OBVIOUS
    <3>2. TrPendingFollows(whole, 0 + 1)'
      BY <1>1, <1>3, <2>1, <2>2, TrReads DEF whole
    <3> QED  BY <3>1, <3>2 DEF whole
  <2>4. TrReading(lead, "upgrade", 1)'
    <3>1. Len(lead) = 1 /\ TrChunks \in Nat
      BY TrSettingsLead, TrConstants
    <3> HIDE DEF lead
    <3>2. 1 >= Len(lead) /\ 1 <= Len(lead) + TrChunks + 1
      BY <3>1
    <3> QED  BY <2>3, <3>2 DEF TrReading
  <2>5. TrGoto("receive1")
    BY <1>1, <1>6
  <2>6. TrCallOK' /\ trCall'.pc = "receive1" /\ trCall'.status # "SUCCESS" /\ trCall'.number = trCall.number
        /\ trCall'.attempt = trCall.attempt /\ trCall'.request = trCall.request
    BY <1>6, <2>5, TrMoves DEF TrAsked
  <2>7. trOut' = TrBuffered(TrRead(lead, 1))'
    <3>1. TrRead(lead, 1) = 0
      BY TrSettingsLead DEF TrRead
    <3>2. TrUnitsOf(0)' = <<>>
      <4>1. 1 .. 0 = {}
        OBVIOUS
      <4> QED  BY <4>1 DEF TrUnitsOf
    <3>3. TrBuffered(0)' = TrNoOut
      BY <3>2 DEF TrBuffered, TrNoOut
    <3>4. trOut = TrNoOut
      BY <1>6 DEF TrInv, TrOutOK, TrQuiet
    <3> QED  BY <1>1, <3>1, <3>3, <3>4
  <2>8. TrOverHttp2' /\ trRoute'.clear = "upgrade"
    BY <1>4, <2>1 DEF TrOverHttp2, TrUpgraded, TrSpeaksH2
  <2>9. TrPlaceOK'
    <3>1. 1 \in 1 .. TrChunks + 2
      BY TrConstants
    <3>2. \E k \in 1 .. TrChunks + 2 : TrReading(lead, "upgrade", k)' /\ trOut' = TrBuffered(TrRead(lead, k))'
      BY <2>4, <2>7, <3>1
    <3> QED  BY <2>6, <2>8, <3>2 DEF TrPlaceOK
  <2>10. TrOutOK'
    BY <2>6 DEF TrOutOK, LastAttemptDelivers, TrQuiet, TrWaiting
  <2>11. TrHistory(trSeen', trCall.number, trCall.attempt, TRUE)
    BY <1>1, TrHistoryAsked DEF TrInv, TrSeenOK
  <2>12. TrSeenOK'
    BY <2>6, <2>11, TrSeenFrame DEF TrAsked
  <2> QED  BY <1>4, <2>6, <2>9, <2>10, <2>12 DEF TrInv
<1> QED  BY <1>1, <1>5, <1>6

\* The request of an HTTP/2 stream: its answer stands behind what is left of an earlier one.
LEMMA TrBeginRequestKeeps ==
  ASSUME TrInv, TrBeginRequest, trRoute' = trRoute, trServer' = trServer
  PROVE  TrInv'
<1> DEFINE told == TrPeerStream(trWire, TrMode)
<1>1. /\ trCall.pc = "http2" /\ trConn.http2 /\ trWire.alive
      /\ trSeen' = trSeen \cup TrShow(trWire, "request")
  BY DEF TrBeginRequest
<1>2. TrSpeaksH2 /\ TrSettled
  <2>1. TrSpeaksH2 /\ (TrReady \/ TrSettled)
    BY <1>1 DEF TrInv, TrPlaceOK
  <2>2. ~TrReady
    BY <1>1 DEF TrReady, TrUntouched
  <2> QED  BY <2>1, <2>2
<1>3. TrUp /\ trConn.replay = <<>> /\ trWire.speaks = "h2" /\ trWire.in \in TrLeftovers
  BY <1>1, <1>2 DEF TrSettled
<1>4. told = [trWire EXCEPT !.in = @ \o TrAnswer(TrMode)]
  BY <1>3 DEF TrPeerStream
<1>5. TrMode \in TrModes
  <2>1. trRoute.clear \in {"off", "prior", "upgrade"}
    BY TrRouteIs DEF TrInv, TrIsRoute
  <2> QED  BY <2>1 DEF TrMode, TrModes
<1>6. TrHistory(trSeen', trCall.number, trCall.attempt, TRUE)
  BY <1>1, <1>3, TrShowsRequest DEF TrWaiting
<1>7. CASE TrReturn("INSUFFICIENT_RESOURCES", trConn, told, FALSE, 1)
  <2>1. told.confused = FALSE
    BY <1>4 DEF TrInv, TrWires
  <2> HIDE DEF told
  <2> QED  BY <1>1, <1>6, <1>7, <2>1, TrReturned
<1>8. CASE trWire' = told /\ TrGoto("receive") /\ UNCHANGED <<trConn, trOut>>
  <2>1. PICK lead \in TrLeftovers : lead = trWire.in
    BY <1>3
  <2>2. PICK mode \in TrModes : mode = TrMode
    BY <1>5
  <2> DEFINE whole == lead \o TrAnswer(mode)
  <2>3. whole \in Seq(TrUnitKinds) /\ lead \in Seq(TrUnitKinds)
    BY TrLeftoversAre, TrBehind
  <2>4. trWire' = [trWire EXCEPT !.in = whole]
    BY <1>4, <1>8, <2>1, <2>2
  <2> HIDE DEF told, whole
  <2>5. trConn' \in TrConns /\ trWire' \in TrWires
    BY <1>8, <2>3, <2>4 DEF TrInv, TrWires
  <2>6. /\ trWire'.alive /\ trWire'.tls = trWire.tls /\ trWire'.alpn = trWire.alpn
        /\ trWire'.peer = trWire.peer /\ trWire'.speaks = "h2" /\ trWire'.in = whole
    BY <1>1, <1>3, <2>4 DEF TrInv, TrWires
  <2>7. TrLinked'
    BY <1>3, <1>8, <2>6 DEF TrInv, TrLinked, TrUp
  <2>8. TrCallOK' /\ trCall'.pc = "receive" /\ trCall'.status # "SUCCESS"
        /\ trCall'.number = trCall.number /\ trCall'.attempt = trCall.attempt /\ trCall'.request = trCall.request
    BY <1>1, <1>8, TrMoves DEF TrAsked
  <2>9. TrOverHttp2' /\ trConn'.replay = <<>>
    BY <1>1, <1>2, <1>3, <1>8, <2>6 DEF TrOverHttp2, TrUp, TrSpeaksH2
  <2>10. TrPending' = whole
    <3>1. TrPending' = <<>> \o whole
      BY <2>6, <2>9 DEF TrPending
    <3> QED  BY <2>3, <3>1, ConcatEmptySeq
  <2>11. TrReading(lead, mode, 0)'
    <3>1. Len(whole) \in Nat /\ Len(lead) \in Nat /\ TrChunks \in Nat
      BY <2>3, LenProperties, TrConstants
    <3>2. /\ 0 + Len(whole) = Len(whole) /\ 0 + Len(whole) <= Len(whole)
          /\ \A i \in 1 .. Len(whole) : whole[i] = whole[0 + i]
          /\ 0 <= Len(lead) + TrChunks + 1
      BY <3>1
    <3>3. TrPendingFollows(whole, 0)'
      BY <2>10, <3>2 DEF TrPendingFollows, TrFollows
    <3> QED  BY <3>2, <3>3 DEF TrReading, whole
  <2>12. trOut' = TrGiven(TrRead(lead, 0))'
    <3>1. TrRead(lead, 0) = 0
      BY <2>3, LenProperties DEF TrRead
    <3>2. TrUnitsOf(0)' = <<>>
      <4>1. 1 .. 0 = {}
        OBVIOUS
      <4> QED  BY <4>1 DEF TrUnitsOf
    <3>3. TrBuffered(0)' = TrNoOut
      BY <3>2 DEF TrBuffered, TrNoOut
    <3>4. TrGiven(0)' = TrNoOut
      BY <3>3 DEF TrGiven
    <3>5. trOut = TrNoOut
      BY <1>1 DEF TrInv, TrOutOK, TrQuiet, TrWaiting
    <3> QED  BY <1>8, <3>1, <3>4, <3>5
  <2>13. TrPlaceOK'
    <3>1. 0 \in 0 .. TrChunks + 3
      BY TrConstants
    <3>2. \E x \in TrLeftovers, y \in TrModes, k \in 0 .. TrChunks + 3 :
            TrReading(x, y, k)' /\ trOut' = TrGiven(TrRead(x, k))'
      BY <2>11, <2>12, <3>1
    <3> QED  BY <2>8, <2>9, <3>2 DEF TrPlaceOK
  <2>14. TrOutOK'
    BY <2>8 DEF TrOutOK, LastAttemptDelivers, TrQuiet, TrWaiting
  <2>15. TrSeenOK'
    BY <1>6, <2>8, TrSeenFrame DEF TrAsked
  <2> QED  BY <2>5, <2>7, <2>8, <2>13, <2>14, <2>15 DEF TrInv
<1> QED  BY <1>7, <1>8 DEF TrBeginRequest

\* A step that leaves the request where it is.
LEMMA TrCallSame ==
  ASSUME TrInv, trCall' = trCall, trRoute' = trRoute, trSeen' = trSeen
  PROVE  /\ TrCallOK' /\ TrSeenOK'
         /\ \A g : /\ TrBuffered(g)' = TrBuffered(g) /\ TrShown(g)' = TrShown(g)
                   /\ TrGiven(g)' = TrGiven(g)
<1>1. TrCallOK'
  BY DEF TrInv, TrCallOK, TrEarlyStatus, RequestUsesExpectContinue
<1>2. TrSeenOK'
  BY DEF TrInv, TrSeenOK, TrHistory, TrEventOK
<1>3. \A g : TrBuffered(g)' = TrBuffered(g) /\ TrShown(g)' = TrShown(g)
  BY DEF TrBuffered, TrShown, TrUnitsOf, TrUnit
<1>4. \A g : TrGiven(g)' = TrGiven(g)
  BY <1>3 DEF TrGiven
<1> QED  BY <1>1, <1>2, <1>3, <1>4

\* A frame of the answer is read where the answer is.
LEMMA TrReceiveFrameKeeps ==
  ASSUME TrInv, TrReceiveFrame, trRoute' = trRoute, trServer' = trServer
  PROVE  TrInv'
<1>0. PICK n \in {1, 2} : n = IF TrNextUnit = "ping-" THEN 2 ELSE 1
  OBVIOUS
<1>1. /\ trCall.pc \in {"receive", "receive1"} /\ TrNextUnit \in {"headers", "data", "ping-"}
      /\ trConn' = TrConnAfter(n) /\ trWire' = TrWireAfter(n)
      /\ trOut' = (IF TrNextUnit = "data" THEN TrAppend(trOut) ELSE trOut)
      /\ trCall' = trCall /\ trSeen' = trSeen
  BY <1>0 DEF TrReceiveFrame, TrReceiving
<1>2. TrConnAfter(n) = [TrConnAfter(n) EXCEPT !.http2 = trConn.http2] /\ trConn.http2 \in BOOLEAN
  BY TrSameHttp2
<1>3. TrNextUnit # "nothing" /\ n \in {1, 2} /\ (TrNextUnit # "ping-" => n = 1) /\ (TrNextUnit = "ping-" => n = 2)
  BY <1>0, <1>1
<1>4. /\ TrCallOK' /\ TrSeenOK'
      /\ \A g : TrBuffered(g)' = TrBuffered(g) /\ TrGiven(g)' = TrGiven(g)
  BY <1>1, TrCallSame
<1>5. TrOutOK'
  BY <1>1 DEF TrInv, TrCallOK, TrOutOK, LastAttemptDelivers, TrQuiet, TrWaiting
<1>6. TrOverHttp2
  BY <1>1 DEF TrInv, TrPlaceOK
<1>7. ASSUME n <= Len(TrPending)
      PROVE  /\ trConn' \in TrConns /\ trWire' \in TrWires /\ TrLinked' /\ TrOverHttp2'
             /\ trConn.replay = <<>> => trConn'.replay = <<>>
  <2>1. n \in Nat
    BY <1>3
  <2>2. /\ trConn' \in TrConns /\ trWire' \in TrWires /\ TrLinked' /\ (TrUp => TrUp') /\ TrSpeaksH2' = TrSpeaksH2
        /\ trConn'.http2 = trConn.http2 /\ trWire'.speaks = trWire.speaks
        /\ trConn.replay = <<>> => trConn'.replay = <<>>
    BY <1>1, <1>2, <1>7, <2>1, TrStays
  <2> QED  BY <1>6, <2>2 DEF TrOverHttp2
<1>8. ASSUME NEW lead \in Seq(TrUnitKinds), NEW mode, NEW k \in Nat, TrReading(lead, mode, k), n <= Len(TrPending),
             k + n >= Len(lead), k + n <= Len(lead) + TrChunks + 1
      PROVE  TrReading(lead, mode, k + n)'
  <2> DEFINE whole == lead \o TrAnswer(mode)
  <2>1. whole \in Seq(TrUnitKinds)
    BY TrBehind
  <2>2. TrPendingFollows(whole, k)
    BY <1>8 DEF TrReading
  <2> HIDE DEF whole
  <2>3. n \in Nat
    BY <1>3
  <2>4. TrPendingFollows(whole, k + n)'
    BY <1>1, <1>2, <1>8, <2>1, <2>2, <2>3, TrReads
  <2> QED  BY <1>8, <2>4 DEF TrReading, whole
<1>9. CASE trCall.pc = "receive"
  <2>1. PICK lead \in TrLeftovers, mode \in TrModes, k \in 0 .. TrChunks + 3 :
          TrReading(lead, mode, k) /\ trOut = TrGiven(TrRead(lead, k))
    BY <1>9 DEF TrInv, TrPlaceOK
  <2>2. /\ lead \in Seq(TrUnitKinds) /\ Len(lead) \in {0, 1, 2}
        /\ Len(lead) = 1 => lead[1] = "-ping"
        /\ Len(lead) = 2 => lead[1] = "ping-"
    BY TrLeftoversAre
  <2>3. TrChunks \in Nat /\ k \in Nat
    BY TrConstants
  <2>4. /\ Len(TrPending) \in Nat \ {0}
        /\ k < Len(lead) => k = 0 /\ TrNextUnit = lead[1]
        /\ k = Len(lead) => TrNextUnit = "headers"
        /\ k > Len(lead) /\ k <= Len(lead) + TrChunks => TrNextUnit = "data"
        /\ k = Len(lead) + TrChunks + 1 => TrNextUnit = "end"
    BY <1>3, <2>1, <2>2, <2>3, TrNextIs
  <2>5. k <= Len(lead) + TrChunks + 1
    BY <2>1 DEF TrReading
  <2>6. ASSUME n <= Len(TrPending), k + n >= Len(lead), k + n <= Len(lead) + TrChunks + 1,
               trOut' = TrGiven(TrRead(lead, k + n))
        PROVE  TrInv'
    <3>1. TrReading(lead, mode, k + n)'
      BY <1>8, <2>1, <2>2, <2>3, <2>6
    <3>2. k + n \in 0 .. TrChunks + 3
      <4> DEFINE l == Len(lead)
      <4>1. l \in {0, 1, 2} /\ k + n <= l + TrChunks + 1 /\ n \in {1, 2}
        <5>1. l \in {0, 1, 2}
          BY <2>2
        <5>2. k + n <= l + TrChunks + 1
          BY <2>6
        <5> QED  BY <5>1, <5>2
      <4> HIDE DEF l
      <4> QED  BY <2>3, <4>1
    <3>3. trOut' = TrGiven(TrRead(lead, k + n))'
      BY <1>4, <2>6
    <3>4. \E x \in TrLeftovers, y \in TrModes, z \in 0 .. TrChunks + 3 :
            TrReading(x, y, z)' /\ trOut' = TrGiven(TrRead(x, z))'
      BY <3>1, <3>2, <3>3
    <3>5. TrOverHttp2' /\ trConn'.replay = <<>>
      BY <1>7, <1>9, <2>6 DEF TrInv, TrPlaceOK
    <3>6. TrPlaceOK'
      BY <1>1, <1>9, <3>4, <3>5 DEF TrPlaceOK
    <3> QED  BY <1>4, <1>5, <1>7, <2>6, <3>6 DEF TrInv
  <2>7. CASE TrNextUnit = "ping-"
    <3>1. k = 0 /\ Len(lead) = 2
      BY <2>2, <2>3, <2>4, <2>5, <2>7
    <3>2. n = 2 /\ trOut' = trOut
      BY <1>1, <1>3, <2>7
    <3>3. Len(TrPending) >= 2
      <4>1. trConn.replay = <<>>
        BY <1>9 DEF TrInv, TrPlaceOK
      <4>2. trWire.alive
        <5>1. TrPending # <<>>
          BY <1>3, TrPendingIs
        <5>2. trWire.in # <<>>
          <6>1. <<>> \o <<>> = <<>>
            OBVIOUS
          <6> QED  BY <4>1, <5>1, <6>1 DEF TrPending
        <5> QED  BY <5>2 DEF TrInv, TrLinked
      <4>3. k + Len(TrPending) = Len(lead \o TrAnswer(mode))
        BY <2>1, <4>2 DEF TrReading, TrPendingFollows
      <4>4. Len(lead \o TrAnswer(mode)) = Len(lead) + TrChunks + 2 + (IF mode \in TrLateModes THEN 2 ELSE 0)
        BY <2>2, TrBehind
      <4> QED  BY <2>3, <2>4, <3>1, <4>3, <4>4
    <3>4. TrRead(lead, k) = 0 /\ TrRead(lead, k + n) = 0
      BY <3>1, <3>2 DEF TrRead
    <3>5. k + n >= Len(lead) /\ k + n <= Len(lead) + TrChunks + 1 /\ n <= Len(TrPending)
      BY <2>3, <2>4, <3>1, <3>2, <3>3
    <3> QED  BY <2>1, <2>6, <3>2, <3>4, <3>5
  <2>8. CASE TrNextUnit = "headers"
    <3>1. k = Len(lead)
      BY <2>2, <2>3, <2>4, <2>5, <2>8
    <3>2. n = 1 /\ trOut' = trOut
      BY <1>1, <1>3, <2>8
    <3>3. TrRead(lead, k) = 0 /\ TrRead(lead, k + n) = 0
      BY <2>2, <2>3, <3>1, <3>2 DEF TrRead
    <3>4. k + n >= Len(lead) /\ k + n <= Len(lead) + TrChunks + 1 /\ n <= Len(TrPending)
      BY <2>2, <2>3, <2>4, <3>1, <3>2
    <3> QED  BY <2>1, <2>6, <3>2, <3>3, <3>4
  <2>9. CASE TrNextUnit = "data"
    <3>1. k > Len(lead) /\ k <= Len(lead) + TrChunks
      BY <2>2, <2>3, <2>4, <2>5, <2>9
    <3>2. n = 1 /\ trOut' = TrAppend(trOut)
      BY <1>1, <1>3, <2>9
    <3>3. TrRead(lead, k) \in Nat /\ TrRead(lead, k + n) = TrRead(lead, k) + 1
      BY <2>2, <2>3, <3>1, <3>2 DEF TrRead
    <3>4. k + n >= Len(lead) /\ k + n <= Len(lead) + TrChunks + 1 /\ n <= Len(TrPending)
      BY <2>2, <2>3, <2>4, <3>1, <3>2
    <3>5. TrAppend(TrGiven(TrRead(lead, k))) = TrGiven(TrRead(lead, k) + 1)
      BY <1>9, <3>3, TrGivenNext
    <3> QED  BY <2>1, <2>6, <3>2, <3>3, <3>4, <3>5
  <2> QED  BY <1>1, <2>7, <2>8, <2>9
<1>10. CASE trCall.pc = "receive1"
  <2> DEFINE lead == <<"settings">>
  <2>1. PICK k \in 1 .. TrChunks + 2 : TrReading(lead, "upgrade", k) /\ trOut = TrBuffered(TrRead(lead, k))
    BY <1>10 DEF TrInv, TrPlaceOK
  <2>2. lead \in Seq(TrUnitKinds) /\ Len(lead) = 1
    BY TrSettingsLead
  <2> HIDE DEF lead
  <2>3. TrChunks \in Nat /\ k \in Nat /\ k >= 1
    BY TrConstants
  <2>4. /\ Len(TrPending) \in Nat \ {0}
        /\ k = Len(lead) => TrNextUnit = "headers"
        /\ k > Len(lead) /\ k <= Len(lead) + TrChunks => TrNextUnit = "data"
        /\ k = Len(lead) + TrChunks + 1 => TrNextUnit = "end"
    BY <1>3, <2>1, <2>2, <2>3, TrNextIs
  <2>5. k <= Len(lead) + TrChunks + 1
    BY <2>1 DEF TrReading
  <2>6. TrNextUnit # "ping-" /\ n = 1 /\ k + n <= Len(lead) + TrChunks + 1 /\ k + n >= Len(lead)
        /\ n <= Len(TrPending)
    <3>1. k = Len(lead) \/ (k > Len(lead) /\ k <= Len(lead) + TrChunks)
      BY <1>1, <2>2, <2>3, <2>4, <2>5
    <3>2. TrNextUnit # "ping-"
      BY <2>4, <3>1
    <3>3. n = 1
      BY <1>3, <3>2
    <3> QED  BY <2>2, <2>3, <2>4, <3>1, <3>2, <3>3
  <2>7. trOut' = TrBuffered(TrRead(lead, k + n))
    <3>1. CASE TrNextUnit = "data"
      <4>1. k > Len(lead)
        BY <2>2, <2>3, <2>4, <2>5, <3>1
      <4>2. TrRead(lead, k) \in Nat /\ TrRead(lead, k + n) = TrRead(lead, k) + 1
        BY <2>2, <2>3, <2>6, <4>1 DEF TrRead
      <4>3. TrAppend(TrBuffered(TrRead(lead, k))) = TrBuffered(TrRead(lead, k) + 1)
        BY <1>10, <4>2, TrGivenNext
      <4> QED  BY <1>1, <2>1, <3>1, <4>2, <4>3
    <3>2. CASE TrNextUnit = "headers"
      <4>1. k = Len(lead)
        BY <2>2, <2>3, <2>4, <2>5, <3>2
      <4>2. TrRead(lead, k) = 0 /\ TrRead(lead, k + n) = 0
        BY <2>2, <2>3, <2>6, <4>1 DEF TrRead
      <4> QED  BY <1>1, <2>1, <3>2, <4>2
    <3> QED  BY <1>1, <2>6, <3>1, <3>2
  <2>8. TrReading(lead, "upgrade", k + n)'
    BY <1>8, <2>1, <2>2, <2>3, <2>6
  <2>9. k + n \in 1 .. TrChunks + 2
    BY <2>2, <2>3, <2>6
  <2>10. trOut' = TrBuffered(TrRead(lead, k + n))'
    BY <1>4, <2>7
  <2>11. \E z \in 1 .. TrChunks + 2 : TrReading(lead, "upgrade", z)' /\ trOut' = TrBuffered(TrRead(lead, z))'
    BY <2>8, <2>9, <2>10
  <2>12. TrOverHttp2' /\ trRoute.clear = "upgrade"
    BY <1>7, <1>10, <2>6 DEF TrInv, TrPlaceOK
  <2>13. TrPlaceOK'
    <3> USE DEF lead
    <3> QED  BY <1>1, <1>10, <2>11, <2>12 DEF TrPlaceOK
  <2> QED  BY <1>4, <1>5, <1>7, <2>6, <2>13 DEF TrInv
<1> QED  BY <1>1, <1>9, <1>10

\* A connection error, and every other failure, ends the attempt.
LEMMA TrFailuresKeep ==
  ASSUME TrInv, TrReceiveGarbage \/ TrBodyFails \/ TrIoFails \/ TrAnswerFails, trRoute' = trRoute, trServer' = trServer
  PROVE  TrInv'
<1>1. CASE TrReceiveGarbage
  <2>1. trCall.pc \notin {"idle", "done"}
    BY <1>1 DEF TrReceiveGarbage, TrReceiving
  <2>2. \E f : TrFail("INVALID_NETWORK_RESPONSE", f)
    BY <1>1 DEF TrReceiveGarbage
  <2> QED  BY <2>1, <2>2, TrFailed
<1>2. CASE TrBodyFails
  <2>1. trCall.pc \notin {"idle", "done"} /\ TrFail("CONTENT_FAILED", 1)
    BY <1>2 DEF TrBodyFails
  <2> QED  BY <2>1, TrFailed
<1>3. CASE TrIoFails
  <2>1. trCall.pc \notin {"idle", "done"} /\ TrFail(TrPhaseStatus("DISCONNECTED"), 0)
    BY <1>3 DEF TrIoFails
  <2> QED  BY <2>1, TrFailed
<1>4. CASE TrAnswerFails
  <2>1. trCall.pc \notin {"idle", "done"} /\ \E status : TrFail(status, 1)
    BY <1>4 DEF TrAnswerFails
  <2> QED  BY <2>1, TrFailed
<1> QED  BY <1>1, <1>2, <1>3, <1>4

\* What stands behind an answer that has been read: nothing, or what is left of a late PING.
LEMMA TrRest ==
  ASSUME NEW lead \in Seq(TrUnitKinds), NEW mode, NEW k \in Nat, k = Len(lead) + TrChunks + 2,
         NEW units \in Seq(TrUnitKinds), TrFollows(units, lead \o TrAnswer(mode), k),
         NEW all, all => k + Len(units) = Len(lead \o TrAnswer(mode))
  PROVE  units = <<>> \/ (mode \in TrLateModes /\ TrFollows(units, TrLate, 0) /\ (all => 0 + Len(units) = Len(TrLate)))
<1> DEFINE whole == lead \o TrAnswer(mode)
           extra == IF mode \in TrLateModes THEN 2 ELSE 0
<1>1. units \in Seq(TrUnitKinds) /\ Len(units) \in Nat
  BY LenProperties
<1>2. /\ Len(whole) = Len(lead) + TrChunks + 2 + extra
      /\ \A i \in 1 .. TrChunks + 2 + extra : whole[Len(lead) + i] = TrAnswer(mode)[i]
  BY TrBehind
<1>3. Len(lead) \in Nat /\ TrChunks \in Nat /\ extra \in {0, 2} /\ (mode \in TrLateModes => extra = 2)
      /\ (mode \notin TrLateModes => extra = 0)
  BY LenProperties, TrConstants
<1>4. /\ k + Len(units) <= Len(whole) /\ \A i \in 1 .. Len(units) : units[i] = whole[k + i]
      /\ all => k + Len(units) = Len(whole)
  BY DEF TrFollows
<1> HIDE DEF whole, extra
<1>5. Len(units) <= extra /\ (all => Len(units) = extra)
  <2> DEFINE p == Len(units)
             l == Len(lead)
             x == Len(whole)
  <2>1. /\ p \in Nat /\ l \in Nat /\ TrChunks \in Nat /\ extra \in Nat
        /\ x = l + TrChunks + 2 + extra /\ k = l + TrChunks + 2 /\ k + p <= x
        /\ all => k + p = x
    BY <1>1, <1>2, <1>3, <1>4
  <2> HIDE DEF p, l, x
  <2>2. p <= extra /\ (all => p = extra)
    BY <2>1
  <2> QED  BY <2>2 DEF p
<1>6. CASE mode \notin TrLateModes
  <2>1. Len(units) = 0
    BY <1>1, <1>3, <1>5, <1>6
  <2> QED  BY <1>1, <2>1, EmptySeq
<1>7. CASE mode \in TrLateModes
  <2>1. TrAnswer(mode)[TrChunks + 3] = "ping-" /\ TrAnswer(mode)[TrChunks + 4] = "-ping"
    BY <1>7, TrAnswerIs
  <2>2. Len(TrLate) = 2 /\ TrLate[1] = "ping-" /\ TrLate[2] = "-ping"
    BY DEF TrLate
  <2>3. ASSUME NEW i \in 1 .. 2  PROVE  whole[k + i] = TrLate[i]
    <3> DEFINE j == TrChunks + 2 + i
    <3>1. j \in 1 .. TrChunks + 2 + extra /\ Len(lead) + j = k + i
      BY <1>3, <1>7
    <3>2. (i = 1 => j = TrChunks + 3) /\ (i = 2 => j = TrChunks + 4) /\ i \in {1, 2}
      BY <1>3
    <3> HIDE DEF j
    <3>3. whole[k + i] = TrAnswer(mode)[j]
      BY <1>2, <3>1
    <3>4. CASE i = 1
      <4>1. TrAnswer(mode)[j] = "ping-"
        BY <2>1, <3>2, <3>4
      <4> QED  BY <2>2, <3>3, <3>4, <4>1
    <3>5. CASE i = 2
      <4>1. TrAnswer(mode)[j] = "-ping"
        BY <2>1, <3>2, <3>5
      <4> QED  BY <2>2, <3>3, <3>5, <4>1
    <3> QED  BY <3>2, <3>4, <3>5
  <2>4. ASSUME NEW i \in 1 .. Len(units)  PROVE  units[i] = TrLate[0 + i]
    <3>1. i \in 1 .. 2 /\ 0 + i = i
      BY <1>1, <1>3, <1>5, <1>7
    <3>2. units[i] = whole[k + i] /\ whole[k + i] = TrLate[i]
      BY <1>4, <2>3, <3>1
    <3> QED  BY <3>1, <3>2
  <2>5. 0 + Len(units) <= Len(TrLate) /\ (all => 0 + Len(units) = Len(TrLate))
    BY <1>1, <1>3, <1>5, <1>7, <2>2
  <2> QED  BY <1>7, <2>4, <2>5 DEF TrFollows
<1> QED  BY <1>6, <1>7

\* The end of the answer is where the answer ends.
LEMMA TrEndIs ==
  ASSUME TrInv, NEW lead \in Seq(TrUnitKinds), NEW mode, NEW k \in Nat, TrReading(lead, mode, k),
         TrNextUnit = "end", 0 < Len(lead) => lead[1] # "end",
         trConn' = TrConnAfter(1), trWire' = TrWireAfter(1)
  PROVE  /\ k = Len(lead) + TrChunks + 1
         /\ (TrPending = <<>>)' \/ (mode \in TrLateModes /\ TrPendingFollows(TrLate, 0)')
<1>1. TrNextUnit # "nothing" /\ TrNextUnit # "headers" /\ TrNextUnit # "data"
  OBVIOUS
<1>2. /\ Len(TrPending) \in Nat \ {0}
      /\ k < Len(lead) => k = 0 /\ TrNextUnit = lead[1]
      /\ k = Len(lead) => TrNextUnit = "headers"
      /\ k > Len(lead) /\ k <= Len(lead) + TrChunks => TrNextUnit = "data"
  BY <1>1, TrNextIs
<1>3. Len(lead) \in Nat /\ TrChunks \in Nat /\ k <= Len(lead) + TrChunks + 1
  BY LenProperties, TrConstants DEF TrReading
<1>4. k = Len(lead) + TrChunks + 1
  <2>1. ~(k < Len(lead))
    <3>1. k < Len(lead) => 0 < Len(lead)
      BY <1>3
    <3> QED  BY <1>2, <3>1
  <2>2. k # Len(lead) /\ ~(k > Len(lead) /\ k <= Len(lead) + TrChunks)
    BY <1>1, <1>2
  <2> QED  BY <1>3, <2>1, <2>2
<1> DEFINE whole == lead \o TrAnswer(mode)
<1>5. whole \in Seq(TrUnitKinds) /\ TrPendingFollows(whole, k)
  BY TrBehind DEF TrReading
<1>6. TrConnAfter(1) = [TrConnAfter(1) EXCEPT !.http2 = trConn.http2] /\ trConn.http2 \in BOOLEAN
  BY TrSameHttp2
<1>7. PICK h \in BOOLEAN : trConn' = [TrConnAfter(1) EXCEPT !.http2 = h]
  BY <1>6
<1>8. 1 \in Nat /\ 1 <= Len(TrPending)
  <2> DEFINE p == Len(TrPending)
  <2>1. p \in Nat \ {0}
    BY <1>2
  <2> HIDE DEF p
  <2>2. 1 <= p
    BY <2>1
  <2> QED  BY <2>2 DEF p
<1> HIDE DEF whole
<1>9. TrPendingFollows(whole, k + 1)'
  BY <1>5, <1>7, <1>8, TrReads
<1>10. TrPending' \in Seq(TrUnitKinds)
  BY <1>7, <1>8, TrTakes
<1>11. /\ TrFollows(TrPending', whole, k + 1)
       /\ trWire'.alive => k + 1 + Len(TrPending') = Len(whole)
  BY <1>9 DEF TrPendingFollows, TrFollows
<1>12. k + 1 \in Nat /\ k + 1 = Len(lead) + TrChunks + 2
  BY <1>3, <1>4
<1>13. ASSUME NEW units, units = TrPending', NEW all, all = trWire'.alive
       PROVE  units = <<>> \/ (mode \in TrLateModes /\ TrFollows(units, TrLate, 0)
                               /\ (all => 0 + Len(units) = Len(TrLate)))
  <2> DEFINE j == k + 1
  <2>1. j \in Nat /\ j = Len(lead) + TrChunks + 2
    BY <1>12
  <2>2. units \in Seq(TrUnitKinds) /\ TrFollows(units, lead \o TrAnswer(mode), j)
        /\ (all => j + Len(units) = Len(lead \o TrAnswer(mode)))
    BY <1>10, <1>11, <1>13 DEF whole
  <2> HIDE DEF j
  <2> QED  BY <2>1, <2>2, TrRest
<1>14. TrPending' = <<>> \/ (mode \in TrLateModes /\ TrFollows(TrPending', TrLate, 0)
                             /\ (trWire'.alive => 0 + Len(TrPending') = Len(TrLate)))
  BY <1>13
<1> QED  BY <1>4, <1>14 DEF TrPendingFollows, TrFollows, TrLate

\* At the end of the answer the caller has been given all DATA frames, once.
LEMMA TrEndOfResponseKeeps ==
  ASSUME TrInv, TrEndOfResponse, trRoute' = trRoute, trServer' = trServer
  PROVE  TrInv'
<1>1. /\ trCall.pc \in {"receive", "receive1"} /\ TrNextUnit = "end"
      /\ trConn' = TrConnAfter(1) /\ trWire' = TrWireAfter(1)
      /\ trOut' = (IF TrStreams THEN TrHeadersDelivered(trOut) ELSE trOut)
      /\ TrGoto(IF TrStreams THEN "deliver" ELSE "decode")
      /\ trSeen' = trSeen
  BY DEF TrEndOfResponse, TrReceiving
<1>2. TrOverHttp2
  BY <1>1 DEF TrInv, TrPlaceOK
<1>3. PICK h \in BOOLEAN : trConn' = [TrConnAfter(1) EXCEPT !.http2 = h] /\ h = trConn.http2
  BY <1>1, TrSameHttp2
<1>4. 1 \in Nat /\ 1 <= Len(TrPending)
  <2>1. TrNextUnit # "nothing"
    BY <1>1
  <2>2. TrPending \in Seq(TrUnitKinds) /\ TrPending # <<>>
    BY <2>1, TrPendingIs
  <2>3. Len(TrPending) \in Nat \ {0}
    BY <2>2, EmptySeq
  <2> DEFINE p == Len(TrPending)
  <2>4. p \in Nat \ {0}
    BY <2>3
  <2> HIDE DEF p
  <2>5. 1 <= p
    BY <2>4
  <2> QED  BY <2>5 DEF p
<1>5. /\ trConn' \in TrConns /\ trWire' \in TrWires /\ TrLinked' /\ (TrUp => TrUp') /\ TrSpeaksH2' = TrSpeaksH2
      /\ trConn'.http2 = h /\ trWire'.speaks = trWire.speaks
      /\ trConn.replay = <<>> => trConn'.replay = <<>>
  <2>1. trConn' = [TrConnAfter(1) EXCEPT !.http2 = h] /\ trWire' = TrWireAfter(1)
    BY <1>1, <1>3
  <2> QED  BY <1>4, <2>1, TrStays
<1>6. TrOverHttp2'
  BY <1>2, <1>3, <1>5 DEF TrOverHttp2
<1>7. PICK p \in {"decode", "deliver"} : p = IF TrStreams THEN "deliver" ELSE "decode"
  OBVIOUS
<1>8. TrCallOK' /\ trCall'.pc = p /\ trCall'.status # "SUCCESS" /\ trCall'.number = trCall.number
      /\ trCall'.attempt = trCall.attempt /\ trCall'.request = trCall.request
  <2>1. TrGoto(p) /\ p \in TrAsked \ {"done"}
    BY <1>1, <1>7 DEF TrAsked
  <2> QED  BY <1>1, <2>1, TrMoves
<1>9. TrSeenOK'
  <2>1. TrHistory(trSeen', trCall.number, trCall.attempt, TRUE)
    BY <1>1, TrHistoryAsked DEF TrInv, TrSeenOK
  <2> QED  BY <1>8, <2>1, TrSeenFrame DEF TrAsked
<1>10. \A g : TrBuffered(g)' = TrBuffered(g) /\ TrShown(g)' = TrShown(g)
  BY <1>8 DEF TrBuffered, TrShown, TrUnitsOf, TrUnit
<1>11. (TrPending = <<>>)' \/ (TrPendingFollows(TrLate, 0)' /\ (trCall.pc = "receive1" => "upgrade" \in TrLateModes))
  <2>1. CASE trCall.pc = "receive"
    <3>1. PICK lead \in TrLeftovers, mode \in TrModes, k \in 0 .. TrChunks + 3 : TrReading(lead, mode, k)
      BY <2>1 DEF TrInv, TrPlaceOK
    <3>2. /\ lead \in Seq(TrUnitKinds) /\ k \in Nat
          /\ 0 < Len(lead) => lead[1] # "end"
      BY TrLeftoversAre
    <3> QED  BY <1>1, <2>1, <3>1, <3>2, TrEndIs
  <2>2. CASE trCall.pc = "receive1"
    <3>1. PICK k \in 1 .. TrChunks + 2 : TrReading(<<"settings">>, "upgrade", k)
      BY <2>2 DEF TrInv, TrPlaceOK
    <3>2. <<"settings">> \in Seq(TrUnitKinds) /\ <<"settings">>[1] # "end" /\ k \in Nat
      BY TrSettingsLead
    <3> QED  BY <1>1, <2>2, <3>1, <3>2, TrEndIs
  <2> QED  BY <1>1, <2>1, <2>2
<1>12. trConn'.replay = <<>> \/ "upgrade" \in TrLateModes
  <2>1. CASE trCall.pc = "receive"
    BY <1>5, <2>1 DEF TrInv, TrPlaceOK
  <2>2. CASE trCall.pc = "receive1" /\ "upgrade" \notin TrLateModes
    <3>1. trConn'.replay \o trWire'.in = <<>>
      BY <1>11, <2>2 DEF TrPending
    <3>2. trConn'.replay \in Seq(TrUnitKinds) /\ trWire'.in \in Seq(TrUnitKinds)
      BY <1>5 DEF TrConns, TrWires
    <3>3. trConn'.replay = <<>>
      BY <3>1, <3>2, ConcatEqualIffEmpty
    <3> QED  BY <3>3
  <2> QED  BY <1>1, <2>1, <2>2
<1>13. TrPlaceOK'
  BY <1>6, <1>7, <1>8, <1>11, <1>12 DEF TrPlaceOK
<1>14. TrOutOK'
  <2>1. CASE trCall.pc = "receive"
    <3>1. PICK lead \in TrLeftovers, mode \in TrModes, k \in 0 .. TrChunks + 3 :
            TrReading(lead, mode, k) /\ trOut = TrGiven(TrRead(lead, k))
      BY <2>1 DEF TrInv, TrPlaceOK
    <3>2. /\ lead \in Seq(TrUnitKinds) /\ k \in Nat
          /\ 0 < Len(lead) => lead[1] # "end"
      BY TrLeftoversAre
    <3>3. k = Len(lead) + TrChunks + 1
      BY <1>1, <3>1, <3>2, TrEndIs
    <3>4. TrRead(lead, k) = TrChunks /\ TrChunks \in Nat
      BY <3>2, <3>3, LenProperties, TrConstants DEF TrRead
    <3>5. CASE trCall.request.callback
      <4>1. p = "deliver" /\ trOut' = TrHeadersDelivered(TrGiven(TrChunks))
        BY <1>1, <1>7, <2>1, <3>1, <3>4, <3>5 DEF TrStreams
      <4>2. trOut' = TrShown(TrChunks)
        BY <2>1, <3>4, <3>5, <4>1, TrGivenHeaders
      <4>3. trOut' = TrShown(TrChunks)'
        BY <1>10, <4>2
      <4> QED  BY <1>8, <4>1, <4>3 DEF TrOutOK, LastAttemptDelivers, TrQuiet, TrWaiting
    <3>6. CASE ~trCall.request.callback
      <4>1. p = "decode" /\ trOut' = TrBuffered(TrChunks)
        BY <1>1, <1>7, <2>1, <3>1, <3>4, <3>6 DEF TrStreams, TrGiven
      <4>2. trOut' = TrBuffered(TrChunks)'
        BY <1>10, <4>1
      <4> QED  BY <1>8, <4>1, <4>2 DEF TrOutOK, LastAttemptDelivers, TrQuiet, TrWaiting
    <3> QED  BY <3>5, <3>6
  <2>2. CASE trCall.pc = "receive1"
    <3> DEFINE lead == <<"settings">>
    <3>1. PICK k \in 1 .. TrChunks + 2 : TrReading(lead, "upgrade", k) /\ trOut = TrBuffered(TrRead(lead, k))
      BY <2>2 DEF TrInv, TrPlaceOK
    <3>2. lead \in Seq(TrUnitKinds) /\ lead[1] # "end" /\ k \in Nat
      BY TrSettingsLead
    <3> HIDE DEF lead
    <3>3. k = Len(lead) + TrChunks + 1
      BY <1>1, <3>1, <3>2, TrEndIs
    <3>4. TrRead(lead, k) = TrChunks /\ TrChunks \in Nat
      BY <3>2, <3>3, LenProperties, TrConstants DEF TrRead
    <3>5. p = "decode" /\ trOut' = TrBuffered(TrChunks)
      BY <1>1, <1>7, <2>2, <3>1, <3>4 DEF TrStreams
    <3>6. trOut' = TrBuffered(TrChunks)'
      BY <1>10, <3>5
    <3> QED  BY <1>8, <3>5, <3>6 DEF TrOutOK, LastAttemptDelivers, TrQuiet, TrWaiting
  <2> QED  BY <1>1, <2>1, <2>2
<1> QED  BY <1>5, <1>8, <1>9, <1>13, <1>14 DEF TrInv

----------------------------------------
(* The end of an HTTP/2 response *)

\* Behind a response there is nothing, a late PING, or the second half of one.
LEMMA TrRestIsLeft ==
  ASSUME TrInv, trCall.pc \in {"decode", "deliver"}
  PROVE  trWire.in \in TrLeftovers
<1> DEFINE r == trConn.replay
           w == trWire.in
<1>1. /\ r = <<>> \/ "upgrade" \in TrLateModes
      /\ TrPending = <<>> \/ TrPendingFollows(TrLate, 0)
  BY DEF TrInv, TrPlaceOK
<1>2. /\ r \in Seq(TrUnitKinds) /\ w \in Seq(TrUnitKinds) /\ TrPending \in Seq(TrUnitKinds)
      /\ Len(TrPending) = Len(r) + Len(w)
      /\ \A i \in 1 .. Len(r) + Len(w) : TrPending[i] = IF i <= Len(r) THEN r[i] ELSE w[i - Len(r)]
  BY TrPendingIs
<1>3. Len(r) \in Nat /\ Len(w) \in Nat /\ (r = <<>> => Len(r) = 0) /\ (TrPending = <<>> => Len(TrPending) = 0)
  BY <1>2, LenProperties, EmptySeq
<1>4. <<>> \in TrLeftovers /\ TrLate \in TrLeftovers /\ ("upgrade" \in TrLateModes => <<"-ping">> \in TrLeftovers)
  BY DEF TrLeftovers, TrLate
<1>5. ~trWire.alive => w = <<>>
  BY DEF TrInv, TrLinked
<1>6. TrLate[1] = "ping-" /\ TrLate[2] = "-ping" /\ Len(TrLate) = 2 /\ TrLate \in Seq(TrUnitKinds)
  BY DEF TrLate, TrUnitKinds
<1> HIDE DEF r, w
<1>7. CASE TrPending = <<>>
  <2>1. Len(w) = 0
    BY <1>2, <1>3, <1>7
  <2>2. w = <<>>
    BY <1>2, <2>1, EmptySeq
  <2> QED  BY <1>4, <2>2 DEF w
<1>8. CASE trWire.alive /\ TrPendingFollows(TrLate, 0)
  <2>1. /\ 0 + Len(TrPending) = Len(TrLate)
        /\ \A i \in 1 .. Len(TrPending) : TrPending[i] = TrLate[0 + i]
    BY <1>8 DEF TrPendingFollows, TrFollows
  <2>2. Len(r) + Len(w) = 2
    BY <1>2, <1>3, <1>6, <2>1
  <2>3. \A i \in 1 .. 2 : TrPending[i] = TrLate[i]
    <3>1. \A i \in 1 .. 2 : i \in 1 .. Len(TrPending) /\ 0 + i = i
      BY <1>2, <2>2
    <3> QED  BY <2>1, <3>1
  <2>4. CASE Len(r) = 0
    <3>1. Len(w) = 2
      BY <1>3, <2>2, <2>4
    <3>2. ASSUME NEW i \in 1 .. 2  PROVE  w[i] = TrLate[i]
      <4>1. i \in 1 .. Len(r) + Len(w) /\ ~(i <= Len(r)) /\ i - Len(r) = i
        BY <2>2, <2>4
      <4>2. TrPending[i] = w[i - Len(r)]
        BY <1>2, <4>1
      <4> QED  BY <2>3, <4>1, <4>2
    <3>3. w = TrLate
      BY <1>2, <1>6, <3>1, <3>2, SeqEqual
    <3> QED  BY <1>4, <3>3 DEF w
  <2>5. CASE Len(r) = 1
    <3>1. Len(w) = 1 /\ r # <<>>
      <4>1. Len(w) = 1
        <5> DEFINE x == Len(w)
        <5>1. x \in Nat /\ 1 + x = 2
          BY <1>3, <2>2, <2>5
        <5> HIDE DEF x
        <5>2. x = 1
          BY <5>1
        <5> QED  BY <5>2 DEF x
      <4>2. Len(r) # 0
        BY <2>5
      <4> QED  BY <1>3, <4>1, <4>2
    <3>2. 2 \in 1 .. Len(r) + Len(w) /\ ~(2 <= Len(r)) /\ 2 - Len(r) = 1
      BY <2>2, <2>5
    <3>3. TrPending[2] = w[2 - Len(r)]
      BY <1>2, <3>2
    <3>4. w[1] = "-ping"
      BY <1>6, <2>3, <3>2, <3>3
    <3> DEFINE v == <<"-ping">>
    <3>5. v \in Seq(TrUnitKinds) /\ Len(v) = 1 /\ v[1] = "-ping"
      BY DEF TrUnitKinds
    <3>6. w = v
      <4> HIDE DEF v
      <4>1. \A i \in 1 .. Len(w) : w[i] = v[i]
        BY <3>1, <3>4, <3>5
      <4> QED  BY <1>2, <3>1, <3>5, <4>1, SeqEqual
    <3> QED  BY <1>1, <1>4, <3>1, <3>6 DEF w
  <2>6. CASE Len(r) = 2
    <3>1. Len(w) = 0
      BY <1>3, <2>2, <2>6
    <3>2. w = <<>>
      BY <1>2, <3>1, EmptySeq
    <3> QED  BY <1>4, <3>2 DEF w
  <2>7. Len(r) \in {0, 1, 2}
    <3> DEFINE x == Len(r)
               y == Len(w)
    <3>1. x \in Nat /\ y \in Nat /\ x + y = 2
      BY <1>3, <2>2
    <3> HIDE DEF x, y
    <3>2. x \in {0, 1, 2}
      BY <3>1
    <3> QED  BY <3>2 DEF x
  <2> QED  BY <2>4, <2>5, <2>6, <2>7
<1>9. CASE ~trWire.alive
  BY <1>4, <1>5, <1>9 DEF w
<1> QED  BY <1>1, <1>7, <1>8, <1>9

\* Decoding yields the whole body, and a body without coding is it already.
LEMMA TrDecodedIs ==
  /\ TrDecoded(TrUnitsOf(TrChunks)) = TrWhole
  /\ ~trCall.request.coded => TrUnitsOf(TrChunks) = TrWhole
<1>1. DOMAIN TrUnitsOf(TrChunks) = 1 .. TrChunks
  BY DEF TrUnitsOf
<1> QED  BY <1>1 DEF TrDecoded, TrUnitsOf, TrUnit, TrWhole

\* A response that has been taken up by its caller.
LEMMA TrTakenUp ==
  ASSUME TrInv, trRoute' = trRoute, trServer' = trServer, trCall.pc \in {"decode", "deliver"},
         trCall' = [trCall EXCEPT !.pc = "done", !.status = "SUCCESS"], trSeen' = trSeen,
         NEW keep, TrRelease(trConn, trWire, keep),
         trCall'.request = trCall.request => LastAttemptDelivers'
  PROVE  TrInv'
<1>1. TrOverHttp2 /\ trWire.in \in TrLeftovers
  BY TrRestIsLeft DEF TrInv, TrPlaceOK
<1>2. trWire = [trWire EXCEPT !.in = trWire.in] /\ trWire.in \in Seq(TrUnitKinds) /\ (~trWire.alive => trWire.in = <<>>)
  BY DEF TrInv, TrWires, TrLinked
<1>3. /\ TrCallShape
  BY DEF TrInv, TrCallOK
<1>4. /\ trCall'.pc = "done" /\ trCall'.number = trCall.number /\ trCall'.attempt = trCall.attempt
      /\ trCall'.request = trCall.request /\ trCall'.phase = trCall.phase /\ trCall'.earlier = trCall.earlier
  BY <1>3
<1>5. TrCallOK'
  <2>1. TrCallShape'
    BY <1>3
  <2> QED  BY <1>4, <2>1 DEF TrInv, TrCallOK, TrAsked
<1>6. trConn' \in TrConns /\ trWire' \in TrWires /\ TrLinked' /\ TrPlaceOK'
  <2>1. PICK in \in Seq(TrUnitKinds) : in = trWire.in
    BY <1>2
  <2>2. TrRelease(trConn, [trWire EXCEPT !.in = in], keep)
    BY <1>2, <2>1
  <2>3. TrUp /\ (trConn.http2 <=> TrSpeaksH2) /\ (~trWire.alive => in = <<>>)
        /\ (trConn.http2 => trWire.speaks = "h2" /\ in \in TrLeftovers) /\ (~trConn.http2 => trWire.speaks = "h1")
    BY <1>1, <1>2, <2>1 DEF TrOverHttp2
  <2> QED  BY <1>4, <2>2, <2>3, TrFinished
<1>7. TrOutOK'
  BY <1>4 DEF TrOutOK, TrQuiet, TrWaiting
<1>8. TrSeenOK'
  <2>1. TrHistory(trSeen', trCall.number, trCall.attempt, TRUE)
    BY TrHistoryAsked DEF TrInv, TrSeenOK
  <2> QED  BY <1>4, <2>1, TrSeenFrame DEF TrAsked
<1> QED  BY <1>5, <1>6, <1>7, <1>8 DEF TrInv

\* A buffered body is decoded and returned.
LEMMA TrDecodeKeeps ==
  ASSUME TrInv, NEW reusable \in BOOLEAN, TrDecode(reusable), trRoute' = trRoute, trServer' = trServer
  PROVE  TrInv'
<1>1. /\ trCall.pc = "decode"
      /\ trOut' = [trOut EXCEPT !.body = TrDecoded(trOut.buffer), !.http2 = TRUE]
      /\ TrRelease(trConn, trWire, reusable)
      /\ trCall' = [trCall EXCEPT !.pc = "done", !.status = "SUCCESS"]
      /\ trSeen' = trSeen
  BY DEF TrDecode
<1>2. trOut = TrBuffered(TrChunks)
  BY <1>1 DEF TrInv, TrOutOK
<1>3. trOut.buffer = TrUnitsOf(TrChunks)
  BY <1>2 DEF TrBuffered, TrNoOut
<1>4. trOut' = [TrBuffered(TrChunks) EXCEPT !.body = TrWhole, !.http2 = TRUE]
  BY <1>1, <1>2, <1>3, TrDecodedIs
<1>5. trOut'.final = 0 /\ trOut'.live = <<>> /\ trOut'.body = TrWhole
  BY <1>4 DEF TrBuffered, TrNoOut
<1>6. LastAttemptDelivers'
  BY <1>5 DEF LastAttemptDelivers, TrWhole
<1> QED  BY <1>1, <1>6, TrTakenUp

\* A streamed body ends: its rest is shown, then the end, and it is returned when asked for.
LEMMA TrDeliverKeeps ==
  ASSUME TrInv, NEW reusable \in BOOLEAN, TrDeliver(reusable), trRoute' = trRoute, trServer' = trServer
  PROVE  TrInv'
<1> DEFINE q == trCall.request
           u == TrUnitsOf(TrChunks)
           both == q.aggregate \/ q.coded
           live == IF q.coded THEN trOut.live \o TrDecoded(trOut.buffer) ELSE trOut.live
           body == IF ~q.aggregate THEN <<>> ELSE IF q.coded THEN TrDecoded(trOut.buffer) ELSE trOut.buffer
<1>1. /\ trCall.pc = "deliver"
      /\ trOut' = [trOut EXCEPT !.live = live, !.final = @ + 1, !.body = body, !.http2 = TRUE]
      /\ TrRelease(trConn, trWire, reusable)
      /\ trCall' = [trCall EXCEPT !.pc = "done", !.status = "SUCCESS"]
      /\ trSeen' = trSeen
  BY DEF TrDeliver
<1>2. trOut = TrShown(TrChunks)
  BY <1>1 DEF TrInv, TrOutOK
<1>3. trOut.buffer = (IF both THEN u ELSE <<>>) /\ trOut.live = (IF q.coded THEN <<>> ELSE u) /\ trOut.final = 0
  BY <1>2 DEF TrShown, TrNoOut
<1>4. TrDecoded(u) = TrWhole /\ (~q.coded => u = TrWhole)
  BY TrDecodedIs
<1>5. <<>> \o TrWhole = TrWhole
  <2>1. TrWhole \in Seq({"plain"})
    BY TrConstants DEF TrWhole
  <2> QED  BY <2>1, ConcatEmptySeq
<1>6. live = TrWhole
  <2> HIDE DEF u
  <2>1. CASE q.coded
    BY <1>3, <1>4, <1>5, <2>1
  <2>2. CASE ~q.coded
    BY <1>3, <1>4, <2>2
  <2> QED  BY <2>1, <2>2
<1>7. body = IF q.aggregate THEN TrWhole ELSE <<>>
  <2> HIDE DEF u
  <2>1. CASE q.aggregate
    BY <1>3, <1>4, <2>1
  <2>2. CASE ~q.aggregate
    BY <2>2
  <2> QED  BY <2>1, <2>2
<1> HIDE DEF live, body
<1>8. trOut'.live = live /\ trOut'.final = 1 /\ trOut'.body = body
  <2>1. [TrShown(TrChunks) EXCEPT !.live = live, !.final = @ + 1, !.body = body, !.http2 = TRUE].live = live
    BY DEF TrShown, TrNoOut
  <2>2. [TrShown(TrChunks) EXCEPT !.live = live, !.final = @ + 1, !.body = body, !.http2 = TRUE].final = 1
    BY DEF TrShown, TrNoOut
  <2>3. [TrShown(TrChunks) EXCEPT !.live = live, !.final = @ + 1, !.body = body, !.http2 = TRUE].body = body
    BY DEF TrShown, TrNoOut
  <2> QED  BY <1>1, <1>2, <2>1, <2>2, <2>3
<1>9. ASSUME trCall'.request = trCall.request  PROVE  LastAttemptDelivers'
  <2>1. trOut'.live = TrWhole /\ trOut'.final = 1
        /\ trOut'.body = IF trCall'.request.aggregate THEN TrWhole ELSE <<>>
    BY <1>6, <1>7, <1>8, <1>9
  <2>2. TrWhole' = TrWhole
    BY DEF TrWhole
  <2>3. trOut'.final \in {0, 1} /\ trOut'.final # 0
    BY <2>1
  <2> QED  BY <2>1, <2>2, <2>3 DEF LastAttemptDelivers
<1> QED  BY <1>1, <1>9, TrTakenUp

----------------------------------------
(* Faults of the network *)

\* The byte stream as it was, or broken with nothing of it left to read.
TrMayBreak ==
  \/ trWire' = trWire
  \/ trWire' = [trWire EXCEPT !.alive = FALSE, !.in = <<>>]

\* What a break takes away is the end of what was to come.
LEMMA TrBreakFollows ==
  ASSUME TrInv, trConn' = trConn, TrMayBreak, NEW whole \in Seq(TrUnitKinds), NEW k \in Nat
  PROVE  /\ TrPendingFollows(whole, k) => TrPendingFollows(whole, k)'
         /\ TrPending = <<>> => TrPending' = <<>>
<1>1. CASE trWire' = trWire
  <2>1. TrPending' = TrPending
    BY <1>1 DEF TrPending
  <2> QED  BY <1>1, <2>1 DEF TrPendingFollows, TrFollows
<1>2. CASE trWire' = [trWire EXCEPT !.alive = FALSE, !.in = <<>>]
  <2> DEFINE r == trConn.replay
             w == trWire.in
  <2>1. /\ r \in Seq(TrUnitKinds) /\ w \in Seq(TrUnitKinds) /\ TrPending \in Seq(TrUnitKinds)
        /\ Len(TrPending) = Len(r) + Len(w)
        /\ \A i \in 1 .. Len(r) + Len(w) : TrPending[i] = IF i <= Len(r) THEN r[i] ELSE w[i - Len(r)]
    BY TrPendingIs
  <2>2. trWire'.in = <<>> /\ trWire'.alive = FALSE
    BY <1>2 DEF TrInv, TrWires
  <2>3. TrPending' = r
    <3>1. TrPending' = r \o <<>>
      BY <2>2 DEF TrPending
    <3> QED  BY <2>1, <3>1, ConcatEmptySeq
  <2>4. Len(r) \in Nat /\ Len(w) \in Nat /\ Len(whole) \in Nat
    BY <2>1, LenProperties
  <2>5. ASSUME TrPending = <<>>  PROVE  TrPending' = <<>>
    <3>1. r \o w = <<>>
      BY <2>5 DEF TrPending
    <3> QED  BY <2>1, <2>3, <3>1, ConcatEqualIffEmpty
  <2> HIDE DEF r, w
  <2>6. ASSUME TrPendingFollows(whole, k)  PROVE  TrPendingFollows(whole, k)'
    <3>1. /\ k + Len(TrPending) <= Len(whole)
          /\ \A i \in 1 .. Len(TrPending) : TrPending[i] = whole[k + i]
      BY <2>6 DEF TrPendingFollows, TrFollows
    <3>2. k + Len(r) <= Len(whole)
      BY <2>1, <2>4, <3>1
    <3>3. ASSUME NEW i \in 1 .. Len(r)  PROVE  r[i] = whole[k + i]
      <4>1. i \in 1 .. Len(r) + Len(w) /\ i <= Len(r) /\ i \in 1 .. Len(TrPending)
        BY <2>1, <2>4
      <4> QED  BY <2>1, <3>1, <4>1
    <3> QED  BY <2>2, <2>3, <3>2, <3>3 DEF TrPendingFollows, TrFollows
  <2> QED  BY <2>5, <2>6
<1> QED  BY <1>1, <1>2 DEF TrMayBreak

\* Whatever place a request is at, it stays there.
LEMMA TrPlaceStays ==
  ASSUME TrInv, trRoute' = trRoute, trConn' = trConn, TrMayBreak, trOut' = trOut,
         trCall'.pc = trCall.pc, trCall'.request = trCall.request
  PROVE  trWire' \in TrWires /\ TrLinked' /\ TrPlaceOK'
<1>1. /\ trWire' \in TrWires
      /\ trWire'.peer = trWire.peer /\ trWire'.tls = trWire.tls /\ trWire'.alpn = trWire.alpn
      /\ trWire'.speaks = trWire.speaks
      /\ \/ trWire'.in = trWire.in /\ trWire'.alive = trWire.alive
         \/ trWire'.in = <<>> /\ trWire'.alive = FALSE
  <2>1. trWire \in TrWires /\ <<>> \in Seq(TrUnitKinds)
    BY EmptySeq DEF TrInv
  <2>2. CASE trWire' = trWire
    BY <2>1, <2>2
  <2>3. CASE trWire' = [trWire EXCEPT !.alive = FALSE, !.in = <<>>]
    BY <2>1, <2>3 DEF TrWires
  <2> QED  BY <2>2, <2>3 DEF TrMayBreak
<1>2. TrLinked'
  BY <1>1 DEF TrInv, TrLinked
<1>3. <<>> \in TrLeftovers
  BY DEF TrLeftovers
<1>4. /\ TrFresh => TrFresh'
      /\ TrReady => TrReady'
      /\ TrSettled => TrSettled'
      /\ TrUpgraded => TrUpgraded'
      /\ TrOverHttp2 => TrOverHttp2'
      /\ TrUp' = TrUp /\ TrSpeaksH2' = TrSpeaksH2
  BY <1>1, <1>3 DEF TrFresh, TrReady, TrSettled, TrUpgraded, TrOverHttp2, TrUp, TrSpeaksH2, TrUntouched
<1>5. \A g : TrGiven(g)' = TrGiven(g) /\ TrBuffered(g)' = TrBuffered(g)
  BY DEF TrGiven, TrBuffered, TrShown, TrUnitsOf, TrUnit
<1>6. /\ trCall.pc \in {"idle", "done", "socket"} => trConn'.replay = <<>> /\ (trConn'.up => TrSettled')
      /\ trCall.pc = "connect" => trConn' = TrNoConn
      /\ trCall.pc = "tls" => trRoute.https /\ (TrFresh' \/ TrSettled')
      /\ trCall.pc = "tunnel" => trRoute.https /\ TrFresh'
      /\ trCall.pc = "handshake" => trRoute.https /\ TrFresh' /\ (trRoute.proxied => trConn'.tunnel)
      /\ trCall.pc = "dispatch" => TrReady' \/ TrSettled'
      /\ trCall.pc = "upgrade" => TrReady' /\ trRoute.clear = "upgrade"
      /\ trCall.pc = "http2" => TrSpeaksH2' /\ (TrReady' \/ TrSettled')
      /\ trCall.pc = "http1" => ~TrSpeaksH2' /\ (TrReady' \/ TrSettled')
      /\ trCall.pc = "response" =>
           TrUp' /\ ~TrSpeaksH2' /\ ~trConn'.http2 /\ trConn'.replay = <<>> /\ trWire'.speaks = "h1"
  BY <1>1, <1>4 DEF TrInv, TrPlaceOK
<1>7. trCall.pc = "upgrading" =>
       /\ TrUpgraded' /\ trConn'.replay = <<>>
       /\ \/ trWire'.speaks = "101" /\ trWire'.in \in {<<>>, <<"101">>, <<"101", "settings">> \o TrAnswer("upgrade")}
          \/ trWire'.speaks = "h1" /\ trWire'.in \in {<<>>, <<"response">>}
  BY <1>1, <1>4 DEF TrInv, TrPlaceOK
<1>8. trCall.pc = "settings" =>
       /\ TrUp' /\ TrSpeaksH2' /\ ~trConn'.http2 /\ trConn'.replay = <<>>
       /\ trWire'.speaks = "h2" /\ trWire'.in \in {<<>>, <<"settings">>}
  BY <1>1, <1>4 DEF TrInv, TrPlaceOK
<1>9. /\ trCall.pc = "initialize" =>
           TrUpgraded' /\ trWire'.speaks = "101" /\ TrPendingFollows(<<"settings">> \o TrAnswer("upgrade"), 0)'
      /\ trCall.pc = "settings1" =>
           TrUpgraded' /\ trWire'.speaks = "h2" /\ TrPendingFollows(<<"settings">> \o TrAnswer("upgrade"), 0)'
  <2>1. <<"settings">> \o TrAnswer("upgrade") \in Seq(TrUnitKinds)
    BY TrSettingsLead, TrBehind
  <2>2. TrPendingFollows(<<"settings">> \o TrAnswer("upgrade"), 0)
          => TrPendingFollows(<<"settings">> \o TrAnswer("upgrade"), 0)'
    BY <2>1, TrBreakFollows
  <2> QED  BY <1>1, <1>4, <2>2 DEF TrInv, TrPlaceOK
<1>10. ASSUME NEW lead \in Seq(TrUnitKinds), NEW mode, NEW k \in Nat, TrReading(lead, mode, k)
       PROVE  TrReading(lead, mode, k)'
  <2>1. lead \o TrAnswer(mode) \in Seq(TrUnitKinds)
    BY TrBehind
  <2>2. TrPendingFollows(lead \o TrAnswer(mode), k)'
    BY <1>10, <2>1, TrBreakFollows DEF TrReading
  <2> QED  BY <1>10, <2>2 DEF TrReading
<1>11. ASSUME trCall.pc = "receive"
       PROVE  /\ TrOverHttp2' /\ trConn'.replay = <<>>
              /\ \E lead \in TrLeftovers, mode \in TrModes, k \in 0 .. TrChunks + 3 :
                   TrReading(lead, mode, k)' /\ trOut' = TrGiven(TrRead(lead, k))'
  <2>1. TrOverHttp2 /\ trConn.replay = <<>>
    BY <1>11 DEF TrInv, TrPlaceOK
  <2>2. PICK lead \in TrLeftovers, mode \in TrModes, k \in 0 .. TrChunks + 3 :
          TrReading(lead, mode, k) /\ trOut = TrGiven(TrRead(lead, k))
    BY <1>11 DEF TrInv, TrPlaceOK
  <2>3. lead \in Seq(TrUnitKinds) /\ k \in Nat
    BY TrLeftoversAre
  <2>4. TrReading(lead, mode, k)'
    BY <1>10, <2>2, <2>3
  <2>5. trOut' = TrGiven(TrRead(lead, k))'
    BY <1>5, <2>2
  <2> QED  BY <1>4, <2>1, <2>4, <2>5
<1>12. ASSUME trCall.pc = "receive1"
       PROVE  /\ TrOverHttp2' /\ trRoute.clear = "upgrade"
              /\ \E k \in 1 .. TrChunks + 2 :
                   TrReading(<<"settings">>, "upgrade", k)' /\ trOut' = TrBuffered(TrRead(<<"settings">>, k))'
  <2>1. TrOverHttp2 /\ trRoute.clear = "upgrade"
    BY <1>12 DEF TrInv, TrPlaceOK
  <2> DEFINE lead == <<"settings">>
  <2>2. PICK k \in 1 .. TrChunks + 2 : TrReading(lead, "upgrade", k) /\ trOut = TrBuffered(TrRead(lead, k))
    BY <1>12 DEF TrInv, TrPlaceOK
  <2>3. lead \in Seq(TrUnitKinds) /\ k \in Nat
    BY TrSettingsLead
  <2> HIDE DEF lead
  <2>4. TrReading(lead, "upgrade", k)'
    BY <1>10, <2>2, <2>3
  <2>5. trOut' = TrBuffered(TrRead(lead, k))'
    BY <1>5, <2>2
  <2> USE DEF lead
  <2> QED  BY <1>4, <2>1, <2>4, <2>5
<1>13. ASSUME trCall.pc \in {"decode", "deliver"}
       PROVE  /\ TrOverHttp2'
              /\ trConn'.replay = <<>> \/ "upgrade" \in TrLateModes
              /\ TrPending' = <<>> \/ TrPendingFollows(TrLate, 0)'
  <2>1. TrLate \in Seq(TrUnitKinds)
    BY DEF TrLate, TrUnitKinds
  <2>2. /\ TrPendingFollows(TrLate, 0) => TrPendingFollows(TrLate, 0)'
        /\ TrPending = <<>> => TrPending' = <<>>
    BY <2>1, TrBreakFollows
  <2> QED  BY <1>4, <1>13, <2>2 DEF TrInv, TrPlaceOK
<1> HIDE DEF TrMayBreak
<1>14. TrPlaceOK'
  BY <1>6, <1>7, <1>8, <1>9, <1>11, <1>12, <1>13 DEF TrPlaceOK
<1> QED  BY <1>1, <1>2, <1>14

\* A byte stream that breaks takes nothing away that has been read of it.
LEMMA TrWireBreaksKeeps ==
  ASSUME TrInv, TrWireBreaks
  PROVE  TrInv'
<1>1. /\ trWire' = [trWire EXCEPT !.alive = FALSE, !.in = <<>>]
      /\ trCall' = [trCall EXCEPT !.faults = @ + 1]
      /\ UNCHANGED <<trRoute, trServer, trConn, trOut, trSeen>>
  BY DEF TrWireBreaks
<1>2. /\ TrCallShape
  BY DEF TrInv, TrCallOK
<1>3. /\ trCall'.pc = trCall.pc /\ trCall'.number = trCall.number /\ trCall'.attempt = trCall.attempt
      /\ trCall'.status = trCall.status /\ trCall'.request = trCall.request /\ trCall'.phase = trCall.phase /\ trCall'.earlier = trCall.earlier
  BY <1>1, <1>2
<1>4. TrCallShape'
  BY <1>1, <1>2
<1>5. TrCallOK'
  BY <1>1, <1>3, <1>4 DEF TrInv, TrCallOK, TrEarlyStatus, RequestUsesExpectContinue
<1>6. trWire' \in TrWires /\ TrLinked' /\ TrPlaceOK'
  BY <1>1, <1>3, TrPlaceStays DEF TrMayBreak
<1>7. TrOutOK'
  <2>1. \A g : TrBuffered(g)' = TrBuffered(g) /\ TrShown(g)' = TrShown(g)
    BY <1>3 DEF TrBuffered, TrShown, TrUnitsOf, TrUnit
  <2> QED  BY <1>1, <1>3, <2>1 DEF TrInv, TrOutOK, LastAttemptDelivers, TrWhole
<1>8. TrSeenOK'
  BY <1>1, <1>3, TrSeenFrame DEF TrInv, TrSeenOK
<1> QED  BY <1>1, <1>5, <1>6, <1>7, <1>8 DEF TrInv

\* A disconnect that is indicated leaves a connection that is not up.
LEMMA TrDisconnectIndicatedKeeps ==
  ASSUME TrInv, TrDisconnectIndicated
  PROVE  TrInv'
<1>1. /\ trConn.up /\ ~trWire.alive /\ trCall.pc \in {"idle", "done"}
      /\ trConn' = [trConn EXCEPT !.up = FALSE]
      /\ UNCHANGED <<trRoute, trServer, trWire, trCall, trOut, trSeen>>
  BY DEF TrDisconnectIndicated
<1>2. trConn' \in TrConns /\ trConn'.up = FALSE /\ trConn'.replay = trConn.replay
  BY <1>1 DEF TrInv, TrConns
<1>3. TrLinked'
  BY <1>1, <1>2 DEF TrInv, TrLinked
<1>4. TrPlaceOK'
  BY <1>1, <1>2 DEF TrInv, TrPlaceOK
<1>5. TrCallOK' /\ TrSeenOK'
  BY <1>1, TrCallSame
<1>6. TrOutOK'
  BY <1>1 DEF TrInv, TrOutOK, LastAttemptDelivers, TrWhole, TrBuffered, TrShown, TrUnitsOf, TrUnit
<1> QED  BY <1>1, <1>2, <1>3, <1>4, <1>5, <1>6 DEF TrInv

----------------------------------------
(* The invariant *)

\* A pool key that has not been used.
LEMMA TrInitially == TrInit => TrInv
<1> SUFFICES ASSUME TrInit  PROVE TrInv
  OBVIOUS
<1>1. /\ trRoute \in TrRoutes /\ trServer \in TrServers /\ trConn = TrNoConn /\ trWire = TrDeadWire
      /\ trCall = TrIdle /\ trOut = TrNoOut /\ trSeen = {}
  BY DEF TrInit
<1>2. trConn \in TrConns /\ trWire \in TrWires
  BY <1>1, EmptySeq DEF TrNoConn, TrDeadWire, TrConns, TrWires
<1>3. /\ trCall.pc = "idle" /\ trCall.number = 0 /\ trCall.attempt = 0 /\ trCall.status = ""
      /\ trCall.phase = "first"
  BY <1>1 DEF TrIdle
<1>4. TrCallShape
  BY <1>1 DEF TrIdle
<1>5. TrCallOK
  <2>1. trCall.number \in Nat /\ trCall.attempt # 2
    <3>1. TrIdle.number = 0 /\ TrIdle.attempt = 0
      BY DEF TrIdle
    <3> QED  BY <1>1, <3>1
  <2>2. trCall.status # "SUCCESS" /\ trCall.phase # "confirm"
    BY <1>3
  <2>3. trCall.pc = "idle" /\ (trCall.pc = "idle" <=> trCall.number = 0)
    BY <1>3
  <2>4. ShowsABeginning(trCall.earlier)
    <3>1. TrIdle.earlier = TrNoOut
      BY DEF TrIdle
    <3> QED  BY <1>1, <3>1, TrNothingShown
  <2> QED  BY <1>4, <2>1, <2>2, <2>3, <2>4 DEF TrCallOK
<1>6. TrLinked
  BY <1>1 DEF TrLinked, TrNoConn, TrDeadWire
<1>7. TrPlaceOK
  BY <1>1, <1>3 DEF TrPlaceOK, TrNoConn
<1>8. TrOutOK
  BY <1>1, <1>3 DEF TrOutOK, LastAttemptDelivers, TrQuiet
<1>9. TrSeenOK
  BY <1>1 DEF TrSeenOK, TrHistory
<1> QED  BY <1>1, <1>2, <1>5, <1>6, <1>7, <1>8, <1>9 DEF TrInv

\* A step that changes nothing.
LEMMA TrStutters ==
  ASSUME TrInv, UNCHANGED trVars
  PROVE  TrInv'
<1>1. /\ trRoute' = trRoute /\ trServer' = trServer /\ trConn' = trConn /\ trWire' = trWire
      /\ trCall' = trCall /\ trOut' = trOut /\ trSeen' = trSeen
  BY DEF trVars
<1>2. TrCallOK' /\ TrSeenOK'
  BY <1>1, TrCallSame
<1>3. TrPlaceOK'
  BY <1>1, TrPlaceStays DEF TrMayBreak
<1>4. TrOutOK'
  BY <1>1 DEF TrInv, TrOutOK, LastAttemptDelivers, TrWhole, TrBuffered, TrShown, TrUnitsOf, TrUnit
<1> QED  BY <1>1, <1>2, <1>3, <1>4, TrSameBytes

\* Every step keeps the invariant.
LEMMA TrStep == TrInv /\ [TrNext]_trVars => TrInv'
<1> SUFFICES ASSUME TrInv, [TrNext]_trVars  PROVE TrInv'
  OBVIOUS
<1>1. CASE UNCHANGED trVars
  BY <1>1, TrStutters
<1>2. CASE TrConnecting /\ trRoute' = trRoute /\ trServer' = trServer
  <2>1. ASSUME NEW new \in TrRequests, TrSend(new)  PROVE TrInv'
    BY <1>2, <2>1, TrSendKeeps
  <2>2. CASE EnsureSocketConnected \/ ConnectSocketToAddress
    BY <1>2, <2>2, EnsureSocketConnectedKeeps, ConnectSocketToAddressKeeps
  <2>3. CASE TrAddressFails \/ TrNoAddressLeft
    BY <1>2, <2>3, TrAddressFailsKeeps, TrNoAddressLeftKeeps
  <2>4. CASE EnsureTlsConnected \/ EstablishProxyTunnel \/ ConnectTlsOnExistingSocket
    BY <1>2, <2>4, EnsureTlsConnectedKeeps, EstablishProxyTunnelKeeps, ConnectTlsKeeps
  <2>5. ASSUME NEW failure \in {"version", "early", "other"}, TrHandshakeFails(failure)  PROVE TrInv'
    BY <1>2, <2>5, TrHandshakeFailsKeeps
  <2> QED  BY <1>2, <2>1, <2>2, <2>3, <2>4, <2>5 DEF TrConnecting
<1>3. CASE TrTalking /\ trRoute' = trRoute /\ trServer' = trServer
  <2>1. CASE TrDispatch \/ TrSendHttp1
    BY <1>3, <2>1, TrDispatchKeeps, TrSendHttp1Keeps
  <2>2. ASSUME NEW reusable \in BOOLEAN, TrReadHttp1(reusable) \/ TrDecode(reusable) \/ TrDeliver(reusable)
        PROVE  TrInv'
    BY <1>3, <2>2, TrReadHttp1Keeps, TrDecodeKeeps, TrDeliverKeeps
  <2>3. CASE TrSendUpgrade \/ ReadH2cUpgradeResponse \/ TrInitialize \/ TrInitializeAfterUpgrade
    BY <1>3, <2>3, TrSendUpgradeKeeps, ReadH2cUpgradeResponseKeeps, TrInitializeKeeps, TrInitializeAfterUpgradeKeeps
  <2>4. CASE TrReadSettings \/ TrBeginRequest \/ TrReceiveFrame \/ TrEndOfResponse
    BY <1>3, <2>4, TrReadSettingsKeeps, TrBeginRequestKeeps, TrReceiveFrameKeeps, TrEndOfResponseKeeps
  <2>5. CASE TrReceiveGarbage \/ TrBodyFails \/ TrIoFails \/ TrAnswerFails
    BY <1>3, <2>5, TrFailuresKeep
  <2> QED  BY <1>3, <2>1, <2>2, <2>3, <2>4, <2>5 DEF TrTalking
<1>4. CASE TrPeerStartsHttp2 \/ TrWireBreaks \/ TrDisconnectIndicated
  BY <1>4, TrPeerStartsHttp2Keeps, TrWireBreaksKeeps, TrDisconnectIndicatedKeeps
<1> QED  BY <1>1, <1>2, <1>3, <1>4 DEF TrNext

----------------------------------------
(* What it says *)

\* An attempt sends its request once, so a call sends it at most as often as it is attempted.
LEMMA TrSentFew ==
  ASSUME TrInv, NEW n
  PROVE  /\ IsFiniteSet(TrSentRequests(n)) /\ Cardinality(TrSentRequests(n)) <= 2
         /\ trCall.request.method # "GET" => Cardinality(TrSentRequests(trCall.number)) <= 1
<1>1. \A e, f \in trSeen :
        e.what = "request" /\ f.what = "request" /\ e.call = f.call /\ e.attempt = f.attempt => e = f
  BY DEF TrInv, TrSeenOK, TrHistory
<1>2. \A e \in trSeen : e.attempt \in {1, 2} /\ (e.call = trCall.number => e.attempt <= trCall.attempt)
      /\ e.call \in 1 .. trCall.number
  BY DEF TrInv, TrSeenOK, TrHistory
<1> DEFINE Of(m, i) == {e \in TrSentRequests(m) : e.attempt = i}
<1>3. ASSUME NEW m, NEW i  PROVE  IsFiniteSet(Of(m, i)) /\ Cardinality(Of(m, i)) \in {0, 1}
  <2>1. CASE Of(m, i) = {}
    BY <2>1, FS_EmptySet
  <2>2. ASSUME NEW x \in Of(m, i)  PROVE  Of(m, i) = {x}
    BY <1>1, <2>2 DEF TrSentRequests
  <2> HIDE DEF Of
  <2> QED  BY <2>1, <2>2, FS_Singleton
<1>4. TrSentRequests(n) = Of(n, 1) \cup Of(n, 2)
  BY <1>2 DEF TrSentRequests
<1>5. IsFiniteSet(TrSentRequests(n)) /\ Cardinality(TrSentRequests(n)) <= 2
  <2>1. /\ IsFiniteSet(Of(n, 1)) /\ Cardinality(Of(n, 1)) \in {0, 1}
        /\ IsFiniteSet(Of(n, 2)) /\ Cardinality(Of(n, 2)) \in {0, 1}
    BY <1>3
  <2> HIDE DEF Of
  <2>2. Of(n, 2) = {} \/ \E x : Of(n, 2) = {x}
    BY <2>1, FS_EmptySet, FS_Singleton
  <2>3. CASE Of(n, 2) = {}
    BY <1>4, <2>1, <2>3
  <2>4. ASSUME NEW x, Of(n, 2) = {x}  PROVE  <1>5
    <3>1. /\ IsFiniteSet(Of(n, 1) \cup {x})
          /\ Cardinality(Of(n, 1) \cup {x}) = IF x \in Of(n, 1) THEN Cardinality(Of(n, 1)) ELSE Cardinality(Of(n, 1)) + 1
      BY <2>1, FS_AddElement
    <3>2. TrSentRequests(n) = Of(n, 1) \cup {x}
      BY <1>4, <2>4
    <3>3. Cardinality(Of(n, 1) \cup {x}) <= 2
      BY <2>1, <3>1
    <3> QED  BY <3>1, <3>2, <3>3
  <2> QED  BY <2>2, <2>3, <2>4
<1>6. ASSUME trCall.request.method # "GET"  PROVE  Cardinality(TrSentRequests(trCall.number)) <= 1
  <2> DEFINE m == trCall.number
  <2>1. CASE trCall.pc = "idle"
    <3>1. m = 0
      BY <2>1 DEF TrInv, TrCallOK
    <3>2. TrSentRequests(m) = {}
      BY <1>2, <3>1 DEF TrSentRequests
    <3> QED  BY <3>2, FS_EmptySet
  <2>2. CASE trCall.pc # "idle"
    <3>1. trCall.attempt = 1
      BY <1>6, <2>2 DEF TrInv, TrCallOK
    <3>2. TrSentRequests(m) = Of(m, 1)
      BY <1>2, <3>1 DEF TrSentRequests
    <3>3. Cardinality(Of(m, 1)) \in {0, 1}
      BY <1>3
    <3> HIDE DEF Of
    <3> QED  BY <3>2, <3>3
  <2> QED  BY <2>1, <2>2
<1> QED  BY <1>5, <1>6

\* The request has gone the way its options choose.
LEMMA TrRouteKept == ASSUME TrInv  PROVE RouteIsAsChosen
<1>1. ~trWire.confused
  BY DEF TrInv, TrWires
<1>2. \A e \in trSeen : TrEventOK(e)
  BY DEF TrInv, TrSeenOK, TrHistory
<1>3. \A n \in 1 .. TrMaxCalls : Cardinality(TrSentRequests(n)) <= 2
  BY TrSentFew
<1>4. trCall.request.method # "GET" => Cardinality(TrSentRequests(trCall.number)) <= 1
  BY TrSentFew
<1> QED  BY <1>1, <1>2, <1>3, <1>4 DEF RouteIsAsChosen, TrEventOK

\* A leftover does not begin in the middle of a frame when no upgrade leaves one.
LEMMA TrWholeLeftovers ==
  ASSUME "upgrade" \notin TrLateModes, NEW lead \in TrLeftovers, lead # <<>>
  PROVE  lead[1] = "ping-"
<1>1. lead = <<"ping-", "-ping">>
  BY DEF TrLeftovers
<1> QED  BY <1>1

\* The next thing to read is the beginning of a frame.
LEMMA TrNothingIsLost ==
  ASSUME TrInv, "upgrade" \notin TrLateModes
  PROVE  ReplayLosesNothing
<1> SUFFICES ASSUME trConn.http2, trConn.replay = <<>>, trWire.in # <<>>  PROVE Head(trWire.in) # "-ping"
  BY DEF ReplayLosesNothing
<1> DEFINE w == trWire.in
<1>1. w \in Seq(TrUnitKinds) /\ Head(w) = w[1] /\ TrNextUnit = Head(w)
  <2>1. w \in Seq(TrUnitKinds)
    BY DEF TrInv, TrWires
  <2>2. TrNextUnit = Head(w)
    BY DEF TrNextUnit
  <2> QED  BY <2>1, <2>2
<1>2. trConn.up
  BY DEF TrInv, TrLinked
<1>3. ASSUME w \in TrLeftovers  PROVE w[1] # "-ping"
  BY <1>3, TrWholeLeftovers
<1>4. CASE TrSettled
  BY <1>1, <1>3, <1>4 DEF TrSettled
<1>5. CASE trCall.pc = "receive"
  <2>1. PICK lead \in TrLeftovers, mode \in TrModes, k \in 0 .. TrChunks + 3 : TrReading(lead, mode, k)
    BY <1>5 DEF TrInv, TrPlaceOK
  <2>2. lead \in Seq(TrUnitKinds) /\ k \in Nat /\ Len(lead) \in Nat /\ TrChunks \in Nat
    BY <2>1, TrLeftoversAre, LenProperties, TrConstants
  <2>3. w[1] \in TrUnitKinds /\ TrNextUnit = w[1]
    BY <1>1, EmptySeq
  <2>4. TrNextUnit # "nothing"
    BY <2>3 DEF TrUnitKinds
  <2>5. /\ k < Len(lead) => k = 0 /\ TrNextUnit = lead[1]
        /\ k = Len(lead) => TrNextUnit = "headers"
        /\ k > Len(lead) /\ k <= Len(lead) + TrChunks => TrNextUnit = "data"
        /\ k = Len(lead) + TrChunks + 1 => TrNextUnit = "end"
    BY <2>1, <2>2, <2>4, TrNextIs
  <2>6. CASE k < Len(lead)
    <3>1. lead # <<>>
      BY <2>2, <2>6, EmptySeq
    <3>2. lead[1] = "ping-"
      BY <3>1, TrWholeLeftovers
    <3> QED  BY <1>1, <2>5, <2>6, <3>2
  <2>7. CASE ~(k < Len(lead))
    <3>1. k <= Len(lead) + TrChunks + 1
      BY <2>1 DEF TrReading
    <3>2. k = Len(lead) \/ (k > Len(lead) /\ k <= Len(lead) + TrChunks) \/ k = Len(lead) + TrChunks + 1
      BY <2>2, <2>7, <3>1
    <3> QED  BY <1>1, <2>5, <3>2
  <2> QED  BY <2>6, <2>7
<1>6. CASE trCall.pc = "receive1"
  <2> DEFINE lead == <<"settings">>
  <2>1. PICK k \in 1 .. TrChunks + 2 : TrReading(lead, "upgrade", k)
    BY <1>6 DEF TrInv, TrPlaceOK
  <2>2. lead \in Seq(TrUnitKinds) /\ k \in Nat /\ Len(lead) = 1 /\ TrChunks \in Nat
    BY <2>1, TrSettingsLead, TrConstants
  <2> HIDE DEF lead
  <2>3. w[1] \in TrUnitKinds /\ TrNextUnit = w[1]
    BY <1>1, EmptySeq
  <2>4. TrNextUnit # "nothing"
    BY <2>3 DEF TrUnitKinds
  <2>5. /\ k = Len(lead) => TrNextUnit = "headers"
        /\ k > Len(lead) /\ k <= Len(lead) + TrChunks => TrNextUnit = "data"
        /\ k = Len(lead) + TrChunks + 1 => TrNextUnit = "end"
    BY <2>1, <2>2, <2>4, TrNextIs
  <2>6. k = Len(lead) \/ (k > Len(lead) /\ k <= Len(lead) + TrChunks) \/ k = Len(lead) + TrChunks + 1
    BY <2>1, <2>2
  <2> QED  BY <1>1, <2>5, <2>6
<1>7. CASE trCall.pc \in {"decode", "deliver"}
  BY <1>1, <1>3, <1>7, TrRestIsLeft
<1>8. TrSettled \/ trCall.pc \in {"receive", "receive1", "decode", "deliver"}
  <2>1. trCall.pc \in {"idle"} \cup TrWaiting \cup TrAsked
    BY DEF TrInv, TrCallOK
  <2>2. ~TrFresh /\ ~TrReady /\ ~TrUpgraded
    BY DEF TrFresh, TrReady, TrUntouched, TrUpgraded
  <2>3. trConn # TrNoConn
    <3>1. TrNoConn.up = FALSE
      BY DEF TrNoConn
    <3>2. ASSUME trConn = TrNoConn  PROVE FALSE
      BY <1>2, <3>1, <3>2
    <3> QED  BY <3>2
  <2> QED  BY <1>2, <2>1, <2>2, <2>3 DEF TrInv, TrPlaceOK, TrWaiting, TrAsked
<1> QED  BY <1>4, <1>5, <1>6, <1>7, <1>8

\* Through reconnects, tunnels, the TLS 1.2 confirmation, upgrades,
\* broken streams and retries, the request is shown to whom its options
\* choose, only a safe one is sent twice, and its HTTP/2 body reaches the
\* caller decoded and once (SendViaTransport, HttpProxy.cpp,
\* HttpTransportDispatch.cpp, HttpH2Dispatch.cpp).
THEOREM RouteChosen == TrSpec => [](RouteIsAsChosen /\ Http2BodyIsDelivered)
<1>1. TrInv => RouteIsAsChosen /\ Http2BodyIsDelivered
  BY TrRouteKept DEF TrInv, TrCallOK, TrOutOK, Http2BodyIsDelivered
<1> QED  BY <1>1, TrInitially, TrStep, PTL DEF TrSpec

\* The same, and a connection that is kept is read from a frame boundary,
\* when no origin sends a frame behind the answer to an upgrade: the
\* replay transport of an upgrade ends with the send, and what is left in
\* it is lost (ConnectionPoolRelease, SendH2cUpgradeViaTransport).
THEOREM RouteServes ==
  ASSUME "upgrade" \notin TrLateModes
  PROVE  TrSpec => []RouteServesRequest
<1>1. TrInv => RouteServesRequest
  BY TrRouteKept, TrNothingIsLost DEF TrInv, TrCallOK, TrOutOK, Http2BodyIsDelivered, RouteServesRequest
<1> QED  BY <1>1, TrInitially, TrStep, PTL DEF TrSpec
=============================================================================
