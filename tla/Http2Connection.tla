--------------------------- MODULE Http2Connection ---------------------------
(* One HTTP/2 connection that several requests share: the table of active     *)
(* streams, flow control on both levels, the reader that dispatches frames    *)
(* for everybody, GOAWAY and the RFC 8441 tunnel                        *)
(* (http2/Http2Connection.cpp, http2/Http2Stream.cpp). A frame is its type    *)
(* and what decides its handling; DATA frames carry one unit.                 *)
EXTENDS Integers, Sequences, FiniteSets

CONSTANTS Gets, Posts, Tunnels,   \* requests, by what they send; stream ids in order of use
          PostLength,             \* units of a request body
          InitialWindow,          \* SETTINGS_INITIAL_WINDOW_SIZE of both sides, and the connection's
          MaxStreams,             \* MAX_CONCURRENT_STREAMS in force
          MaxLink, MaxGrants,     \* frames under way and window updates of the peer
          NoStream

ASSUME Http2Constants ==
    /\ {PostLength, InitialWindow, MaxStreams, MaxLink, MaxGrants} \subseteq Nat
    /\ NoStream \notin Gets \cup Posts \cup Tunnels

VARIABLES h2,     \* Http2Connection: windows, GOAWAY flags, next stream id
          h2Slot,   \* request -> Http2ActiveStream
          h2Call,   \* request -> where its caller is, and how it ended
          h2Lock,   \* holders of the receive lock and, while a body is sent, of the state lock
          h2Link,   \* frames from the peer
          h2Peer    \* what the peer has counted

http2Vars == <<h2, h2Slot, h2Call, h2Lock, h2Link, h2Peer>>

H2Requests == Gets \cup Posts \cup Tunnels

FreeStream == [inUse |-> FALSE, found |-> FALSE, id |-> 0, state |-> "Idle", remote |-> 0, local |-> 0,
             headers |-> FALSE, data |-> FALSE, expecting |-> FALSE, pendingEnd |-> FALSE, closed |-> FALSE]

\* Initialize has exchanged SETTINGS; a tunnel has a connection of its own.
Http2Init ==
    /\ h2 = [send |-> InitialWindow, recv |-> InitialWindow, consumed |-> 0, initial |-> InitialWindow,
             next |-> 1, goAwaySent |-> FALSE, goAway |-> "none", last |-> 0]
    /\ h2Slot = [r \in H2Requests |-> FreeStream]
    /\ \E users \in {Gets \cup Posts, Tunnels} :
          h2Call = [r \in H2Requests |-> [at |-> IF r \in users THEN "idle" ELSE "unused", left |-> 0, id |-> 0, out |-> "none"]]
    /\ h2Lock = [receive |-> NoStream, state |-> NoStream]
    /\ h2Link = <<>>
    /\ h2Peer = [conn |-> InitialWindow, str |-> [r \in H2Requests |-> 0], credit |-> InitialWindow,
               strCredit |-> [r \in H2Requests |-> 0], phase |-> [r \in H2Requests |-> "none"],
               initial |-> InitialWindow, settings |-> <<>>, grants |-> 0, goneAway |-> FALSE, closed |-> FALSE]

H2Active(s) == s.inUse /\ s.found
ActiveCount == Cardinality({r \in H2Requests : h2Slot[r].inUse})

\* IsReusable, which the pool asks before it leases the connection.
IsReusable == ~h2.goAwaySent /\ h2.goAway = "none"

H2Finish(r, out) == [h2Call EXCEPT ![r].at = "done", ![r].out = out]
\* Http2ConnectionReleaseStream: a slot that Reset has renumbered is not found.
H2Release(s) == IF H2Active(s) THEN FreeStream ELSE s

----------------------------------------
(* Http2Stream: what a frame does to a stream's state and windows.            *)

SendsData(s, end) ==
    [s EXCEPT !.remote = @ - 1,
              !.state = IF ~end THEN @ ELSE IF @ = "HalfClosedRemote" THEN "Closed" ELSE "HalfClosedLocal"]

StreamReceives(s, end) ==
    [s EXCEPT !.state = IF ~end THEN @ ELSE IF @ = "HalfClosedLocal" THEN "Closed" ELSE "HalfClosedRemote"]

StreamCanReceive(s) == s.state \in {"Open", "HalfClosedLocal"}

----------------------------------------
(* BeginRequest.                                                              *)

\* SendRequestFrames: the header block leaves as one piece, and a request
\* without a body ends its side of the stream.
OpenedStream(r) ==
    [FreeStream EXCEPT !.inUse = TRUE, !.found = TRUE, !.id = h2.next,
                       !.state = IF r \in Gets THEN "HalfClosedLocal" ELSE "Open",
                       !.remote = h2.initial, !.local = InitialWindow]

\* Reserves a slot, takes the next id and sends HEADERS; only a request with
\* a body takes the receive lock, and keeps both locks until it is sent.
BeginRequest(r) ==
    /\ h2Call[r].at = "idle" /\ h2Lock.state = NoStream /\ IsReusable
    /\ r \in Posts => h2Lock.receive = NoStream
    /\ IF ActiveCount >= MaxStreams
       THEN h2Call' = H2Finish(r, "refused") /\ UNCHANGED <<h2, h2Slot, h2Lock, h2Peer>>
       ELSE /\ h2' = [h2 EXCEPT !.next = @ + 1]
            /\ h2Slot' = [h2Slot EXCEPT ![r] = OpenedStream(r)]
            /\ h2Call' = [h2Call EXCEPT ![r].at = IF r \in Posts THEN "sending" ELSE "begun",
                                    ![r].id = h2.next,
                                    ![r].left = IF r \in Posts THEN PostLength ELSE 0]
            /\ h2Lock' = IF r \in Posts THEN [receive |-> r, state |-> r] ELSE h2Lock
            /\ h2Peer' = [h2Peer EXCEPT !.phase[r] = "open", !.str[r] = h2Peer.initial, !.strCredit[r] = InitialWindow]
    /\ UNCHANGED h2Link

H2Unlock(r) == [receive |-> IF h2Lock.receive = r THEN NoStream ELSE h2Lock.receive,
              state |-> IF h2Lock.state = r THEN NoStream ELSE h2Lock.state]

\* An answer that came first ends the upload.
UploadEnds(r) ==
    /\ h2Call[r].at = "sending" /\ (h2Call[r].left = 0 \/ h2Slot[r].headers \/ h2Slot[r].closed)
    /\ h2Call' = [h2Call EXCEPT ![r].at = "begun"] /\ h2Lock' = H2Unlock(r)
    /\ UNCHANGED <<h2, h2Slot, h2Link, h2Peer>>

\* A unit goes out only when both windows are open.
H2WindowsOpen(r) == h2.send > 0 /\ h2Slot[r].remote > 0

SendRequestBodyFrame(r) ==
    /\ h2Call[r].at = "sending" /\ h2Call[r].left > 0 /\ ~h2Slot[r].headers /\ ~h2Slot[r].closed /\ H2WindowsOpen(r)
    /\ h2' = [h2 EXCEPT !.send = @ - 1]
    /\ h2Slot' = [h2Slot EXCEPT ![r] = SendsData(@, h2Call[r].left = 1)]
    /\ h2Call' = [h2Call EXCEPT ![r].left = @ - 1]
    /\ h2Peer' = [h2Peer EXCEPT !.conn = @ - 1, !.str[r] = @ - 1]
    /\ UNCHANGED <<h2Lock, h2Link>>

----------------------------------------
(* Frames. Each operator gives the connection h, the slots s, the peer p (for *)
(* what is sent back) and the status for the reader.                          *)

H2Result(h, s, p, out) == [h |-> h, s |-> s, p |-> p, out |-> out]
H2Same(out) == H2Result(h2, h2Slot, h2Peer, out)
SendGoAway(out) == H2Result([h2 EXCEPT !.goAwaySent = TRUE], h2Slot, [h2Peer EXCEPT !.closed = TRUE], out)
\* The stream stays in the table until its own request ends.
SendRstStream(r, s) == H2Result(h2, s, [h2Peer EXCEPT !.phase[r] = "reset"], "invalid")

\* Fault: every stream keeps the window it was opened with.
SettingsLeaveStreams(f) ==
    H2Result([h2 EXCEPT !.initial = f.value], h2Slot,
           [h2Peer EXCEPT !.initial = f.value, !.settings = <<>>,
                        !.str = [r \in H2Requests |-> IF h2Peer.phase[r] = "none" THEN 0
                                                    ELSE @[r] + f.value - h2Peer.initial]], "ok")

\* SETTINGS: the new initial window moves every active stream, then the ACK.
SettingsFrame(f) ==
    H2Result([h2 EXCEPT !.initial = f.value],
           [r \in H2Requests |-> IF h2Slot[r].inUse THEN [h2Slot[r] EXCEPT !.remote = @ + f.value - h2.initial]
                               ELSE h2Slot[r]],
           [h2Peer EXCEPT !.initial = f.value, !.settings = <<>>,
                        !.str = [r \in H2Requests |-> IF h2Peer.phase[r] = "none" THEN 0
                                                    ELSE @[r] + f.value - h2Peer.initial]], "ok")

\* GOAWAY: only the stream of the reader learns that it was refused.
GoAwayFrame(f, r) ==
    H2Result([h2 EXCEPT !.goAway = IF f.clean THEN "clean" ELSE "error", !.last = f.last], h2Slot, h2Peer,
           IF ~f.clean THEN "disconnected" ELSE IF H2Active(h2Slot[r]) /\ h2Slot[r].id > f.last THEN "retry" ELSE "ok")

\* HandleConnectionFrame.
ConnectionFrame(f, r) ==
    CASE f.type = "SETTINGS" -> SettingsFrame(f)
      [] f.type = "GOAWAY" -> GoAwayFrame(f, r)
      [] f.type = "WINDOW_UPDATE" -> H2Result([h2 EXCEPT !.send = @ + 1], h2Slot, h2Peer, "ok")

\* ValidateResponseHeaderBlock, and an interim answer that ends the stream.
InvalidBlock(f, end) == f.kind = "bad" \/ (f.kind = "interim" /\ end)

\* HEADERS and CONTINUATION: a complete block is the interim answer, the
\* answer or the trailers, or is refused with RST_STREAM.
HeaderBlock(f) ==
    LET r == f.stream
        end == IF f.type = "HEADERS" THEN f.end ELSE h2Slot[r].pendingEnd
        s == [h2Slot[r] EXCEPT !.pendingEnd = end, !.expecting = ~f.endHeaders]
        t == StreamReceives(s, end)
        put(x) == [h2Slot EXCEPT ![r] = x]
    IN IF ~f.endHeaders THEN H2Result(h2, put(s), h2Peer, "ok")
       ELSE IF ~StreamCanReceive(s) THEN SendRstStream(r, put(s))
       ELSE IF s.headers /\ (~s.data \/ ~end) THEN SendRstStream(r, put(t))
       ELSE IF InvalidBlock(f, end) THEN SendRstStream(r, put(t))
       ELSE IF f.kind = "interim" THEN H2Result(h2, put([t EXCEPT !.pendingEnd = FALSE]), h2Peer, "ok")
       ELSE H2Result(h2, put([t EXCEPT !.headers = TRUE, !.pendingEnd = FALSE, !.closed = end]), h2Peer, "ok")

\* SendWindowUpdateIfNeeded: half of the window consumed, and the stream's unit.
WindowUpdates(h, s, p, r, end) ==
    LET due == 2 * h.consumed >= InitialWindow
    IN [h |-> IF due THEN [h EXCEPT !.recv = @ + h.consumed, !.consumed = 0] ELSE h,
        s |-> IF end THEN s ELSE [s EXCEPT ![r].local = @ + 1],
        p |-> [p EXCEPT !.credit = IF due THEN @ + h.consumed ELSE @,
                        !.strCredit[r] = IF end THEN @ ELSE @ + 1], out |-> "ok"]

\* DATA; the sink of the response body may refuse it.
DataFrame(f, accepts) ==
    LET r == f.stream
        t == [StreamReceives(h2Slot[r], f.end) EXCEPT !.local = @ - 1]
        h == [h2 EXCEPT !.recv = @ - 1]
    IN IF ~h2Slot[r].headers \/ ~StreamCanReceive(h2Slot[r]) THEN SendRstStream(r, h2Slot)
       ELSE IF ~accepts THEN H2Result(h, [h2Slot EXCEPT ![r] = t], h2Peer, "too_small")
       ELSE WindowUpdates([h EXCEPT !.consumed = @ + 1],
                     [h2Slot EXCEPT ![r] = [t EXCEPT !.data = TRUE, !.closed = f.end]], h2Peer, r, f.end)

\* RST_STREAM: Http2Stream::Reset also forgets the stream's id.
RstStreamFrame(f) ==
    LET r == f.stream
        s == [h2Slot[r] EXCEPT !.found = FALSE, !.state = "Idle", !.closed = TRUE]
    IN H2Result(h2, [h2Slot EXCEPT ![r] = s], h2Peer,
              IF f.code = "no_error" /\ h2Slot[r].headers THEN "ok"
              ELSE IF f.code = "refused" THEN "retry" ELSE "disconnected")

\* ProcessResponseFrame.
StreamFrame(f, accepts) ==
    CASE f.type \in {"HEADERS", "CONTINUATION"} -> HeaderBlock(f)
      [] f.type = "DATA" -> DataFrame(f, accepts)
      [] f.type = "RST_STREAM" -> RstStreamFrame(f)
      [] f.type = "WINDOW_UPDATE" -> H2Result(h2, [h2Slot EXCEPT ![f.stream].remote = @ + 1], h2Peer, "ok")

Continuing == {q \in H2Requests : H2Active(h2Slot[q]) /\ h2Slot[q].expecting}

\* DispatchFrame: a header block may not be interrupted, and frames of a
\* stream that is no longer active are dropped.
DispatchFrame(f, r, accepts) ==
    IF Continuing # {} /\ ~(f.type = "CONTINUATION" /\ f.stream \in Continuing) THEN SendGoAway("invalid")
    ELSE IF Continuing = {} /\ f.type = "CONTINUATION" THEN SendGoAway("invalid")
    ELSE IF f.stream = NoStream THEN ConnectionFrame(f, r)
    ELSE IF ~H2Active(h2Slot[f.stream]) THEN H2Same("ok")
    ELSE StreamFrame(f, accepts)

H2Reads(r) == h2Lock.receive = r /\ h2Link # <<>>
H2Apply(d) == h2' = d.h /\ h2Peer' = d.p /\ h2Link' = Tail(h2Link)

\* A body upload whose windows are closed reads frames itself.
DispatchNextFrame(r) ==
    /\ h2Call[r].at = "sending" /\ h2Call[r].left > 0 /\ ~h2Slot[r].headers /\ ~h2Slot[r].closed /\ ~H2WindowsOpen(r)
    /\ H2Reads(r)
    /\ \E accepts \in BOOLEAN :
          LET d == DispatchFrame(Head(h2Link), r, accepts)
          IN /\ H2Apply(d)
             /\ IF d.out = "ok" THEN h2Slot' = d.s /\ UNCHANGED <<h2Call, h2Lock>>
                ELSE h2Slot' = [d.s EXCEPT ![r] = H2Release(@)] /\ h2Call' = H2Finish(r, d.out) /\ h2Lock' = H2Unlock(r)

----------------------------------------
(* ReceiveResponse and the other readers.                                     *)

TakeReceiveLock(r) ==
    /\ h2Call[r].at \in {"begun", "tunnel"} /\ h2Lock.receive = NoStream
    /\ h2Call' = [h2Call EXCEPT ![r].at = IF @ = "begun" THEN "reading" ELSE "tunnel_reading"]
    /\ h2Lock' = [h2Lock EXCEPT !.receive = r]
    /\ UNCHANGED <<h2, h2Slot, h2Link, h2Peer>>

\* The loop's test: the answer is complete, the headers of a tunnel have come,
\* or the slot is gone.
ResponseEnds(r) ==
    /\ h2Call[r].at = "reading" /\ h2Lock.state = NoStream
    /\ \/ h2Slot[r].closed \/ ~H2Active(h2Slot[r]) \/ (r \in Tunnels /\ h2Slot[r].headers)
    /\ h2Slot' = [h2Slot EXCEPT ![r] = IF r \in Tunnels /\ ~h2Slot[r].closed THEN @ ELSE H2Release(@)]
    /\ h2Call' = IF ~H2Active(h2Slot[r]) THEN H2Finish(r, "disconnected")
               ELSE IF r \notin Tunnels THEN H2Finish(r, "ok")
               ELSE IF h2Slot[r].closed THEN H2Finish(r, "disconnected") ELSE [h2Call EXCEPT ![r].at = "tunnel"]
    /\ h2Lock' = H2Unlock(r)
    /\ UNCHANGED <<h2, h2Link, h2Peer>>

\* Any status other than success ends the call of the reader, whosever
\* stream the frame was for.
ReceiveResponse(r) ==
    /\ h2Call[r].at = "reading" /\ H2Active(h2Slot[r]) /\ ~h2Slot[r].closed /\ (r \in Tunnels => ~h2Slot[r].headers)
    /\ h2Lock.state = NoStream /\ H2Reads(r)
    /\ \E accepts \in BOOLEAN :
          LET d == DispatchFrame(Head(h2Link), r, accepts)
          IN /\ H2Apply(d)
             /\ IF d.out = "ok" THEN h2Slot' = d.s /\ UNCHANGED <<h2Call, h2Lock>>
                ELSE h2Slot' = [d.s EXCEPT ![r] = H2Release(@)] /\ h2Call' = H2Finish(r, d.out) /\ h2Lock' = H2Unlock(r)

\* The transport has ended.
ReadFails(r) ==
    /\ h2Lock.receive = r /\ h2Link = <<>> /\ h2Peer.closed
    /\ h2Call[r].at \in {"reading", "tunnel_reading"} \/ (h2Call[r].at = "sending" /\ ~H2WindowsOpen(r))
    /\ h2Slot' = [h2Slot EXCEPT ![r] = H2Release(@)]
    /\ h2Call' = H2Finish(r, "lost") /\ h2Lock' = H2Unlock(r)
    /\ UNCHANGED <<h2, h2Link, h2Peer>>

\* ReceiveStreamData of a tunnel: DATA is handed over, HEADERS are refused.
ReceiveStreamData(r) ==
    /\ h2Call[r].at = "tunnel_reading" /\ H2Reads(r)
    /\ LET f == Head(h2Link)
           d == IF f.stream = NoStream THEN ConnectionFrame(f, r)
                ELSE IF f.type \in {"HEADERS", "CONTINUATION"} THEN SendRstStream(r, h2Slot)
                ELSE StreamFrame(f, TRUE)
           over == d.out # "ok" \/ d.s[r].closed
       IN /\ H2Apply(d)
          /\ h2Slot' = [d.s EXCEPT ![r] = IF over THEN H2Release(@) ELSE @]
          /\ h2Call' = IF over THEN H2Finish(r, IF d.out = "ok" THEN "closed" ELSE d.out)
                     ELSE [h2Call EXCEPT ![r].at = IF f.type = "DATA" THEN "tunnel" ELSE @]
          /\ h2Lock' = IF over \/ f.type = "DATA" THEN H2Unlock(r) ELSE h2Lock

\* SendStreamData fails at once when a window is closed.
SendStreamData(r) ==
    /\ h2Call[r].at = "tunnel" /\ \E end \in BOOLEAN :
         IF H2WindowsOpen(r)
         THEN /\ h2' = [h2 EXCEPT !.send = @ - 1]
              /\ h2Slot' = [h2Slot EXCEPT ![r] = IF end THEN FreeStream ELSE SendsData(@, FALSE)]
              /\ h2Call' = IF end THEN H2Finish(r, "closed") ELSE h2Call
              /\ h2Peer' = [h2Peer EXCEPT !.conn = @ - 1, !.str[r] = @ - 1, !.phase[r] = IF end THEN "done" ELSE @]
         ELSE h2Call' = H2Finish(r, "too_small") /\ UNCHANGED <<h2, h2Slot, h2Peer>>
    /\ UNCHANGED <<h2Lock, h2Link>>

\* Http2Shutdown of a connection nobody uses; a keep-alive PING that is not answered
\* ends there too.
Http2Shutdown ==
    /\ ~h2.goAwaySent /\ h2Lock.receive = NoStream /\ \A r \in H2Requests : h2Call[r].at \in {"idle", "done", "unused"}
    /\ h2' = [h2 EXCEPT !.goAwaySent = TRUE] /\ h2Peer' = [h2Peer EXCEPT !.closed = TRUE]
    /\ UNCHANGED <<h2Slot, h2Call, h2Lock, h2Link>>

----------------------------------------
(* The peer: any server that keeps to its credit; it may interrupt a header   *)
(* block with a window update or another control frame.                       *)

\* Frames nobody would ever read are left out.
PeerPosts(f) ==
    /\ Len(h2Link) < MaxLink /\ ~h2Peer.closed /\ ~h2.goAwaySent
    /\ \E r \in H2Requests : h2Call[r].at \notin {"idle", "done", "unused"}
    /\ h2Link' = Append(h2Link, f) /\ UNCHANGED <<h2, h2Slot, h2Call, h2Lock>>

PeerHeaders(r) ==
    /\ h2Peer.phase[r] \in {"open", "body"}
    /\ \E kind \in {"final", "interim", "bad"}, end, whole \in BOOLEAN :
          /\ kind = "interim" => ~end /\ whole /\ h2Peer.phase[r] = "open"
          /\ \A q \in H2Requests : h2Peer.phase[q] \notin {"block", "block_end"}
          /\ h2Peer.phase[r] = "body" => end /\ kind = "final"
          /\ PeerPosts([type |-> "HEADERS", stream |-> r, end |-> end, endHeaders |-> whole, kind |-> kind])
          /\ h2Peer' = [h2Peer EXCEPT !.phase[r] =
                        IF ~whole THEN (IF end THEN "block_end" ELSE "block")
                        ELSE IF end THEN "done" ELSE IF kind = "interim" THEN "open" ELSE "body"]

PeerContinuation(r) ==
    /\ h2Peer.phase[r] \in {"block", "block_end"}
    /\ PeerPosts([type |-> "CONTINUATION", stream |-> r, end |-> FALSE, endHeaders |-> TRUE, kind |-> "final"])
    /\ h2Peer' = [h2Peer EXCEPT !.phase[r] = IF @ = "block" THEN "body" ELSE "done"]

PeerData(r) ==
    /\ h2Peer.phase[r] = "body" /\ h2Peer.credit > 0 /\ h2Peer.strCredit[r] > 0
    /\ \A q \in H2Requests : h2Peer.phase[q] \notin {"block", "block_end"}
    /\ \E end \in BOOLEAN :
          /\ PeerPosts([type |-> "DATA", stream |-> r, end |-> end])
          /\ h2Peer' = [h2Peer EXCEPT !.credit = @ - 1, !.strCredit[r] = @ - 1, !.phase[r] = IF end THEN "done" ELSE @]

PeerReset(r) ==
    /\ h2Peer.phase[r] \in {"open", "body"}
    /\ \E code \in {"no_error", "refused", "other"} : PeerPosts([type |-> "RST_STREAM", stream |-> r, code |-> code])
    /\ h2Peer' = [h2Peer EXCEPT !.phase[r] = "done"]

PeerWindowUpdate(r) ==
    /\ h2Peer.grants < MaxGrants /\ (r # NoStream => h2Peer.phase[r] = "open")
    /\ PeerPosts([type |-> "WINDOW_UPDATE", stream |-> r])
    /\ h2Peer' = IF r = NoStream THEN [h2Peer EXCEPT !.conn = @ + 1, !.grants = @ + 1]
               ELSE [h2Peer EXCEPT !.str[r] = @ + 1, !.grants = @ + 1]

PeerControl ==
    \/ /\ h2Peer.settings = <<>> /\ h2Peer.initial = InitialWindow
       /\ PeerPosts([type |-> "SETTINGS", stream |-> NoStream, value |-> 0])
       /\ h2Peer' = [h2Peer EXCEPT !.settings = <<0>>]
    \/ /\ ~h2Peer.goneAway
       /\ \E clean \in BOOLEAN, last \in 0 .. h2.next - 1 :
             /\ PeerPosts([type |-> "GOAWAY", stream |-> NoStream, clean |-> clean, last |-> last])
             /\ h2Peer' = [h2Peer EXCEPT !.goneAway = TRUE,
                          !.phase = [r \in H2Requests |->
                              IF h2Slot[r].id > last /\ @[r] # "reset" THEN "done" ELSE @[r]]]
    \/ /\ ~h2Peer.closed /\ h2Peer' = [h2Peer EXCEPT !.closed = TRUE] /\ UNCHANGED <<h2, h2Slot, h2Call, h2Lock, h2Link>>

Http2Client ==
    \E r \in H2Requests :
        \/ BeginRequest(r) \/ UploadEnds(r) \/ SendRequestBodyFrame(r) \/ DispatchNextFrame(r)
        \/ TakeReceiveLock(r) \/ ResponseEnds(r) \/ ReceiveResponse(r) \/ ReadFails(r)
        \/ ReceiveStreamData(r) \/ SendStreamData(r)

Http2Peer ==
    \/ \E r \in H2Requests : PeerHeaders(r) \/ PeerContinuation(r) \/ PeerData(r) \/ PeerReset(r) \/ PeerWindowUpdate(r)
    \/ PeerWindowUpdate(NoStream) \/ PeerControl

Http2Next == Http2Client \/ Http2Shutdown \/ Http2Peer
Http2Spec == Http2Init /\ [][Http2Next]_http2Vars

----------------------------------------
H2InFlight(type, r) == Cardinality({i \in DOMAIN h2Link : h2Link[i].type = type /\ h2Link[i].stream = r})

(* Both ends of the connection count the same windows: what this end may     *)
(* still send, with the window updates under way, is what the peer expects,  *)
(* on the connection and on every active stream, also when SETTINGS moves a  *)
(* window below zero; and no more is uploaded than the peer has granted. A   *)
(* connection that was given up with GOAWAY is excepted, and for what comes  *)
(* in a stream that this end has answered with RST_STREAM: its DATA that is  *)
(* still under way is not counted.                                           *)
FlowControlAgrees ==
    ~h2.goAwaySent =>
    /\ h2.send + H2InFlight("WINDOW_UPDATE", NoStream) = h2Peer.conn
    /\ \A r \in H2Requests : H2Active(h2Slot[r]) =>
          /\ h2Slot[r].remote + H2InFlight("WINDOW_UPDATE", r) = h2Peer.str[r]
          /\ h2Peer.phase[r] # "reset" => h2Slot[r].local = h2Peer.strCredit[r] + H2InFlight("DATA", r)
    /\ h2Peer.conn >= 0

(* What the peer may still send on the connection is what this end thinks it *)
(* may. It is not: DATA of a stream that was reset or released is dropped    *)
(* without being counted, and the peer never gets that credit back.          *)
ConnectionCreditAgrees ==
    ~h2.goAwaySent =>
        h2.recv = h2Peer.credit + Cardinality({i \in DOMAIN h2Link : h2Link[i].type = "DATA"})

(* A request ends as disconnected only when its own stream was reset, or the  *)
(* whole connection was given up by the peer. It does not: ReceiveResponse    *)
(* and the upload return the status of any frame they dispatch, also of the   *)
(* RST_STREAM of another request.                                             *)
ResetStaysWithItsStream ==
    \A r \in Gets \cup Posts :
        h2Call[r].out = "disconnected" /\ h2.goAway # "error" => h2Slot[r].inUse /\ ~h2Slot[r].found

(* A stream above the last id of a clean GOAWAY was not treated and ends     *)
(* with STATUS_RETRY. It does not when another request reads the GOAWAY.      *)
UntreatedStreamsRetry ==
    \A r \in Gets \cup Posts :
        h2.goAway = "clean" /\ h2Call[r].id > h2.last => h2Call[r].out # "lost"
=============================================================================
