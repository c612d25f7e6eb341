--------------------------- MODULE QuicTransport ---------------------------
\* An established QUIC connection on its worker thread: the streams and
\* their reassembly (quic/QuicStream.cpp), flow control, the received
\* packet numbers to acknowledge, the sent packets and the congestion
\* window, key updates and connection ids (QuicConnection.cpp and
\* QuicConnectionIo.cpp), against an RFC 9000 server (external).
\*
\* A packet once sent stays in qtDown or qtUp: the network may deliver it
\* at any time, in any order, again, or never.  The byte at offset k of a
\* stream is the number k; a datagram counts one against the window.
EXTENDS Naturals, Sequences, FiniteSets, FiniteSetsExt, SequencesExt

CONSTANTS
    QtLength,           \* bytes the server has for each stream
    QtReceiveLimit,     \* receive limit of a stream, and of the connection twice that
    QtMaxGaps,          \* chunks a stream may hold out of order
    QtMaxRanges,        \* capacity of QuicAckTracker
    QtMaxIds,           \* WKNET_HARD_MAX_QUIC_CONNECTION_IDS
    QtWindow,           \* initial congestion window, in datagrams
    QtScenarios,        \* what the application and the server do: sets of activities
    QtMaxPackets,       \* bounds: packets of the server, packets of the client
    QtMaxSent

\* Frames of the server, and commands of the application.
QtActivities ==
    {"stream", "reset", "stop", "limits", "ids", "retire", "key", "ack", "path", "close"}
    \cup {"open", "write", "consume", "abort", "update"}

ASSUME QtAssumption ==
    /\ {QtLength, QtReceiveLimit, QtMaxGaps, QtMaxRanges, QtMaxIds, QtWindow, QtMaxPackets,
        QtMaxSent} \subseteq Nat \ {0}
    /\ QtScenarios \subseteq SUBSET QtActivities

VARIABLES qtClient, qtServer, qtUp, qtDown

qtVars == <<qtClient, qtServer, qtUp, qtDown>>

QtRequest == 0            \* the client's bidirectional stream
QtPush == 3               \* a unidirectional stream of the server
QtStreams == {QtRequest, QtPush}
QtNoSize == QtLength + 1

----------------------------------------
(* QuicFlowController.                                                     *)

QtFlow(sendLimit, receiveLimit) ==
    [sent |-> 0, sendLimit |-> sendLimit, received |-> 0, receiveLimit |-> receiveLimit, consumed |-> 0]

QtCanReserveSend(flow, bytes) == flow.sent + bytes <= flow.sendLimit
QtReserveSend(flow, bytes) == [flow EXCEPT !.sent = @ + bytes]
QtOnMaxData(flow, maximum) == [flow EXCEPT !.sendLimit = Max({@, maximum})]
QtReceiveFits(flow, before, after) == flow.received + (after - before) <= flow.receiveLimit
QtOnStreamReceiveProgress(flow, before, after) == [flow EXCEPT !.received = @ + (after - before)]
QtOnStreamConsumed(flow, bytes) == [flow EXCEPT !.consumed = @ + bytes]

----------------------------------------
(* QuicStream.                                                             *)

\* Initialize, with the limits CreateStream sets.
QtNewStream(sendLimit) ==
    [open |-> TRUE, chunks |-> {}, consumed |-> <<>>, final |-> QtNoSize, high |-> 0, ended |-> FALSE,
     receiveReset |-> FALSE, sent |-> 0, sendLimit |-> sendLimit, fin |-> FALSE, reset |-> FALSE,
     stopped |-> "no", blocked |-> FALSE, readable |-> FALSE]

QtClosedStream == [QtNewStream(0) EXCEPT !.open = FALSE]

QtEnd(chunk) == chunk.at + Len(chunk.data)
QtBuffered(s) == FoldSet(LAMBDA c, n : n + Len(c.data), 0, s.chunks)
QtAhead(s) == {c \in s.chunks : c.at = Len(s.consumed)}
QtReceiveFinished(s) == s.final # QtNoSize /\ Len(s.consumed) = s.final

\* HasReadableState.
QtHasReadableState(s) == ~s.receiveReset /\ (QtReceiveFinished(s) \/ QtAhead(s) # {})

\* RefreshReadableNotification: one callback per change to readable.
QtNotifyReadable(s) == [s EXCEPT !.readable = QtHasReadableState(s)]

\* TryNotifyApplicationWritable.
QtNotifyWritable(s) ==
    IF s.blocked /\ ~s.fin /\ ~s.reset /\ s.sent < s.sendLimit THEN [s EXCEPT !.blocked = FALSE] ELSE s

\* The offset is moved past what was consumed and the bytes are not.
QtTrimOffsetOnly(s, offset, data) ==
    LET from == Len(s.consumed) IN
    IF offset >= from THEN [at |-> offset, data |-> data]
    ELSE [at |-> from, data |-> SubSeq(data, 1, offset + Len(data) - from)]

\* The bytes a frame adds, at the offset where they start, once those consumed are cut off.
QtTrim(s, offset, data) ==
    LET from == Len(s.consumed) IN
    IF offset >= from THEN [at |-> offset, data |-> data]
    ELSE [at |-> from, data |-> SubSeq(data, from - offset + 1, Len(data))]

\* A chunk that touches [offset, end) is merged with it.
QtTouches(new, c) == QtEnd(new) >= c.at /\ new.at <= QtEnd(c)

\* The union of the new bytes and the chunks they touch.
QtMerge(new, chunks) ==
    LET start == Min({c.at : c \in chunks \cup {new}})
        end == Max({QtEnd(c) : c \in chunks \cup {new}})
        holder(k) == IF new.at <= k /\ k < QtEnd(new) THEN new
                     ELSE CHOOSE c \in chunks : c.at <= k /\ k < QtEnd(c)
    IN [at |-> start, data |-> [i \in 1..(end - start) |->
                                   holder(start + i - 1).data[start + i - holder(start + i - 1).at]]]

\* What the peer may not do: bytes past the limit or the final size, another final size.
QtReceiveRefused(s, end, fin) ==
    \/ end > QtReceiveLimit
    \/ s.final # QtNoSize /\ (end > s.final \/ (fin /\ end # s.final))

\* Receive; <<stream, ok>>.
QtStreamReceive(s0, offset, data, fin) ==
    LET end == offset + Len(data)
        s == IF fin THEN [s0 EXCEPT !.final = end] ELSE s0
        new == QtTrim(s, offset, data)
        touched == {c \in s.chunks : QtTouches(new, c)}
        unique == Cardinality((new.at..(QtEnd(new) - 1)) \ UNION {c.at..(QtEnd(c) - 1) : c \in touched})
        agree == \A c \in touched, k \in new.at..(QtEnd(new) - 1) :
                    c.at <= k /\ k < QtEnd(c) => new.data[k - new.at + 1] = c.data[k - c.at + 1]
    IN IF QtReceiveRefused(s0, end, fin) THEN <<s0, FALSE>>
       ELSE IF s.receiveReset THEN <<s, TRUE>>
       ELSE IF data = <<>> THEN <<[s EXCEPT !.high = Max({@, end})], TRUE>>
       ELSE IF end <= Len(s.consumed) THEN <<s, TRUE>>
       ELSE IF ~agree \/ unique + QtBuffered(s) > QtReceiveLimit
               \/ (touched = {} /\ Cardinality(s.chunks) >= QtMaxGaps) THEN <<s, FALSE>>
       ELSE <<[s EXCEPT !.chunks = (@ \ touched) \cup {QtMerge(new, touched)},
                        !.high = Max({@, end})], TRUE>>

\* Consume: from the chunk at the consumed offset.
QtStreamConsume(s, capacity) ==
    IF QtAhead(s) = {} THEN [s EXCEPT !.ended = QtReceiveFinished(s)]
    ELSE LET chunk == CHOOSE c \in QtAhead(s) : TRUE
             n == Min({capacity, Len(chunk.data)})
             rest == [at |-> chunk.at + n, data |-> SubSeq(chunk.data, n + 1, Len(chunk.data))]
             s1 == [s EXCEPT !.consumed = @ \o SubSeq(chunk.data, 1, n),
                             !.chunks = (@ \ {chunk}) \cup (IF rest.data = <<>> THEN {} ELSE {rest})]
         IN QtNotifyReadable([s1 EXCEPT !.ended = QtReceiveFinished(s1)])

\* OnMaxStreamData.
QtOnMaxStreamData(s, maximum) ==
    IF maximum > s.sendLimit THEN QtNotifyWritable([s EXCEPT !.sendLimit = maximum]) ELSE s

\* CanWrite; Write moves the offset once the frame was sent.
QtCanWrite(s, bytes) == ~s.fin /\ ~s.reset /\ s.sent + bytes <= s.sendLimit
QtStreamWrite(s, bytes, fin) == [s EXCEPT !.sent = @ + bytes, !.fin = fin]

\* Reset, OnResetReceived and StopSending; <<stream, ok>>.
QtStreamReset(s) == [s EXCEPT !.reset = TRUE, !.fin = TRUE]
QtOnResetReceived(s, size) ==
    IF (s.final # QtNoSize /\ s.final # size) \/ size < s.high \/ size < Len(s.consumed)
       \/ size > QtReceiveLimit THEN <<s, FALSE>>
    ELSE <<[s EXCEPT !.final = size, !.receiveReset = TRUE, !.high = size], TRUE>>
QtStopSending(s, code) ==
    IF s.stopped # "no" THEN <<s, s.stopped = code>> ELSE <<[s EXCEPT !.stopped = code], TRUE>>

----------------------------------------
(* QuicAckTracker, QuicRecovery and QuicCongestion.                        *)

\* A number merged with the range above it only.
QtRangesGrowUp(ranges, n) ==
    LET after == {i \in 1..Len(ranges) : n > ranges[i][2]}
        at == IF after = {} THEN Len(ranges) + 1 ELSE Min(after)
    IN IF at > 1 /\ ranges[at - 1][1] = n + 1 THEN [ranges EXCEPT ![at - 1] = <<n, @[2]>>]
       ELSE InsertAt(ranges, at, <<n, n>>)

\* OnPacketReceived: ranges from the largest down, the new number merged with its
\* neighbours.
QtOnPacketReceived(ranges, n) ==
    LET after == {i \in 1..Len(ranges) : n > ranges[i][2]}
        at == IF after = {} THEN Len(ranges) + 1 ELSE Min(after)
        with == InsertAt(ranges, at, <<n, n>>)
        up == at > 1 /\ with[at - 1][1] # 0 /\ with[at - 1][1] - 1 <= n
        joined == IF up THEN RemoveAt([with EXCEPT ![at - 1] = <<n, @[2]>>], at) ELSE with
        here == IF up THEN at - 1 ELSE at
        down == here < Len(joined) /\ joined[here][1] # 0 /\ joined[here][1] - 1 <= joined[here + 1][2]
    IN IF down THEN RemoveAt([joined EXCEPT ![here] = <<joined[here + 1][1], @[2]>>], here + 1)
       ELSE joined

QtInRanges(ranges, n) == \E i \in 1..Len(ranges) : ranges[i][1] <= n /\ n <= ranges[i][2]

\* OnPacketSent.
QtOnPacketSent(r, n, eliciting) ==
    [r EXCEPT !.packets = @ \cup {[pn |-> n, eliciting |-> eliciting]},
              !.flight = IF eliciting THEN @ + 1 ELSE @]

\* OnPacketAcked: the window grows by what was sent after the last reduction.
QtOnPacketAcked(r, p) ==
    IF ~p.eliciting THEN r
    ELSE [r EXCEPT !.flight = @ - 1,
                   !.window = IF p.pn < r.recovery THEN @ ELSE IF @ < r.threshold THEN @ + 1 ELSE @]

\* OnPacketsLost: once for the packets found lost together.
QtOnPacketsLost(r, lost, now) ==
    LET bytes == Cardinality({p \in lost : p.eliciting})
        half == Max({2, r.window \div 2})
    IN IF bytes = 0 THEN r
       ELSE [r EXCEPT !.flight = @ - bytes, !.window = half, !.threshold = half, !.recovery = now]

\* OnAckRangesReceived: acknowledged packets first, then the ones that are three numbers
\* older than the largest or, with `old', sent too long ago.
QtOnAckRangesReceived(r, acknowledged, old, now) ==
    LET largest == Max(acknowledged)
        acked == {p \in r.packets : p.pn \in acknowledged}
        r1 == FoldSet(LAMBDA p, a : QtOnPacketAcked(a, p), [r EXCEPT !.packets = @ \ acked], acked)
        lost == {p \in r1.packets : p.pn < largest /\ (largest - p.pn >= 3 \/ p.pn < old)}
    IN [QtOnPacketsLost([r1 EXCEPT !.packets = @ \ lost], lost, now)
          EXCEPT !.largest = Max({@, largest + 1})]

\* OnLossTimerExpired: every packet old enough, once one older than the largest is.
QtOnLossTimerExpired(r, old, now) ==
    LET lost == {p \in r.packets : p.pn < old}
    IN QtOnPacketsLost([r EXCEPT !.packets = @ \ lost], lost, now)

\* CanSend, the pacing aside.
QtCanSend(r) == r.flight < r.window

----------------------------------------
(* Sending.                                                                *)

QtFails(c) == [c EXCEPT !.ok = FALSE]

\* SendFramePacket, one 1-RTT packet.
QtSend(c, frame, eliciting) ==
    [c EXCEPT !.out = @ \cup {[pn |-> c.pn, gen |-> c.writeGen, to |-> c.current, frame |-> frame]},
              !.pn = @ + 1, !.recovery = QtOnPacketSent(@, c.pn, eliciting)]

\* SendAck and OnAckSent.
QtSendAck(c) == [QtSend(c, [t |-> "ack", ranges |-> c.ranges], FALSE) EXCEPT !.unacked = 0]

\* NotifyWritableStreams.
QtNotifyWritableStreams(c) ==
    [c EXCEPT !.paced = FALSE, !.streams = [id \in QtStreams |-> QtNotifyWritable(@[id])]]

\* SendStreamFrame: whole or not at all; blocked by a limit, or by the window or the pacing.
QtSendStreamFrame(c, id, bytes, fin, paced) ==
    LET s == c.streams[id] IN
    IF s.fin \/ s.reset THEN c
    ELSE IF ~QtCanWrite(s, bytes) \/ ~QtCanReserveSend(c.flow, bytes)
    THEN [c EXCEPT !.streams[id].blocked = TRUE]
    ELSE IF ~QtCanSend(c.recovery) \/ ~paced
    THEN [c EXCEPT !.streams[id].blocked = TRUE, !.paced = TRUE]
    ELSE [QtSend(c, [t |-> "stream", id |-> id, at |-> s.sent, bytes |-> bytes, fin |-> fin], TRUE)
            EXCEPT !.streams[id] = QtStreamWrite(@, bytes, fin), !.flow = QtReserveSend(@, bytes)]

----------------------------------------
(* Connection ids: the peer's by sequence, the client's own.               *)

QtActive(ids) == {i \in ids : ~i.retired}

\* IssueConnectionId.
QtIssueConnectionId(c) ==
    IF Cardinality(c.localIds) >= QtMaxIds THEN QtFails(c)
    ELSE IF Cardinality(QtActive(c.localIds)) >= 2 THEN QtFails(c)
    ELSE [QtSend(c, [t |-> "newid", seq |-> c.nextLocal], TRUE) EXCEPT
            !.localIds = @ \cup {[seq |-> c.nextLocal, retired |-> FALSE]}, !.nextLocal = @ + 1]

\* HandleNewConnectionId: a RETIRE_CONNECTION_ID for each id below retire_prior_to; the
\* lowest id left replaces a retired destination.
QtHandleNewConnectionId(c, seq, priorTo) ==
    LET added == c.peerIds \cup {[seq |-> seq, retired |-> FALSE]}
        leaving == {i.seq : i \in {i \in QtActive(added) : i.seq < priorTo}}
        ids == {[i EXCEPT !.retired = @ \/ i.seq < priorTo] : i \in added}
        sent == FoldSet(LAMBDA n, a : QtSend(a, [t |-> "retire", seq |-> n], TRUE),
                        [c EXCEPT !.peerIds = ids], leaving)
        active == {i.seq : i \in QtActive(ids)}
    IN IF \E i \in c.peerIds : i.seq = seq THEN c
       ELSE IF Cardinality(c.peerIds) >= QtMaxIds \/ active = {} THEN QtFails(c)
       ELSE IF c.current \in active THEN sent ELSE [sent EXCEPT !.current = Min(active)]

\* HandleRetireConnectionId: another id takes its place.
QtHandleRetireConnectionId(c, seq) ==
    LET others == {i \in QtActive(c.localIds) : i.seq # seq}
        retire(a) == [a EXCEPT !.localIds = {[i EXCEPT !.retired = @ \/ i.seq = seq] : i \in @}]
        issued == QtIssueConnectionId(c)
    IN IF seq >= c.nextLocal THEN QtFails(c)
       ELSE IF [seq |-> seq, retired |-> TRUE] \in c.localIds THEN c
       ELSE IF c.source # seq THEN QtIssueConnectionId(retire(c))
       ELSE IF others # {} THEN QtIssueConnectionId(retire([c EXCEPT !.source = Min({i.seq : i \in others})]))
       ELSE IF ~issued.ok THEN issued
       ELSE retire([issued EXCEPT !.source = c.nextLocal])

----------------------------------------
(* Keys of the application space, by generation.                           *)

\* InitiateKeyUpdate and ConfirmSendKeyUpdate.
QtInitiateKeyUpdate(c) ==
    [c EXCEPT !.writeGen = @ + 1, !.phaseStart = c.pn, !.awaitingAck = TRUE]
QtConfirmSendKeyUpdate(c, acknowledged) ==
    [c EXCEPT !.awaitingAck = @ /\ Max(acknowledged) < c.phaseStart]

\* Which read key the key phase bit and the packet number choose.
QtReadKey(c, packet) ==
    IF packet.gen % 2 = c.readGen % 2 THEN "Current"
    ELSE IF c.previous /\ packet.pn < c.readStart THEN "Previous" ELSE "Next"

\* The generation of that key; only its own packets open.
QtOpens(c, packet) ==
    packet.gen + 1 = CASE QtReadKey(c, packet) = "Current" -> c.readGen + 1
                       [] QtReadKey(c, packet) = "Previous" -> c.readGen
                       [] OTHER -> c.readGen + 2

QtAdvanceReadKey(c, packet) ==
    IF QtReadKey(c, packet) # "Next" THEN c
    ELSE [c EXCEPT !.previous = TRUE, !.readGen = @ + 1, !.readStart = packet.pn]

----------------------------------------
(* Frames.                                                                 *)

\* FindStream and CreateStream: a stream of the server is created by its first frame.
QtFindStream(c, id) ==
    IF c.streams[id].open THEN c
    ELSE IF id = QtRequest THEN QtFails(c) ELSE [c EXCEPT !.streams[id] = QtNewStream(0)]

\* STREAM: the stream first, then the connection's account, then the callback.
QtOnStream(c0, frame) ==
    LET c == QtFindStream(c0, frame.id)
        r == QtStreamReceive(c.streams[frame.id], frame.at, frame.data, frame.fin)
        before == c.streams[frame.id].high
    IN IF ~c.ok \/ ~r[2] \/ ~QtReceiveFits(c.flow, before, r[1].high) THEN QtFails(c)
       ELSE [c EXCEPT !.streams[frame.id] = QtNotifyReadable(r[1]),
                      !.flow = QtOnStreamReceiveProgress(@, before, r[1].high)]

\* RESET_STREAM.
QtOnReset(c0, frame) ==
    LET c == QtFindStream(c0, frame.id)
        r == QtOnResetReceived(c.streams[frame.id], frame.size)
        before == c.streams[frame.id].high
    IN IF ~c.ok \/ ~r[2] \/ ~QtReceiveFits(c.flow, before, frame.size) THEN QtFails(c)
       ELSE [c EXCEPT !.streams[frame.id] = r[1], !.flow = QtOnStreamReceiveProgress(@, before, frame.size)]

\* STOP_SENDING: answered by RESET_STREAM unless one was sent.
QtOnStopSending(c, frame) ==
    LET r == QtStopSending(c.streams[frame.id], frame.code)
        answered == QtSend([c EXCEPT !.streams[frame.id] = QtStreamReset(r[1])],
                           [t |-> "reset", id |-> frame.id, size |-> r[1].sent], TRUE)
    IN IF ~c.streams[frame.id].open \/ ~r[2] THEN QtFails(c)
       ELSE IF c.streams[frame.id].reset THEN [c EXCEPT !.streams[frame.id] = r[1]] ELSE answered

\* MAX_DATA and MAX_STREAM_DATA.
QtOnMaxDataFrame(c, frame) ==
    QtNotifyWritableStreams([c EXCEPT !.flow = QtOnMaxData(@, frame.maximum)])
QtOnMaxStreamDataFrame(c, frame) ==
    IF ~c.streams[frame.id].open THEN QtFails(c)
    ELSE [c EXCEPT !.streams[frame.id] = QtOnMaxStreamData(@, frame.maximum)]

\* ACK.
QtOnAck(c, frame, old) ==
    IF Max(frame.acked) >= c.pn THEN QtFails(c)
    ELSE QtNotifyWritableStreams(QtConfirmSendKeyUpdate(
            [c EXCEPT !.recovery = QtOnAckRangesReceived(@, frame.acked, old, c.pn)], frame.acked))

QtDispatchFrame(c, frame, old) ==
    CASE frame.t = "stream" -> QtOnStream(c, frame)
      [] frame.t = "reset" -> QtOnReset(c, frame)
      [] frame.t = "stop" -> QtOnStopSending(c, frame)
      [] frame.t = "max_data" -> QtOnMaxDataFrame(c, frame)
      [] frame.t = "max_stream_data" -> QtOnMaxStreamDataFrame(c, frame)
      [] frame.t = "newid" -> QtHandleNewConnectionId(c, frame.seq, frame.priorTo)
      [] frame.t = "retire" -> QtHandleRetireConnectionId(c, frame.seq)
      [] frame.t = "ack" -> QtOnAck(c, frame, old)
      [] frame.t = "path" -> QtSend(c, [t |-> "path_response"], TRUE)
      [] frame.t = "close" -> [c EXCEPT !.state = "Draining"]
      [] OTHER -> c

\* ProcessPacket: unopened and repeated packets are dropped; the second packet that asks
\* for it is acknowledged at once.
QtProcessPacket(c0, packet, old) ==
    LET c == [QtAdvanceReadKey(c0, packet) EXCEPT !.heard = @ \cup {packet.pn},
                !.ranges = QtOnPacketReceived(@, packet.pn),
                !.unacked = IF packet.frame.t \in {"ack", "close"} THEN @ ELSE @ + 1]
        d == QtDispatchFrame(c, packet.frame, old)
    IN IF ~QtOpens(c0, packet) \/ QtInRanges(c0.ranges, packet.pn) THEN c0
       ELSE IF Len(c0.ranges) >= QtMaxRanges THEN QtFails(c0)
       ELSE IF d.ok /\ d.unacked >= 2 THEN QtSendAck(d) ELSE d

----------------------------------------
(* The worker: a packet, a command of the application, or a timer.         *)

QtEstablished == qtClient.state = "Established"

\* What the step sent, acknowledgements aside; a failure ends the connection.
QtDone(c) ==
    /\ qtClient' = [c EXCEPT !.out = {}, !.ok = TRUE, !.state = IF c.ok THEN @ ELSE "Failed"]
    /\ qtUp' = qtUp \cup {packet \in c.out : packet.frame.t # "ack"}

QtClient(c) == QtDone(c) /\ UNCHANGED <<qtServer, qtDown>>

QtReceive ==
    /\ QtEstablished
    /\ \E packet \in qtDown, old \in 0..qtClient.pn :
          /\ old # 0 => packet.frame.t = "ack"
          /\ QtClient(QtProcessPacket(qtClient, packet, old))

QtMay(activity) == QtEstablished /\ qtClient.pn < QtMaxSent /\ activity \in qtServer.uses

\* ApplicationOpenBidirectionalStream.
QtOpenStream ==
    /\ QtMay("open") /\ ~qtClient.streams[QtRequest].open
    /\ QtClient([qtClient EXCEPT !.streams[QtRequest] = QtNewStream(qtServer.streamLimit)])

\* ApplicationWriteStream, one frame of it.
QtWriteStream ==
    /\ QtMay("write") /\ qtClient.streams[QtRequest].open
    /\ \E bytes \in 1..2, fin, paced \in BOOLEAN :
          QtClient(QtSendStreamFrame(qtClient, QtRequest, bytes, fin, paced))

\* ApplicationConsumeStream.
QtConsumeStream ==
    /\ QtEstablished /\ "consume" \in qtServer.uses
    /\ \E id \in QtStreams, capacity \in 1..2 :
          LET s == QtStreamConsume(qtClient.streams[id], capacity)
          IN /\ qtClient.streams[id].open
             /\ QtClient([qtClient EXCEPT !.streams[id] = s,
                    !.flow = QtOnStreamConsumed(@, Len(s.consumed) - Len(qtClient.streams[id].consumed))])

\* ApplicationResetStream: again only with the same arguments.
QtResetStream ==
    /\ QtMay("abort") /\ qtClient.streams[QtRequest].open /\ ~qtClient.streams[QtRequest].reset
    /\ QtClient([QtSend(qtClient, [t |-> "reset", id |-> QtRequest, size |-> qtClient.streams[QtRequest].sent], TRUE)
                   EXCEPT !.streams[QtRequest] = QtStreamReset(@)])

\* ApplicationStopSending: the frame is sent before the stream refuses a second code.
QtAskToStop ==
    /\ QtMay("abort") /\ qtClient.streams[QtRequest].open /\ qtClient.streams[QtRequest].stopped = "no"
    /\ QtClient([QtSend(qtClient, [t |-> "stop", id |-> QtRequest], TRUE)
                   EXCEPT !.streams[QtRequest] = QtStopSending(@, "mine")[1]])

\* ApplicationClose, EnterClosing.
QtClose == QtMay("abort") /\ QtClient([QtSend(qtClient, [t |-> "close"], FALSE) EXCEPT !.state = "Closing"])

QtUpdateKeys ==
    QtMay("update") /\ ~qtClient.awaitingAck /\ qtClient.writeGen < 1 /\ QtClient(QtInitiateKeyUpdate(qtClient))

\* ProcessDeadlines: acknowledgement, loss, probe, pacing and the previous read key.
QtAckTimer == QtEstablished /\ qtClient.unacked > 0 /\ QtClient(QtSendAck(qtClient))
QtLossTimer ==
    /\ QtEstablished /\ \E p \in qtClient.recovery.packets : p.pn + 1 < qtClient.recovery.largest
    /\ \E old \in 1..qtClient.pn :
          /\ \E p \in qtClient.recovery.packets : p.pn < old
          /\ QtClient([qtClient EXCEPT !.recovery = QtOnLossTimerExpired(@, old, qtClient.pn)])
QtProbeTimer ==
    /\ QtMay("ack") /\ \E p \in qtClient.recovery.packets : p.eliciting
    /\ QtClient(QtSend(qtClient, [t |-> "ping"], TRUE))
QtPacingTimer == QtEstablished /\ qtClient.paced /\ QtClient(QtNotifyWritableStreams(qtClient))
QtPreviousKeyExpires ==
    QtEstablished /\ qtClient.previous /\ QtClient([qtClient EXCEPT !.previous = FALSE])

----------------------------------------
(* The server (external).                                                  *)

QtServerSends(frame, s) ==
    /\ qtServer.pn < QtMaxPackets
    /\ qtDown' = qtDown \cup {[pn |-> s.pn, gen |-> s.gen, frame |-> frame]}
    /\ qtServer' = [s EXCEPT !.pn = @ + 1] /\ UNCHANGED <<qtClient, qtUp>>

\* Any part of a stream again, within the limits the transport parameters gave.
QtServerStream ==
    /\ "stream" \in qtServer.uses
    /\ \E id \in QtStreams, at \in 0..QtLength : \E end \in at..QtLength :
          /\ id \in qtServer.known /\ ~qtServer.reset[id] /\ end <= QtReceiveLimit
          /\ at = end => end = QtLength
          /\ QtServerSends([t |-> "stream", id |-> id, at |-> at, data |-> [i \in 1..(end - at) |-> at + i - 1],
                      fin |-> end = QtLength],
                     [qtServer EXCEPT !.high[id] = Max({@, end})])

QtServerReset ==
    /\ "reset" \in qtServer.uses
    /\ \E id \in qtServer.known :
          QtServerSends([t |-> "reset", id |-> id, size |-> qtServer.high[id]], [qtServer EXCEPT !.reset[id] = TRUE])

QtServerStop ==
    "stop" \in qtServer.uses /\ QtRequest \in qtServer.known
    /\ QtServerSends([t |-> "stop", id |-> QtRequest, code |-> "theirs"], qtServer)

QtServerLimits ==
    /\ "limits" \in qtServer.uses
    /\ \/ QtServerSends([t |-> "max_data", maximum |-> qtServer.limit + 1], [qtServer EXCEPT !.limit = @ + 1])
       \/ QtRequest \in qtServer.known /\ QtServerSends([t |-> "max_stream_data", id |-> QtRequest,
                maximum |-> qtServer.streamLimit + 1], [qtServer EXCEPT !.streamLimit = @ + 1])

\* A new id, with or without the older ones retired.
QtServerNewId ==
    /\ "ids" \in qtServer.uses
    /\ \E priorTo \in {0, qtServer.nextId} :
          QtServerSends([t |-> "newid", seq |-> qtServer.nextId, priorTo |-> priorTo],
                  [qtServer EXCEPT !.nextId = @ + 1])

QtServerRetireId ==
    /\ "retire" \in qtServer.uses
    /\ \E seq \in qtServer.ids :
          QtServerSends([t |-> "retire", seq |-> seq], [qtServer EXCEPT !.ids = @ \ {seq}])

QtServerUpdateKeys == "key" \in qtServer.uses /\ qtServer.gen < 1 /\ QtServerSends([t |-> "ping"], [qtServer EXCEPT !.gen = @ + 1])

QtServerAck == "ack" \in qtServer.uses /\ qtServer.got # {} /\ QtServerSends([t |-> "ack", acked |-> qtServer.got], qtServer)
QtServerPath == "path" \in qtServer.uses /\ QtServerSends([t |-> "path"], qtServer)
QtServerClose == "close" \in qtServer.uses /\ QtServerSends([t |-> "close"], qtServer)

\* What the client may not do: exceed a limit, or use an id it retired itself.
QtServerOffends(packet) ==
    LET f == packet.frame IN
    \/ f.t = "stream" /\ f.at + f.bytes > Min({qtServer.streamLimit, qtServer.limit})
    \/ packet.to \in qtServer.retired

QtServerReceive ==
    \E packet \in qtUp :
        LET f == packet.frame IN
        /\ packet.pn \notin qtServer.got
        /\ qtServer' = [qtServer EXCEPT !.got = @ \cup {packet.pn},
                !.offended = @ \/ QtServerOffends(packet),
                !.gen = Max({@, packet.gen}),
                !.known = IF f.t \in {"stream", "reset", "stop"} THEN @ \cup {QtRequest} ELSE @,
                !.ids = IF f.t = "newid" THEN @ \cup {f.seq} ELSE @,
                !.retired = IF f.t = "retire" THEN @ \cup {f.seq} ELSE @]
        /\ UNCHANGED <<qtClient, qtUp, qtDown>>

----------------------------------------
QtInit ==
    /\ qtClient = [state |-> "Established", ok |-> TRUE, out |-> {}, pn |-> 0, ranges |-> <<>>, unacked |-> 0,
                   heard |-> {}, paced |-> FALSE, flow |-> QtFlow(1, 2 * QtReceiveLimit),
                   streams |-> [id \in QtStreams |-> QtClosedStream],
                   recovery |-> [packets |-> {}, flight |-> 0, window |-> QtWindow, threshold |-> QtMaxSent,
                                 recovery |-> 0, largest |-> 0],
                   writeGen |-> 0, phaseStart |-> 0, awaitingAck |-> FALSE,
                   readGen |-> 0, readStart |-> 0, previous |-> FALSE,
                   peerIds |-> {[seq |-> 0, retired |-> FALSE]}, current |-> 0,
                   localIds |-> {[seq |-> 0, retired |-> FALSE]}, source |-> 0, nextLocal |-> 1]
    /\ \E uses \in QtScenarios : qtServer = [uses |-> uses, pn |-> 0, gen |-> 0, got |-> {}, known |-> {QtPush}, high |-> [id \in QtStreams |-> 0],
                   reset |-> [id \in QtStreams |-> FALSE], limit |-> 1, streamLimit |-> 1,
                   nextId |-> 1, ids |-> {0}, retired |-> {}, offended |-> FALSE]
    /\ qtUp = {} /\ qtDown = {}

QtNext ==
    \/ QtReceive \/ QtOpenStream \/ QtWriteStream \/ QtConsumeStream \/ QtResetStream \/ QtAskToStop
    \/ QtClose \/ QtUpdateKeys \/ QtAckTimer \/ QtLossTimer \/ QtProbeTimer \/ QtPacingTimer
    \/ QtPreviousKeyExpires
    \/ QtServerStream \/ QtServerReset \/ QtServerStop \/ QtServerLimits \/ QtServerNewId \/ QtServerRetireId \/ QtServerUpdateKeys \/ QtServerAck
    \/ QtServerPath \/ QtServerClose \/ QtServerReceive

QtSpec == QtInit /\ [][QtNext]_qtVars

----------------------------------------
\* Whatever part of a stream arrives, in whatever order and however often, the application
\* reads the server's bytes in order, and the end is reported at the end or after the
\* callback for a reset.
QuicStreamIntact ==
    \A id \in QtStreams :
        LET s == qtClient.streams[id]
        IN /\ s.consumed = [i \in 1..Len(s.consumed) |-> i - 1]
           /\ s.ended => s.receiveReset \/ Len(s.consumed) = QtLength

\* The accounts agree with what they count: the ranges to acknowledge with the packets
\* processed, the datagrams in flight with the packets not yet settled, the connection's
\* bytes with its streams'; and the destination id is one the client has not retired.
QuicAccountsExact ==
    LET c == qtClient IN
    /\ \A n \in 0..QtMaxPackets : QtInRanges(c.ranges, n) <=> n \in c.heard
    /\ \A i \in 1..(Len(c.ranges) - 1) : c.ranges[i][1] > c.ranges[i + 1][2] + 1
    /\ c.recovery.flight = Cardinality({p \in c.recovery.packets : p.eliciting})
    /\ c.flow.received = c.streams[QtRequest].high + c.streams[QtPush].high
    /\ c.flow.sent = c.streams[QtRequest].sent /\ c.flow.sent <= c.flow.sendLimit
    /\ c.flow.consumed <= c.flow.received
    /\ [seq |-> c.current, retired |-> TRUE] \notin c.peerIds

\* A conforming server never makes the client give up the connection, and the client never
\* breaks a rule the server enforces.
QuicConforms == qtClient.state # "Failed" /\ ~qtServer.offended

(* Streams deliver what was sent and the accounts of both ends are right.    *)
QuicDeliversExactly == QuicStreamIntact /\ QuicAccountsExact
=============================================================================
