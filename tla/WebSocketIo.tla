---------------------------- MODULE WebSocketIo ----------------------------
\* An open WebSocket: session/WsSendData.cpp, WsControl.cpp, WsReceive.cpp
\* and WsClose.cpp over session/WsConnection.cpp and ws/WebSocketFrame.cpp.
\*
\* Two levels keep a copy of the sending state: the handle (wsHandle, what
\* the API tests before it takes SendLock) and the connection (wsConn, what
\* is tested under the lock).  Senders serialise on SendLock and receivers
\* on ReceiveLock; nothing serialises a receiver's automatic answers and
\* its failure path with a sender.
\*
\* Text is a sequence of units: "a" is a one-byte character, "h" the lead
\* and "t" a continuation byte of a three-byte one.  A frame carries one
\* unit, so a fragment of two units is cut in two frames, the way SendFrame
\* cuts at the frame buffer.  The peer is an acceptor of RFC 6455 frames (wsPeer).
EXTENDS Naturals, Sequences, FiniteSets

CONSTANTS WsSenders, WsReceivers,  \* threads that send and that receive
          WsNobody,                \* the free lock
          WsMaxSends,              \* bound on the sends of the application
          WsMaxFrames,             \* bound on the frames of the peer
          WsMaxControlFrames,      \* WsMaxControlFramesPerReceive
          WsMaxMessage             \* units a message may hold

ASSUME WsConstants == /\ WsNobody \notin WsSenders \cup WsReceivers
                      /\ WsSenders \cap WsReceivers = {}
                      /\ WsMaxControlFrames \in Nat /\ WsMaxMessage \in Nat

VARIABLES wsHandle, wsConn, wsPeer, wsThread, wsSendLock, wsReceiveLock,
          wsOutput,      \* WebSocketPayloadScratch, unit by unit
          wsSent,        \* the units of the message the peer is sending
          wsCount,       \* sends and peer frames so far
          wsHistory      \* what happened that the code does not remember

webSocketVars == <<wsHandle, wsConn, wsPeer, wsThread, wsSendLock,
                   wsReceiveLock, wsOutput, wsSent, wsCount, wsHistory>>

WsThreads == WsSenders \cup WsReceivers
Contents == {<<"a">>, <<"h">>, <<"t">>, <<"h", "t">>, <<"t", "t">>}

\* AdvanceUtf8State over one unit: the continuation bytes that are missing
\* (0 between characters), 3 when the text is not UTF-8.
AdvanceUnit(state, unit) ==
    CASE state = 0 /\ unit = "a" -> 0
      [] state = 0 /\ unit = "h" -> 2
      [] state \in {1, 2} /\ unit = "t" -> state - 1
      [] OTHER -> 3

\* AdvanceUtf8State: an unfinished character is an error on the last fragment only.
AdvanceUtf8State(state, units, fin) ==
    LET one == AdvanceUnit(state, units[1])
        all == IF Len(units) = 1 THEN one ELSE AdvanceUnit(one, units[2])
    IN  IF fin /\ all # 0 THEN 3 ELSE all

ClosedFragment == [open |-> FALSE, text |-> FALSE, utf |-> 0, packed |-> FALSE]
Stale == [i \in 1..WsMaxMessage |-> "stale"]    \* bytes of an earlier message
WsIdle == [at |-> "idle"]

WebSocketInit ==
    \E deflate, auto, h2 \in BOOLEAN :
       /\ h2 => ~deflate /\ auto          \* the other HTTP/2 cases add nothing
       /\ wsHandle = [connected |-> TRUE, closed |-> FALSE, auto |-> auto,
                      frag |-> ClosedFragment]
       /\ wsConn = [connected |-> TRUE, closeSent |-> FALSE, closeReceived |-> FALSE,
                    live |-> TRUE, h2 |-> h2, deflate |-> deflate, send |-> ClosedFragment,
                    receive |-> ClosedFragment, length |-> 0]
       /\ wsPeer = [frag |-> ClosedFragment, legal |-> TRUE, valid |-> TRUE,
                    closed |-> FALSE, answered |-> FALSE]
       /\ wsThread = [t \in WsThreads |-> WsIdle]
       /\ wsSendLock = WsNobody /\ wsReceiveLock = WsNobody
       /\ wsOutput = Stale /\ wsSent = <<>>
       /\ wsCount = [sends |-> 0, frames |-> 0]
       /\ wsHistory = [torn |-> FALSE, mixed |-> FALSE, mode |-> "none",
                       freedInUse |-> FALSE, delivered |-> TRUE, unpacked |-> TRUE, waited |-> TRUE]

\* The wire.
\* What a peer that enforces RFC 6455 makes of one frame of this client.
PeerAccepts(peer, f) ==
    CASE f.op \in {"ping", "pong"} -> peer
      [] f.op = "close" -> [peer EXCEPT !.closed = TRUE]
      [] OTHER ->
         LET first == f.op # "cont"
             text  == IF first THEN f.op = "text" ELSE peer.frag.text
             from  == IF first THEN 0 ELSE peer.frag.utf
             next  == IF text THEN AdvanceUtf8State(from, <<f.unit>>, f.fin) ELSE 0
         IN  [peer EXCEPT
               !.legal = @ /\ (first <=> ~peer.frag.open) /\ (f.rsv1 => first),
               !.valid = @ /\ next # 3,
               !.frag  = IF f.fin THEN ClosedFragment
                         ELSE [open |-> TRUE, text |-> text,
                               utf |-> IF next = 3 THEN 0 ELSE next, packed |-> f.rsv1]]

\* EncodeAndSendMessageFrame: RSV1 only on the first frame of a packed message.
MessageFrame(op, unit, fin, send) ==
    [op |-> op, unit |-> unit, fin |-> fin,
     rsv1 |-> wsConn.deflate /\ op # "cont" /\ ~send.packed]

\* sendCompressedMessage_ after that frame went out.
Packed(send, op, fin) ==
    [send EXCEPT !.packed = IF fin \/ ~wsConn.deflate THEN FALSE
                            ELSE IF op # "cont" THEN TRUE ELSE @]

\* Closing.
\* CloseTransport: the TLS object, the transports and the socket are freed,
\* whoever is inside a receive or a send on them.
FreesTransport(t) ==
    wsHistory' = [wsHistory EXCEPT !.freedInUse = @ \/
        (wsConn.live /\ \E o \in WsThreads \ {t} :
                           wsThread[o].at \in {"reading", "frames"})]

\* WsConnection::Close behind CloseWebSocketTransport: everything is reset,
\* the close flags included, and the transport is closed.
ConnClosed == [wsConn EXCEPT !.connected = FALSE, !.closeSent = FALSE,
                             !.closeReceived = FALSE, !.live = FALSE,
                             !.deflate = FALSE, !.send = ClosedFragment,
                             !.receive = ClosedFragment, !.length = 0]

\* The thread leaves the API call and gives its lock back.
Leaves(t) ==
    /\ wsThread' = [wsThread EXCEPT ![t] = WsIdle]
    /\ wsSendLock' = IF wsSendLock = t THEN WsNobody ELSE wsSendLock
    /\ wsReceiveLock' = IF wsReceiveLock = t THEN WsNobody ELSE wsReceiveLock

\* DisconnectWebSocketOnTerminalStatus / CloseWebSocketTransport, reached with
\* a connection that is already marked disconnected: no close frame is sent.
CloseWebSocketTransport(t) ==
    /\ wsThread[t].at = "hclose"
    /\ wsHandle' = [wsHandle EXCEPT !.connected = FALSE, !.closed = TRUE,
                                    !.frag = ClosedFragment]
    /\ IF wsHandle.closed
       THEN UNCHANGED <<wsConn, wsHistory>>
       ELSE wsConn' = ConnClosed /\ FreesTransport(t)
    /\ Leaves(t)
    /\ UNCHANGED <<wsPeer, wsOutput, wsSent, wsCount>>

\* CloseTransport on the way out of a receive or of a failed send.
CloseTransport(t) ==
    /\ wsThread[t].at = "tclose"
    /\ wsConn' = [wsConn EXCEPT !.live = FALSE]
    /\ FreesTransport(t)
    /\ wsThread' = [wsThread EXCEPT ![t] = [at |-> "hclose"]]
    /\ UNCHANGED <<wsHandle, wsPeer, wsSendLock, wsReceiveLock, wsOutput, wsSent, wsCount>>

\* Sending.
\* ValidateWebSocketOutgoingText / the UTF-8 part of SendFrame against a copy
\* of the fragment state.
OutgoingText(op, frag, data, fin) ==
    CASE op = "text" -> AdvanceUtf8State(0, data, fin)
      [] op = "cont" /\ frag.text -> AdvanceUtf8State(frag.utf, data, fin)
      [] OTHER -> 0

\* An API call up to SendLock: the handle is read without the lock.
CallsSend(t, op, fin, data) ==
    /\ wsThread[t].at = "idle" /\ wsHandle.connected /\ wsCount.sends < WsMaxSends
    /\ OutgoingText(op, wsHandle.frag, data, fin) # 3
    /\ wsThread' = [wsThread EXCEPT ![t] =
          [at |-> "checked", op |-> op, fin |-> fin, data |-> data, i |-> 1,
           utf |-> OutgoingText(op, wsHandle.frag, data, fin), text |-> FALSE, next |-> 0]]
    /\ wsCount' = [wsCount EXCEPT !.sends = @ + 1]
    /\ UNCHANGED <<wsHandle, wsConn, wsPeer, wsSendLock, wsReceiveLock, wsOutput,
                   wsSent, wsHistory>>

SendText(t) ==
    /\ ~wsHandle.frag.open
    /\ \E fin \in BOOLEAN, data \in Contents : CallsSend(t, "text", fin, data)

SendBinary(t) ==        \* of binary data only the length matters
    /\ ~wsHandle.frag.open
    /\ \E fin \in BOOLEAN, data \in {<<"a">>, <<"h", "t">>} : CallsSend(t, "binary", fin, data)

SendContinuation(t) ==
    /\ wsHandle.frag.open
    /\ \E fin \in BOOLEAN, data \in Contents :
          /\ ~wsHandle.frag.text => data \in {<<"a">>, <<"h", "t">>}
          /\ CallsSend(t, "cont", fin, data)

SendPing(t) == CallsSend(t, "ping", TRUE, <<"a">>)

\* Mutant of SendRefused: the fragment state is trusted from before the lock.
TrustsTheHandle(c, next) == wsConn.closeSent \/ wsConn.closeReceived \/ next = 3

\* What SendFrame refuses once it holds the lock.
SendRefused(c, next) ==
    \/ c.op # "ping" /\ (c.op = "cont") # wsConn.send.open
    \/ wsConn.closeSent \/ wsConn.closeReceived
    \/ next = 3

\* WsConnection::SendFrame and SendControlFrame, their tests, under SendLock.
SendFrameBegins(t) ==
    LET c == wsThread[t]
        text == c.op = "text" \/ (c.op = "cont" /\ wsConn.send.text)
        next == OutgoingText(c.op, wsConn.send, c.data, c.fin)
    IN  /\ c.at = "checked" /\ wsSendLock = WsNobody
        /\ \/ /\ ~wsConn.connected       \* STATUS_CONNECTION_DISCONNECTED
              /\ wsSendLock' = t
              /\ wsThread' = [wsThread EXCEPT ![t] = [at |-> "hclose"]]
           \/ /\ wsConn.connected /\ SendRefused(c, next)
              /\ wsThread' = [wsThread EXCEPT ![t] = WsIdle]
              /\ UNCHANGED wsSendLock
           \/ /\ wsConn.connected /\ ~SendRefused(c, next)
              /\ wsSendLock' = t
              /\ wsThread' = [wsThread EXCEPT ![t] =
                    [c EXCEPT !.at = "frames", !.text = text, !.next = next]]
    /\ UNCHANGED <<wsHandle, wsConn, wsPeer, wsReceiveLock, wsOutput, wsSent,
                   wsCount, wsHistory>>

\* Mutant of CompleteWebSocketSendFragment: every fragment sets the type.
CompletesWithType(c) ==
    IF c.op = "ping" THEN wsHandle
    ELSE [wsHandle EXCEPT !.frag =
        IF c.fin THEN ClosedFragment
        ELSE [open |-> TRUE, text |-> c.op = "text", utf |-> c.utf, packed |-> FALSE]]

\* CompleteWebSocketSendFragment: the handle follows the connection.
CompleteWebSocketSendFragment(c) ==
    IF c.op = "ping" THEN wsHandle
    ELSE [wsHandle EXCEPT !.frag =
        IF c.fin THEN ClosedFragment
        ELSE [open |-> TRUE, text |-> IF @.open THEN @.text ELSE c.op = "text",
              utf |-> c.utf, packed |-> FALSE]]

\* One frame of SendFrame's loop and, after the last one, the new fragment state.
SendsFrame(t) ==
    LET c == wsThread[t]
        last == c.i = Len(c.data)
        op == IF c.i = 1 THEN c.op ELSE "cont"
        fin == c.fin /\ last
        send == Packed(wsConn.send, op, fin)
    IN  /\ c.at = "frames" /\ wsConn.live
        /\ wsPeer' = PeerAccepts(wsPeer,
                        IF op = "ping" THEN [op |-> op]
                        ELSE MessageFrame(op, c.data[c.i], fin, wsConn.send))
        /\ wsConn' = [wsConn EXCEPT !.send =
              IF op = "ping" THEN @
              ELSE IF ~last THEN send
              ELSE IF c.fin THEN ClosedFragment
              ELSE [open |-> TRUE, text |-> c.text, utf |-> c.next, packed |-> send.packed]]
        /\ IF last THEN /\ wsHandle' = CompleteWebSocketSendFragment(c)
                        /\ Leaves(t)
           ELSE /\ wsThread' = [wsThread EXCEPT ![t].i = @ + 1]
                /\ UNCHANGED <<wsHandle, wsSendLock, wsReceiveLock>>
        /\ UNCHANGED <<wsOutput, wsSent, wsCount, wsHistory>>

\* The masking key or the packed copy cannot be allocated: the send returns
\* and the frames already sent stay sent.
SendRunsOut(t) ==
    /\ wsThread[t].at = "frames"
    /\ wsHistory' = [wsHistory EXCEPT !.torn = @ \/ wsThread[t].i > 1]
    /\ Leaves(t)
    /\ UNCHANGED <<wsHandle, wsConn, wsPeer, wsOutput, wsSent, wsCount>>

\* EncodeAndSendFrame meets a terminal status: over HTTP/2 it only marks the
\* connection, otherwise it closes the transport itself.
FrameIsLost(t) ==
    /\ wsConn' = [wsConn EXCEPT !.connected = FALSE, !.closeReceived = @ \/ ~wsConn.h2]
    /\ wsThread' = [wsThread EXCEPT ![t] = [at |-> IF wsConn.h2 THEN "hclose" ELSE "tclose"]]

SendIsLost(t) ==
    /\ wsThread[t].at = "frames"
    /\ FrameIsLost(t)
    /\ UNCHANGED <<wsHandle, wsPeer, wsSendLock, wsReceiveLock, wsOutput, wsSent,
                   wsCount, wsHistory>>

\* Receiving.
\* WebSocketReceiveSyncImpl up to the loop of ReceiveMessage.
ReceiveBegins(t) ==
    /\ wsThread[t].at = "idle" /\ wsHandle.connected
    /\ wsReceiveLock = WsNobody /\ wsReceiveLock' = t
    /\ IF wsConn.connected /\ ~wsConn.closeReceived
       THEN \E deliver \in BOOLEAN :
              wsThread' = [wsThread EXCEPT ![t] =
                  [at |-> "reading", deliver |-> deliver, control |-> 0]]
       ELSE wsThread' = [wsThread EXCEPT ![t] = [at |-> "hclose"]]
    /\ UNCHANGED <<wsHandle, wsConn, wsPeer, wsSendLock, wsOutput, wsSent, wsCount, wsHistory>>

\* What the peer sends; "malformed" is every frame the header tests refuse
\* whatever the state: masked, reserved bits, RSV1 out of place, bad lengths.
PeerFrames == [op : {"text"}, fin : BOOLEAN, unit : {"a", "h"}, rsv1 : {FALSE, wsConn.deflate}]
              \cup [op : {"cont"}, fin : BOOLEAN, unit : {"a", "t"}, rsv1 : {FALSE}]
              \cup [op : {"binary"}, fin : BOOLEAN, unit : {"a"}, rsv1 : {FALSE, wsConn.deflate}]
              \cup [op : {"ping", "pong", "close", "malformed"}]

\* ReceiveMessage fails the connection over this frame: the header tests and
\* the UTF-8 state of the open message.
BreaksProtocol(f) ==
    \/ f.op = "malformed"
    \/ /\ f.op \in {"text", "binary", "cont"}
       /\ \/ (f.op = "cont") # wsConn.receive.open
          \/ wsConn.length + 1 > WsMaxMessage

OpensFragment(f) ==
    IF wsConn.receive.open THEN wsConn.receive
    ELSE [open |-> FALSE, text |-> f.op = "text", utf |-> 0, packed |-> f.rsv1]

OffsetIsZero(c) == 0    \* mutant of OutputOffset

\* IsValidUtf8 over the assembled message.
WholeTextIsValid(units) ==
    LET walk[i \in 0..Len(units)] ==
          IF i = 0 THEN 0 ELSE IF walk[i - 1] = 3 THEN 3 ELSE AdvanceUnit(walk[i - 1], units[i])
    IN  walk[Len(units)] = 0

OutputOffset(c) == IF c.deliver THEN 0 ELSE wsConn.length

\* A data frame of ReceiveMessage: stored at the output offset, checked, and
\* either delivered, kept for the next frame, or assembled.
DataFrameArrives(t, f) ==
    LET c == wsThread[t]
        r == OpensFragment(f)
        utf == IF r.text /\ ~r.packed THEN AdvanceUtf8State(r.utf, <<f.unit>>, f.fin) ELSE 0
        output == [wsOutput EXCEPT ![OutputOffset(c) + 1] = f.unit]
        message == SubSeq(output, 1, wsConn.length + 1)
        sent == IF f.op = "cont" THEN Append(wsSent, f.unit) ELSE <<f.unit>>
        mixed == r.open /\ (wsHistory.mixed \/ wsHistory.mode # c.deliver)
        wrong == \/ r.packed /\ message # sent        \* InflateMessage is given other bytes
                 \/ r.text /\ (r.packed \/ ~c.deliver) /\ ~WholeTextIsValid(message)
    IN  /\ wsSent' = IF f.fin THEN <<>> ELSE sent
        /\ wsOutput' = IF f.fin THEN Stale ELSE output
        /\ \/ /\ utf = 3 \/ (f.fin /\ wrong)
              /\ wsThread' = [wsThread EXCEPT ![t] = [at |-> "failing"]]
              /\ wsHistory' = [wsHistory EXCEPT !.unpacked = @ /\ (r.packed /\ ~mixed => message = sent)]
              /\ UNCHANGED <<wsConn, wsReceiveLock, wsSendLock>>
           \/ /\ utf # 3 /\ ~f.fin
              /\ wsConn' = [wsConn EXCEPT !.length = @ + 1,
                               !.receive = [r EXCEPT !.open = TRUE, !.utf = utf]]
              /\ wsHistory' = [wsHistory EXCEPT !.mixed = mixed, !.mode = c.deliver]
              /\ IF c.deliver /\ ~r.packed THEN Leaves(t)
                 ELSE UNCHANGED <<wsThread, wsSendLock, wsReceiveLock>>
           \/ /\ utf # 3 /\ f.fin /\ ~wrong
              /\ wsConn' = [wsConn EXCEPT !.length = 0, !.receive = ClosedFragment]
              /\ wsHistory' = [wsHistory EXCEPT !.mixed = FALSE, !.mode = "none",
                    !.delivered = @ /\ (~c.deliver /\ ~mixed => message = sent)]
              /\ Leaves(t)
        /\ UNCHANGED <<wsHandle, wsPeer>>

\* One frame of the peer in ReceiveMessage's loop.
FrameArrives(t) ==
    LET c == wsThread[t]
    IN  /\ c.at = "reading" /\ wsConn.live /\ wsCount.frames < WsMaxFrames
        /\ wsCount' = [wsCount EXCEPT !.frames = @ + 1]
        /\ \E f \in PeerFrames :
             \/ /\ BreaksProtocol(f)
                /\ wsThread' = [wsThread EXCEPT ![t] = [at |-> "failing"]]
                /\ UNCHANGED <<wsHandle, wsConn, wsPeer, wsSendLock, wsReceiveLock,
                               wsOutput, wsSent, wsHistory>>
             \/ /\ f.op \in {"ping", "pong"}
                /\ IF c.control = WsMaxControlFrames
                   THEN /\ wsThread' = [wsThread EXCEPT ![t] = [at |-> "failing"]]
                        /\ UNCHANGED <<wsSendLock, wsReceiveLock>>
                   ELSE IF ~wsHandle.auto THEN Leaves(t)
                   ELSE /\ wsThread' = [wsThread EXCEPT ![t].control = @ + 1,
                              ![t].at = IF f.op = "ping" THEN "answering" ELSE "reading"]
                        /\ UNCHANGED <<wsSendLock, wsReceiveLock>>
                /\ UNCHANGED <<wsHandle, wsConn, wsPeer, wsOutput, wsSent, wsHistory>>
             \/ /\ f.op = "close"
                /\ wsConn' = [wsConn EXCEPT !.closeReceived = TRUE, !.length = 0,
                                            !.receive = ClosedFragment]
                /\ wsThread' = [wsThread EXCEPT ![t] = [at |-> "echo"]]
                /\ UNCHANGED <<wsHandle, wsPeer, wsSendLock, wsReceiveLock, wsOutput,
                               wsSent, wsHistory>>
             \/ /\ f.op \in {"text", "binary", "cont"} /\ ~BreaksProtocol(f)
                /\ DataFrameArrives(t, f)

\* The stream ends, times out or was closed under the receiver.
ReceiveEnds(t) ==
    /\ wsThread[t].at = "reading"
    /\ wsConn' = [wsConn EXCEPT !.connected = FALSE, !.closeReceived = TRUE]
    /\ wsThread' = [wsThread EXCEPT ![t] = [at |-> "tclose"]]
    /\ UNCHANGED <<wsHandle, wsPeer, wsSendLock, wsReceiveLock, wsOutput, wsSent,
                   wsCount, wsHistory>>

\* The automatic Pong, sent without SendLock between any two frames of a
\* sender; when its masking key cannot be allocated the receive returns.
Answers(t) ==
    /\ wsThread[t].at = "answering"
    /\ \/ /\ wsConn.live
          /\ wsPeer' = PeerAccepts(wsPeer, [op |-> "pong"])
          /\ wsThread' = [wsThread EXCEPT ![t].at = "reading"]
          /\ UNCHANGED <<wsConn, wsSendLock, wsReceiveLock>>
       \/ FrameIsLost(t) /\ UNCHANGED <<wsPeer, wsSendLock, wsReceiveLock>>
       \/ Leaves(t) /\ UNCHANGED <<wsConn, wsPeer>>
    /\ UNCHANGED <<wsHandle, wsOutput, wsSent, wsCount, wsHistory>>

\* The peer's close frame is echoed, once, and the transport closed.
EchoesClose(t) ==
    /\ wsThread[t].at = "echo"
    /\ \/ /\ wsConn.live \/ wsConn.closeSent
          /\ wsPeer' = IF wsConn.closeSent THEN wsPeer
                       ELSE PeerAccepts(wsPeer, [op |-> "close"])
          /\ wsConn' = [wsConn EXCEPT !.closeSent = TRUE, !.connected = FALSE]
          /\ wsThread' = [wsThread EXCEPT ![t] = [at |-> "tclose"]]
          /\ UNCHANGED <<wsSendLock, wsReceiveLock>>
       \/ ~wsConn.closeSent /\ FrameIsLost(t) /\ UNCHANGED <<wsPeer, wsSendLock, wsReceiveLock>>
       \/ ~wsConn.closeSent /\ Leaves(t) /\ UNCHANGED <<wsConn, wsPeer>>   \* out of memory
    /\ UNCHANGED <<wsHandle, wsOutput, wsSent, wsCount, wsHistory>>

\* FailConnectionWithClose: both fragment states are dropped, a close frame with
\* the reason is attempted, and the connection is over.
FailConnectionWithClose(t) ==
    /\ wsThread[t].at = "failing"
    /\ \E reaches \in BOOLEAN :
         /\ wsPeer' = IF wsConn.connected /\ ~wsConn.closeSent /\ reaches /\ wsConn.live
                      THEN PeerAccepts(wsPeer, [op |-> "close"]) ELSE wsPeer
         /\ wsConn' = [wsConn EXCEPT !.closeSent = @ \/ (wsConn.connected /\ reaches /\ wsConn.live),
                          !.closeReceived = TRUE, !.connected = FALSE, !.length = 0,
                          !.send = ClosedFragment, !.receive = ClosedFragment]
    /\ wsThread' = [wsThread EXCEPT ![t] = [at |-> "tclose"]]
    /\ UNCHANGED <<wsHandle, wsSendLock, wsReceiveLock, wsOutput, wsSent, wsCount, wsHistory>>

\* WebSocketClose and WebSocketCloseEx, after every call has drained.
\* Close sends an empty close frame and waits for the peer's (WaitForPeerClose);
\* CloseEx sends its own frame first, after which Close finds closeSent_ set.
CloseApi(status) ==
    /\ \A t \in WsThreads : wsThread[t].at = "idle"
    /\ wsHandle.connected /\ ~wsHandle.closed
    /\ LET sends == wsConn.connected /\ ~wsConn.closeSent /\ ~wsConn.closeReceived
       IN  \E reaches \in BOOLEAN :
             /\ wsPeer' = IF sends /\ reaches THEN PeerAccepts(wsPeer, [op |-> "close"])
                          ELSE wsPeer
             /\ wsHistory' = [wsHistory EXCEPT !.waited = sends /\ reaches => ~status]
    /\ wsConn' = ConnClosed
    /\ wsHandle' = [wsHandle EXCEPT !.connected = FALSE, !.closed = TRUE,
                                    !.frag = ClosedFragment]
    /\ UNCHANGED <<wsThread, wsSendLock, wsReceiveLock, wsOutput, wsSent, wsCount>>

WebSocketStep(t) ==
    \/ CloseWebSocketTransport(t) \/ CloseTransport(t)
    \/ SendFrameBegins(t) \/ SendsFrame(t) \/ SendRunsOut(t) \/ SendIsLost(t)
    \/ ReceiveEnds(t) \/ Answers(t) \/ EchoesClose(t) \/ FailConnectionWithClose(t)

WebSocketNext ==
    \/ \E t \in WsThreads : WebSocketStep(t)
    \/ \E t \in WsSenders : SendText(t) \/ SendBinary(t) \/ SendContinuation(t) \/ SendPing(t)
    \/ \E t \in WsReceivers : ReceiveBegins(t) \/ FrameArrives(t)
    \/ \E status \in BOOLEAN : CloseApi(status)

WebSocketSpec == WebSocketInit /\ [][WebSocketNext]_webSocketVars

\* Properties.
\* Whatever two senders, the automatic answers and the failure path do
\* together, the peer sees well-formed messages: a message is never started
\* inside another, a continuation never outside one, RSV1 only on a first
\* frame, and text is valid UTF-8 across fragments and frames - as long as no
\* allocation failed between two frames of one fragment.
PeerSeesWholeMessages == wsHistory.torn \/ (wsPeer.legal /\ wsPeer.valid)

\* The handle's copy of the sending state, tested without the lock, is the
\* connection's whenever no sender is at work on a live connection.
HandleFollowsConnection ==
    wsSendLock = WsNobody /\ wsConn.connected /\ wsHandle.connected
       => /\ wsHandle.frag.open = wsConn.send.open
          /\ wsHandle.frag.open => wsHandle.frag.text = wsConn.send.text

\* A message assembled for the application is the units the peer sent, in
\* order, unless the application changed DeliverFragments inside the message.
MessagesArriveWhole == wsHistory.delivered

\* A compressed message that comes in several frames is inflated from the
\* bytes the peer sent, whether or not fragments are delivered one by one.
CompressedMessagesSurvive == wsHistory.unpacked

\* docsite/websocket.en.md: an active Close or CloseEx waits for the peer's
\* close before the transport is closed.
ActiveCloseWaits == wsHistory.waited

\* No thread is inside a receive or a send on the transport when it is freed.
TransportOutlivesCalls == ~wsHistory.freedInUse

(* Messages cross the connection whole in both directions, and the handle's  *)
(* idea of a message under way is the connection's.                          *)
WebSocketMessagesIntact ==
    PeerSeesWholeMessages /\ MessagesArriveWhole /\ HandleFollowsConnection
=============================================================================
