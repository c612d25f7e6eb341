--------------------------- MODULE Http1Exchange ---------------------------
\* One HTTP/1.1 exchange on a leased connection (session/HttpH1Dispatch,
\* http1/HttpParser, HttpChunkedDecoder, HttpTransferCoding and
\* HttpContentEncoding): the request's head and body, the wait for 100
\* (Continue), the two readers of the response and the one retry of a safe
\* request on a fresh connection.
\*
\* The wire is a sequence of marks: "<" begins a head, "100", "103" and
\* "head" end one, "size", "crlf", "last" and "end" are the lines of the
\* chunked coding, "b1", "b2"... are body bytes.  It reaches the reader in
\* pieces of any size and may break off anywhere.
EXTENDS Integers, Sequences, FiniteSets, SequencesExt

CONSTANTS
    H1BodyLength,       \* bytes of a response body, 1 or 2
    H1UploadLength,     \* bytes of a request body
    H1InitialBuffer,    \* WorkspaceDecodedBodyBytes
    H1MaxResponse,      \* MaxResponseBytes
    H1Framings,         \* subset of {"none", "length", "chunked", "close"}
    H1Codings           \* subset of {"identity", "content", "transfer"}

ASSUME H1Constants ==
    /\ H1BodyLength \in 1..2 /\ H1UploadLength \in Nat \ {0}
    /\ H1InitialBuffer \in Nat \ {0} /\ H1MaxResponse \in Nat \ {0}

VARIABLES
    h1Plan,     \* the request and the response the server has for it
    h1Wire,     \* what the server has yet to deliver on this connection
    h1Peer,     \* "open", "closed" or "reset"
    h1Buffer,   \* workspace.Response up to ResponseLength
    h1At,       \* the step of the exchange
    h1Sent,     \* request body bytes on the wire, -1 before the head is
    h1Decoder,  \* the streaming reader: framing progress and the aggregate
    h1Capacity, \* workspace.DecodedBody.Length
    h1Seen,     \* body bytes that the body callback was given, in order
    h1Body,     \* the body of the response that is returned
    h1Status,   \* what the exchange returned
    h1Reusable, \* *connectionReusable
    h1Dropped,  \* history: marks that were received and thrown away
    h1Attempt   \* 1, or 2 after the retry

h1Vars == <<h1Plan, h1Wire, h1Peer, h1Buffer, h1At, h1Sent, h1Decoder, h1Capacity, h1Seen,
            h1Body, h1Status, h1Reusable, h1Dropped, h1Attempt>>
h1Answer == <<h1Body, h1Status, h1Reusable>>

----------------------------------------
(* The peer                                                                *)

H1Data == SubSeq(<<"b1", "b2">>, 1, H1BodyLength)
(* A coded body is worth something only when all of it is there. *)
H1Coded == SubSeq(<<"z1", "z2">>, 1, H1BodyLength)
Undone(bytes) == IF bytes = H1Coded THEN H1Data ELSE <<"garbage">>
(* HttpTransferCoding::DecodeResponseBody and HttpContentEncoding::Decode. *)
DecodeTransferCodings(bytes) == IF h1Plan.coding = "transfer" THEN Undone(bytes) ELSE bytes
DecodeContentCodings(bytes) == IF h1Plan.coding = "content" THEN Undone(bytes) ELSE bytes
H1Sendable(plan) == IF plan.coding = "identity" THEN H1Data ELSE H1Coded

H1Interim == {<<>>, <<"<", "100">>, <<"<", "103">>, <<"<", "103", "<", "100">>}

ChunkedWire(bytes) ==
    FoldLeft(LAMBDA wire, byte : wire \o <<"size", byte, "crlf">>, <<>>, bytes) \o <<"last", "end">>

FinalWire(plan) ==
    <<"<", "head">> \o
    CASE plan.framing = "none" -> <<>>
      [] plan.framing = "chunked" -> ChunkedWire(H1Sendable(plan))
      [] OTHER -> H1Sendable(plan)

(* Nothing follows a body that the end of the connection delimits. *)
H1ServerWire(plan) ==
    plan.interim \o FinalWire(plan) \o (IF plan.extra THEN <<"extra">> ELSE <<>>)

H1Plans ==
    {p \in [request : {"get", "buffer", "source"}, expect : BOOLEAN, streaming : BOOLEAN,
            reused : BOOLEAN, interim : H1Interim, framing : H1Framings, coding : H1Codings,
            early : BOOLEAN, extra : BOOLEAN] :
        /\ p.expect => p.request # "get" /\ ~p.streaming /\ ~p.reused
        /\ p.request # "get" => ~p.reused /\ ~p.streaming
        /\ p.framing = "none" => p.coding = "identity"
        /\ p.framing = "close" => ~p.extra
        /\ p.coding = "transfer" => p.framing = "chunked"
        /\ p.early => p.expect
        /\ ~p.expect => "100" \notin ToSet(p.interim)}

(* How many marks may be read now: the final response waits for the request   *)
(* body unless the server answers early.                                       *)
Deliverable ==
    IF h1Sent = H1UploadLength \/ h1Plan.request = "get" \/ h1Plan.early
    THEN Len(h1Wire)
    ELSE Max({0, Len(h1Wire) - Len(FinalWire(h1Plan)) - (IF h1Plan.extra THEN 1 ELSE 0)})

----------------------------------------
(* The parser                                                              *)

Interim(mark) == mark \in {"100", "103"}
HeadComplete(buffer) == Len(buffer) >= 2
Body(buffer) == SubSeq(buffer, 3, Len(buffer))

(* DecodeChunkedBodyWithTrailers: the bytes, and how much was consumed;      *)
(* 0 when the terminal chunk's last line is not there yet.                    *)
Dechunked(marks) == SelectSeq(marks, LAMBDA mark : mark \notin {"size", "crlf", "last", "end", "extra"})
DecodeChunkedBodyWithTrailers(marks) ==
    LET ends == {i \in DOMAIN marks : marks[i] = "end"}
    IN  IF ends = {} THEN [consumed |-> 0, body |-> <<>>]
        ELSE [consumed |-> Min(ends), body |-> Dechunked(SubSeq(marks, 1, Min(ends)))]

More == [status |-> "MORE_PROCESSING_REQUIRED", consumed |-> 0, body |-> <<>>, interim |-> "none"]
Parsed(consumed, body) ==
    [status |-> IF Len(body) > h1Capacity /\ (h1Plan.framing = "chunked" \/ h1Plan.coding # "identity")
                THEN "BUFFER_TOO_SMALL" ELSE "SUCCESS",
     consumed |-> consumed, body |-> DecodeContentCodings(DecodeTransferCodings(body)), interim |-> "none"]

(* HttpParser::ParseResponse over the whole buffer. *)
ParseResponse(buffer, closed) ==
    IF ~HeadComplete(buffer) THEN More
    ELSE IF Interim(buffer[2]) THEN [More EXCEPT !.status = "SUCCESS", !.consumed = 2, !.interim = buffer[2]]
    ELSE CASE h1Plan.framing = "none" -> Parsed(2, <<>>)
           [] h1Plan.framing = "length" ->
                IF Len(Body(buffer)) < H1BodyLength THEN More
                ELSE Parsed(2 + H1BodyLength, SubSeq(Body(buffer), 1, H1BodyLength))
           [] h1Plan.framing = "chunked" ->
                LET decoded == DecodeChunkedBodyWithTrailers(Body(buffer))
                IN  IF decoded.consumed = 0 THEN More ELSE Parsed(2 + decoded.consumed, decoded.body)
           [] h1Plan.framing = "close" ->
                IF closed THEN Parsed(Len(buffer), Body(buffer)) ELSE More

(* IsHttpConnectionReusable: what was consumed is all that was received. *)
IsHttpConnectionReusable(consumed, received) == h1Plan.framing # "close" /\ consumed = received

----------------------------------------
(* Ends                                                                    *)

H1Fails(status) ==
    /\ h1At' = "failed" /\ h1Status' = status
    /\ UNCHANGED <<h1Body, h1Reusable>>

H1Succeeds(body, reusable) ==
    /\ h1At' = "done" /\ h1Status' = "SUCCESS" /\ h1Body' = body /\ h1Reusable' = reusable

(* ShouldRetryWithFreshConnection, in HttpSend: a safe method on a reused     *)
(* connection starts again with an empty workspace.                           *)
RetryOnFreshConnection ==
    /\ h1At = "failed" /\ h1Attempt = 1 /\ h1Plan.reused
    /\ h1Status \in {"CONNECTION_DISCONNECTED", "CONNECTION_RESET", "IO_TIMEOUT"}
    /\ h1Attempt' = 2 /\ h1At' = "head" /\ h1Sent' = -1
    /\ h1Wire' = H1ServerWire(h1Plan) /\ h1Peer' = "open" /\ h1Buffer' = <<>> /\ h1Dropped' = <<>>
    /\ UNCHANGED <<h1Plan, h1Decoder, h1Capacity, h1Seen, h1Answer>>

----------------------------------------
(* Sending                                                                 *)

(* BuildRequestBytes and the head's segment.  A dead reused connection shows  *)
(* here or at the first read.                                                 *)
SendHttp1RequestBuffer ==
    /\ h1At = "head"
    /\ IF h1Peer = "reset"
       THEN H1Fails("CONNECTION_RESET") /\ UNCHANGED h1Sent
       ELSE /\ h1Sent' = 0
            /\ h1At' = CASE h1Plan.expect -> "await"
                         [] h1Plan.request = "get" -> "read"
                         [] OTHER -> "upload"
            /\ UNCHANGED h1Answer
    /\ UNCHANGED <<h1Plan, h1Wire, h1Peer, h1Buffer, h1Decoder, h1Capacity, h1Seen, h1Dropped, h1Attempt>>

(* Mutant: a source that returns more than was declared is sent anyway. *)
SendSourceUnchecked ==
    /\ h1At = "upload" /\ h1Plan.request = "source"
    /\ \E bytes \in 0..H1UploadLength, end \in BOOLEAN :
          \/ /\ bytes > 0
             /\ h1Sent' = h1Sent + bytes
             /\ h1At' = IF h1Sent + bytes >= H1UploadLength THEN "read" ELSE "upload"
             /\ ~end /\ UNCHANGED h1Answer
    /\ UNCHANGED <<h1Plan, h1Wire, h1Peer, h1Buffer, h1Decoder, h1Capacity, h1Seen, h1Dropped, h1Attempt>>

(* ReadRequestBodySource and SendHttp1RequestBodySource with a declared       *)
(* length: the source's pieces have to add up to it.                          *)
SendHttp1RequestBodySource ==
    /\ h1At = "upload" /\ h1Plan.request = "source"
    /\ \E bytes \in 0..H1UploadLength, end \in BOOLEAN :
          IF (bytes = 0 /\ ~end) \/ bytes > H1UploadLength - h1Sent
          THEN H1Fails("INVALID_PARAMETER") /\ UNCHANGED h1Sent
          ELSE IF h1Peer = "reset" THEN H1Fails("CONNECTION_RESET") /\ UNCHANGED h1Sent
          ELSE /\ h1Sent' = h1Sent + bytes
               /\ CASE h1Sent + bytes = H1UploadLength -> h1At' = "read" /\ UNCHANGED h1Answer
                    [] end /\ h1Sent + bytes < H1UploadLength -> H1Fails("INVALID_PARAMETER")
                    [] OTHER -> h1At' = "upload" /\ UNCHANGED h1Answer
    /\ UNCHANGED <<h1Plan, h1Wire, h1Peer, h1Buffer, h1Decoder, h1Capacity, h1Seen, h1Dropped, h1Attempt>>

(* The buffered body's segment. *)
SendTransportSegment ==
    /\ h1At = "upload" /\ h1Plan.request = "buffer"
    /\ IF h1Peer = "reset" THEN H1Fails("CONNECTION_RESET") /\ UNCHANGED h1Sent
       ELSE h1Sent' = H1UploadLength /\ h1At' = "read" /\ UNCHANGED h1Answer
    /\ UNCHANGED <<h1Plan, h1Wire, h1Peer, h1Buffer, h1Decoder, h1Capacity, h1Seen, h1Dropped, h1Attempt>>

----------------------------------------
(* Receiving                                                               *)

H1Reading == h1At \in {"await", "read", "body"}
(* The reader asks for more only when its buffer does not parse. *)
Wants ==
    CASE h1At = "await" \/ (h1At = "read" /\ ~h1Plan.streaming) ->
             ParseResponse(h1Buffer, FALSE).status = "MORE_PROCESSING_REQUIRED"
      [] h1At = "read" -> ~HeadComplete(h1Buffer)
      [] h1At = "body" -> h1Buffer = <<>>

TransportReceiveWithTimeout ==
    /\ H1Reading /\ Wants
    /\ \E n \in 1..Deliverable :
          /\ h1Buffer' = h1Buffer \o SubSeq(h1Wire, 1, n)
          /\ h1Wire' = SubSeq(h1Wire, n + 1, Len(h1Wire))
    /\ UNCHANGED <<h1Plan, h1Peer, h1At, h1Sent, h1Decoder, h1Capacity, h1Seen, h1Answer, h1Dropped, h1Attempt>>

(* The connection ends: in order after everything was delivered or in the     *)
(* middle, or by a reset; what was not delivered is lost.                      *)
H1PeerEnds ==
    /\ h1Peer = "open" /\ h1At \notin {"done", "failed"}
    /\ h1Peer' \in {"closed", "reset"}
    /\ h1Wire' = <<>>
    /\ UNCHANGED <<h1Plan, h1Buffer, h1At, h1Sent, h1Decoder, h1Capacity, h1Seen, h1Answer, h1Dropped, h1Attempt>>

(* DiscardNonFinalInformationalResponse *)
DiscardNonFinalInformationalResponse == h1Buffer' = SubSeq(h1Buffer, 3, Len(h1Buffer))

(* The wait for 100 (Continue): other interim answers are skipped, a final    *)
(* answer ends the exchange without the body, a time-out sends the body.      *)
ExpectIsAnswered ==
    LET parsed == ParseResponse(h1Buffer, FALSE)
    IN  /\ h1At = "await" /\ parsed.status = "SUCCESS"
        /\ IF parsed.interim # "none"
           THEN /\ DiscardNonFinalInformationalResponse
                /\ h1At' = IF parsed.interim = "100" THEN "upload" ELSE "await"
                /\ UNCHANGED h1Answer
           ELSE /\ UNCHANGED h1Buffer
                /\ H1Succeeds(parsed.body, IsHttpConnectionReusable(parsed.consumed, Len(h1Buffer)))
        /\ UNCHANGED <<h1Plan, h1Wire, h1Peer, h1Sent, h1Decoder, h1Capacity, h1Seen, h1Dropped, h1Attempt>>

ExpectTimesOut ==
    /\ h1At = "await" /\ ParseResponse(h1Buffer, FALSE).status = "MORE_PROCESSING_REQUIRED"
    /\ h1Peer = "open"
    /\ h1At' = "upload"
    /\ UNCHANGED <<h1Plan, h1Wire, h1Peer, h1Buffer, h1Sent, h1Decoder, h1Capacity, h1Seen, h1Answer,
                   h1Dropped, h1Attempt>>

SendHttp1RequestBufferWithExpect == h1Plan.request = "buffer" /\ (ExpectIsAnswered \/ ExpectTimesOut)
SendHttp1RequestSourceWithExpect == h1Plan.request = "source" /\ (ExpectIsAnswered \/ ExpectTimesOut)

(* GrowDecodedBodyAfterBufferTooSmall: doubled up to the limit. *)
GrowDecodedBodyAfterBufferTooSmall ==
    /\ h1At \in {"await", "read"} /\ ~h1Plan.streaming
    /\ ParseResponse(h1Buffer, h1Peer = "closed").status = "BUFFER_TOO_SMALL"
    /\ IF h1Capacity >= H1MaxResponse THEN H1Fails("BUFFER_TOO_SMALL") /\ UNCHANGED h1Capacity
       ELSE h1Capacity' = Min({2 * h1Capacity, H1MaxResponse}) /\ UNCHANGED <<h1At, h1Answer>>
    /\ UNCHANGED <<h1Plan, h1Wire, h1Peer, h1Buffer, h1Sent, h1Decoder, h1Seen, h1Dropped, h1Attempt>>

(* ReadHttpResponseFromSocketEx: the buffer holds a whole response. *)
ReadHttpResponseFromSocketEx ==
    LET parsed == ParseResponse(h1Buffer, FALSE)
    IN  /\ h1At = "read" /\ ~h1Plan.streaming /\ parsed.status = "SUCCESS"
        /\ IF parsed.interim # "none"
           THEN DiscardNonFinalInformationalResponse /\ UNCHANGED <<h1At, h1Answer>>
           ELSE /\ UNCHANGED h1Buffer
                /\ H1Succeeds(parsed.body, IsHttpConnectionReusable(parsed.consumed, Len(h1Buffer)))
        /\ UNCHANGED <<h1Plan, h1Wire, h1Peer, h1Sent, h1Decoder, h1Capacity, h1Seen, h1Dropped, h1Attempt>>

(* ... it does not, and the receive ends: an orderly close completes what     *)
(* only a close delimits; a reset and a time-out fail.                        *)
BufferedReceiveEnds ==
    LET parsed == ParseResponse(h1Buffer, TRUE)
    IN  /\ (h1At = "read" /\ ~h1Plan.streaming) \/ (h1At = "await" /\ h1Peer # "open")
        /\ Wants
        /\ \/ /\ h1Peer = "closed" /\ h1Buffer = <<>> /\ H1Fails("CONNECTION_DISCONNECTED")
           \/ /\ h1Peer = "closed" /\ h1Buffer # <<>> /\ parsed.status = "SUCCESS"
              /\ H1Succeeds(parsed.body, IsHttpConnectionReusable(parsed.consumed, Len(h1Buffer)))
           \/ /\ h1Peer = "closed" /\ h1Buffer # <<>> /\ parsed.status = "MORE_PROCESSING_REQUIRED"
              /\ H1Fails("MORE_PROCESSING_REQUIRED")
           \/ h1Peer = "reset" /\ H1Fails("CONNECTION_RESET")
           \/ h1Peer = "open" /\ h1At = "read" /\ H1Fails("IO_TIMEOUT")
        /\ UNCHANGED <<h1Plan, h1Wire, h1Peer, h1Buffer, h1Sent, h1Decoder, h1Capacity, h1Seen, h1Dropped,
                       h1Attempt>>

----------------------------------------
(* The streaming reader                                                    *)

NoProgress == [state |-> "SizeLine", remaining |-> 0, aggregate |-> <<>>]

(* ReadHttpResponseFromSocketStreaming up to the head and its callbacks. *)
StreamingHead ==
    /\ h1At = "read" /\ h1Plan.streaming /\ HeadComplete(h1Buffer)
    /\ h1Buffer' = SubSeq(h1Buffer, 3, Len(h1Buffer))
    /\ IF Interim(h1Buffer[2]) THEN UNCHANGED <<h1At, h1Decoder>>
       ELSE /\ h1At' = "body"
            /\ h1Decoder' = [NoProgress EXCEPT !.remaining = H1BodyLength]
    /\ UNCHANGED <<h1Plan, h1Wire, h1Peer, h1Sent, h1Capacity, h1Seen, h1Answer, h1Dropped, h1Attempt>>

StreamingHeadBreaks ==
    /\ h1At = "read" /\ h1Plan.streaming /\ Wants
    /\ H1Fails(CASE h1Peer = "reset" -> "CONNECTION_RESET"
                 [] h1Peer = "closed" -> "CONNECTION_DISCONNECTED"
                 [] OTHER -> "IO_TIMEOUT")
    /\ UNCHANGED <<h1Plan, h1Wire, h1Peer, h1Buffer, h1Sent, h1Decoder, h1Capacity, h1Seen, h1Dropped, h1Attempt>>

(* Does the content coding make the reader collect the body first? *)
Collects == h1Plan.coding = "content"

(* A size line ends: a chunk, or the last one. *)
FinishSizeLine(decoder, mark) ==
    [decoder EXCEPT !.state = CASE mark = "size" -> "ChunkData" [] mark = "last" -> "TrailerLine" [] OTHER -> "Failed"]

(* A trailer line ends: the empty one completes the message. *)
FinishTrailerLine(decoder, mark) ==
    [decoder EXCEPT !.state = IF mark = "end" THEN "Complete" ELSE "Failed"]

(* HttpChunkedDecoder::Feed, one mark at a time. *)
ChunkedFeed(decoder, mark) ==
    CASE decoder.state = "SizeLine" -> FinishSizeLine(decoder, mark)
      [] decoder.state = "ChunkData" -> [decoder EXCEPT !.state = "ChunkDataCr", !.aggregate = Append(@, mark)]
      [] decoder.state = "ChunkDataCr" -> [decoder EXCEPT !.state = IF mark = "crlf" THEN "SizeLine" ELSE "Failed"]
      [] decoder.state = "TrailerLine" -> FinishTrailerLine(decoder, mark)
      [] OTHER -> decoder

BodyFeed(decoder, mark) ==
    IF h1Plan.framing = "chunked" THEN ChunkedFeed(decoder, mark)
    ELSE [decoder EXCEPT !.remaining = @ - 1, !.aggregate = Append(@, mark)]

(* Mutant: the length-delimited loop stops one byte early. *)
BodyEndedEarly(decoder) ==
    \/ h1Plan.framing = "none"
    \/ h1Plan.framing = "length" /\ decoder.remaining <= 1
    \/ h1Plan.framing = "chunked" /\ decoder.state \in {"TrailerLine", "Complete"}

BodyEnded(decoder) ==
    \/ h1Plan.framing = "none"
    \/ h1Plan.framing = "length" /\ decoder.remaining = 0
    \/ h1Plan.framing = "chunked" /\ decoder.state = "Complete"

(* StreamBodyOnData: the window's next mark goes to the framing; body bytes   *)
(* go to the callback, or to the aggregate alone when they are still coded.   *)
StreamBodyOnData ==
    LET next == BodyFeed(h1Decoder, h1Buffer[1])
    IN  /\ h1At = "body" /\ ~BodyEnded(h1Decoder) /\ h1Buffer # <<>>
        /\ h1Buffer' = Tail(h1Buffer)
        /\ h1Decoder' = next
        /\ h1Seen' = IF Len(next.aggregate) > Len(h1Decoder.aggregate) /\ ~Collects
                     THEN Append(h1Seen, h1Buffer[1]) ELSE h1Seen
        /\ IF next.state = "Failed" THEN H1Fails("INVALID_NETWORK_RESPONSE")
           ELSE IF Collects /\ Len(next.aggregate) > H1MaxResponse THEN H1Fails("BUFFER_TOO_SMALL")
           ELSE UNCHANGED <<h1At, h1Answer>>
        /\ UNCHANGED <<h1Plan, h1Wire, h1Peer, h1Sent, h1Capacity, h1Dropped, h1Attempt>>

(* FinalizeStreamingBody: a coded body is decoded and given to the callback   *)
(* as one piece; *rawResponseLength counts the head, and a declared length.   *)
FinalizeStreamingBody(endsOnClose) ==
    LET body == DecodeContentCodings(h1Decoder.aggregate)
        consumed == 2
        received == IF h1Plan.framing = "length" THEN 2 + H1BodyLength ELSE 2
    IN  /\ IF body = <<"garbage">> THEN H1Fails("INVALID_NETWORK_RESPONSE") /\ UNCHANGED h1Seen
           ELSE /\ H1Succeeds(body, ~endsOnClose /\ IsHttpConnectionReusable(consumed, received))
                /\ h1Seen' = IF Collects THEN h1Seen \o body ELSE h1Seen
        /\ h1Dropped' = h1Buffer /\ h1Buffer' = <<>>
        /\ UNCHANGED <<h1Plan, h1Wire, h1Peer, h1Sent, h1Decoder, h1Capacity, h1Attempt>>

StreamingBodyEnds ==
    /\ h1At = "body" /\ BodyEnded(h1Decoder)
    /\ FinalizeStreamingBody(FALSE)

(* The window is empty and nothing more comes: the connection ended or the    *)
(* idle time-out passed.  Any of them ends a close-delimited body.            *)
StreamingReceiveEnds ==
    /\ h1At = "body" /\ ~BodyEnded(h1Decoder) /\ h1Buffer = <<>>
    /\ IF h1Plan.framing = "close" THEN FinalizeStreamingBody(TRUE)
       ELSE /\ H1Fails("CONNECTION_DISCONNECTED")
            /\ UNCHANGED <<h1Plan, h1Wire, h1Peer, h1Buffer, h1Sent, h1Decoder, h1Capacity, h1Seen, h1Dropped,
                           h1Attempt>>

----------------------------------------
H1Init ==
    /\ h1Plan \in H1Plans
    /\ h1Wire = H1ServerWire(h1Plan) /\ h1Peer = "open" /\ h1Buffer = <<>>
    /\ h1At = "head" /\ h1Sent = -1 /\ h1Decoder = NoProgress /\ h1Capacity = H1InitialBuffer
    /\ h1Seen = <<>> /\ h1Body = <<>> /\ h1Status = "none" /\ h1Reusable = FALSE
    /\ h1Dropped = <<>> /\ h1Attempt = 1

H1Next ==
    \/ SendHttp1RequestBuffer \/ SendHttp1RequestBodySource \/ SendTransportSegment
    \/ TransportReceiveWithTimeout \/ H1PeerEnds \/ RetryOnFreshConnection
    \/ SendHttp1RequestBufferWithExpect \/ SendHttp1RequestSourceWithExpect
    \/ GrowDecodedBodyAfterBufferTooSmall
    \/ ReadHttpResponseFromSocketEx \/ BufferedReceiveEnds
    \/ StreamingHead \/ StreamingHeadBreaks \/ StreamBodyOnData \/ StreamingBodyEnds \/ StreamingReceiveEnds

H1Spec == H1Init /\ [][H1Next]_h1Vars

----------------------------------------
(* A response that is reported complete has the server's whole body, decoded, *)
(* whatever the pieces it came in and wherever the connection ended; both     *)
(* readers are held to it (a body that the connection delimits excepted).     *)
ResponseIsWhole ==
    h1Status = "SUCCESS" /\ h1Plan.framing # "close" =>
        h1Body = IF h1Plan.framing = "none" THEN <<>> ELSE H1Data

(* A connection that goes back to the pool is in step: the response was read  *)
(* to its last mark, and a request body that was begun was sent whole.        *)
ReusedConnectionIsInStep ==
    h1Reusable => /\ ToSet(h1Wire) \subseteq {"extra"}
                  /\ h1Sent \in {0, H1UploadLength}

(* docsite/http1.en.md: a close-delimited message completes on connection     *)
(* close, and on nothing else.                                                *)
CloseDelimitedEndsAtClose ==
    h1Status = "SUCCESS" /\ h1Plan.framing = "close" => h1Peer = "closed"

(* The body callback is given each byte of the body once and in order. *)
CallbackSeesBodyOnce == Len(h1Seen) <= H1BodyLength

(* A connection whose announced request body was never sent is not reused. *)
AnnouncedBodyIsSent == h1Reusable /\ h1Plan.request # "get" => h1Sent = H1UploadLength

(* A response is given out whole or not at all, and a connection that is     *)
(* used again has no bytes of an earlier exchange left on it.                *)
ExchangesStayInStep == ResponseIsWhole /\ ReusedConnectionIsInStep
=============================================================================
