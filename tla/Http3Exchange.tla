--------------------------- MODULE Http3Exchange ---------------------------
\* Requests on one pooled HTTP/3 connection: the threads that dispatch
\* them (session/HttpH3Dispatch.cpp), the router between them and the
\* connection (session/HttpH3Peer.cpp) and the HTTP/3 connection that the
\* QUIC worker drives (http3/Http3Connection.cpp, Http3Frame.cpp,
\* Http3Request.cpp).  A worker step is one QUIC event or one application
\* command.  A frame is two tokens, its header with the first bytes and
\* its last byte, so that reads, blocking and the end of the stream may
\* fall inside a frame.  QUIC streams are reliable and ordered; different
\* streams, the QPACK encoder stream among them, advance independently.
EXTENDS Integers, Sequences, SequencesExt, FiniteSets

CONSTANTS
    H3Requests,       \* dispatch threads, one request each
    H3Chunks,         \* body chunks of each request
    H3Trailers,       \* requests that end with trailers
    H3Polling,        \* requests that carry a cancellation operation
    H3Capacity,       \* response fields and body pieces the caller's buffers take
    H3RouteCapacity,  \* HttpH3RouteCapacity
    H3EarlyAnswers,   \* the server may answer before the request's end
    H3Faults,         \* the server may break the protocol
    H3Deaths,         \* the QUIC connection may die without an HTTP/3 error
    H3MaxFrames,      \* bound: frames of a response
    H3MaxInserts      \* bound: QPACK insertions

ASSUME H3Constants ==
    /\ H3Trailers \subseteq H3Requests /\ H3Polling \subseteq H3Requests
    /\ {H3Chunks, H3Capacity, H3RouteCapacity, H3MaxFrames, H3MaxInserts} \subseteq Nat
    /\ {H3EarlyAnswers, H3Faults, H3Deaths} \subseteq BOOLEAN

VARIABLES
    h3Conn,      \* Http3Connection and the QUIC connection below it
    h3Stream,    \* Http3ConnectionStreamState of each request's stream
    h3Wire,      \* response tokens QUIC holds for the client, "fin" last
    h3Dispatch,  \* HttpH3DispatchContext and where its thread is
    h3Routes,    \* HttpH3PeerRouter::Routes: attached dispatches and their stream ids
    h3Held,      \* dispatches a worker callback still points to after completing them
    h3Server,    \* the server: what it received and what it answered
    h3Control    \* the server's control and encoder streams

h3Vars == <<h3Conn, h3Stream, h3Wire, h3Dispatch, h3Routes, h3Held, h3Server, h3Control>>

H3Unset == 0 - 1                        \* HttpH3UnsetStreamId
H3Unlimited == Cardinality(H3Requests)  \* above every stream id in use

(* Progress of a request, HttpH3RequestState in its order. *)
H3State == <<"NoStream", "StreamCreated", "HeadersQueued", "HeadersCommitted", "RequestPartiallySent",
             "RequestFullySent", "ResponseStarted", "Completed", "Cancelled">>
H3Rank(s) == CHOOSE i \in DOMAIN H3State : H3State[i] = s
IsTerminalState(s) == s \in {"Completed", "Cancelled"}

Http3ResponseStateInitialize ==
    [final |-> FALSE, trailers |-> FALSE, forbidden |-> FALSE, length |-> H3Unset, bytes |-> 0, complete |-> FALSE]

AddStream ==
    [open |-> FALSE, id |-> H3Unset, active |-> "none", blocked |-> <<>>, deferred |-> <<>>, deferredFin |-> FALSE,
     resp |-> Http3ResponseStateInitialize, notified |-> FALSE, reset |-> FALSE,
     pending |-> 0, pendingFin |-> FALSE, finSent |-> FALSE]

HttpH3DispatchInitialize ==
    [at |-> "start", state |-> "NoStream", sid |-> H3Unset, claimed |-> FALSE, terminal |-> "pending",
     got |-> <<>>, missed |-> {}, finalBody |-> FALSE, goaway |-> FALSE, left |-> H3Chunks, result |-> "none"]

H3Init ==
    /\ h3Conn = [up |-> TRUE, failed |-> FALSE, settings |-> FALSE, goaway |-> H3Unlimited, next |-> 0,
                 inserts |-> 0, roles |-> {}, decoderBytes |-> 0]
    /\ h3Stream = [r \in H3Requests |-> AddStream]
    /\ h3Wire = [r \in H3Requests |-> <<>>]
    /\ h3Dispatch = [r \in H3Requests |-> HttpH3DispatchInitialize]
    /\ h3Routes = [r \in H3Requests |-> [attached |-> FALSE, sid |-> H3Unset]]
    /\ h3Held = {}
    /\ h3Server = [r \in H3Requests |-> [sawEnd |-> FALSE, chunks |-> 0, msg |-> <<>>, ended |-> "no",
                                         refused |-> FALSE]]
    /\ h3Control = [queue |-> <<>>, inserts |-> 0, sent |-> H3Unlimited]

(* Dispatch state ********************************************************)

(* A dispatch with the state it may advance to; a refused change leaves it. *)
HttpH3DispatchAdvanceState(d, target) ==
    IF IsTerminalState(d.state) \/ H3Rank(target) < H3Rank(d.state) THEN d ELSE [d EXCEPT !.state = target]

AdvanceRefused(d, target) ==
    \/ IsTerminalState(d.state) /\ target # d.state
    \/ /\ H3Rank(target) < H3Rank(d.state)
       /\ ~(d.state = "ResponseStarted" /\ H3Rank(target) >= H3Rank("HeadersCommitted"))

(* Only the first caller's outcome counts (TryClaimDispatchCompletion); a
   success also needs a final status (FinalizeResponse). *)
FinalizeResponse(d) ==
    IF \E i \in DOMAIN d.got : d.got[i] \in {"final", "nobody"} THEN "ok" ELSE "invalid"

HttpH3DispatchNotifyComplete(d, status) ==
    IF d.claimed THEN d
    ELSE LET end == IF status = "ok" THEN FinalizeResponse(d) ELSE status
         IN  [d EXCEPT !.claimed = TRUE, !.terminal = end,
                       !.state = IF end = "cancelled" THEN "Cancelled" ELSE "Completed"]

(* What the response callbacks add; FALSE when the caller's buffers are full. *)
ResponseFits(d, event) == event = "info" \/ Len(d.got) < H3Capacity

HttpH3DispatchNotifyHeader(d, kind) ==
    CASE kind = "info" -> d
      [] kind \in {"final", "nobody"} -> [HttpH3DispatchAdvanceState(d, "ResponseStarted") EXCEPT !.got = Append(@, kind)]
      [] OTHER -> [d EXCEPT !.got = Append(@, kind)]

HttpH3DispatchNotifyBody(d, final) ==
    IF final THEN [d EXCEPT !.finalBody = TRUE] ELSE [d EXCEPT !.got = Append(@, "data")]

(* GetActiveDispatch: callbacks find a request only by a bound stream id.
   One between OpenRequestOnWorker and BindStream is not found, and the
   callback returns as if it had delivered: "missed" records what of. *)
GetActiveDispatch(r) == h3Routes[r].attached /\ h3Routes[r].sid # H3Unset

Missed(d, event) == IF d.at = "bind" THEN [d EXCEPT !.missed = @ \union {event}] ELSE d

(* The HTTP/3 response on a stream ***************************************)

Http3ValidateFramePlacement(kind) == kind # "settings"

Http3ProcessResponseFields(p, t) ==
    IF p.final THEN [p EXCEPT !.trailers = TRUE]
    ELSE IF t.kind = "info" THEN p
    ELSE [p EXCEPT !.final = TRUE, !.forbidden = t.kind = "nobody", !.length = t.length]

FieldsRefused(p, t) ==
    \/ p.complete
    \/ IF p.final THEN p.trailers \/ t.kind # "trailers" ELSE t.kind = "trailers"

Http3ProcessResponseData(p) == [p EXCEPT !.bytes = @ + 1]

DataRefused(p) ==
    p.complete \/ ~p.final \/ p.trailers \/ p.forbidden \/ (p.length # H3Unset /\ p.bytes + 1 > p.length)

Http3CompleteResponse(p) ==
    ~p.complete /\ p.final /\ (p.length = H3Unset \/ p.forbidden \/ p.bytes = p.length)

(* What processing one more token makes of a stream and its dispatch.  w is
   [s, d, wire, inserts, status, used, refused]; once status is not "ok" the rest is left. *)
BeginFrame(w, t) ==
    IF Http3ValidateFramePlacement(t.kind) THEN [w EXCEPT !.s.active = t.kind, !.used = @ + 1]
    ELSE [w EXCEPT !.status = "fail", !.used = @ + 1]

Delivered(w, r, event, d) ==
    IF ~GetActiveDispatch(r) THEN [w EXCEPT !.d = Missed(@, event)]
    ELSE IF ResponseFits(w.d, event) THEN [w EXCEPT !.d = d]
    ELSE [w EXCEPT !.d = HttpH3DispatchNotifyComplete(@, "full"), !.refused = TRUE, !.status = "refused"]

ProcessDecodedFields(w, r, t) ==
    IF FieldsRefused(w.s.resp, t) THEN [w EXCEPT !.status = "fail"]
    ELSE Delivered([w EXCEPT !.s.resp = Http3ProcessResponseFields(@, t)], r, t.kind,
                   HttpH3DispatchNotifyHeader(w.d, t.kind))

DecodeHeaders(w, r, t) ==
    IF t.need > w.inserts THEN [w EXCEPT !.s.blocked = <<t>>, !.status = "pending"]
    ELSE ProcessDecodedFields(w, r, t)

FinishFrame(w) == [w EXCEPT !.s.active = "none", !.used = @ + 1]

ProcessFramePayload(w, r, t) ==
    CASE t.kind = "unknown" -> FinishFrame(w)
      [] t.kind = "data" ->
            IF DataRefused(w.s.resp) THEN [FinishFrame(w) EXCEPT !.status = "fail"]
            ELSE Delivered([FinishFrame(w) EXCEPT !.s.resp = Http3ProcessResponseData(@)], r, "data",
                           HttpH3DispatchNotifyBody(w.d, FALSE))
      [] OTHER -> DecodeHeaders(FinishFrame(w), r, t)

ProcessFramedBytes(w, r, tokens) ==
    FoldLeft(LAMBDA v, t : IF v.status # "ok" THEN v
                           ELSE IF t.part = "head" THEN BeginFrame(v, t) ELSE ProcessFramePayload(v, r, t),
             w, tokens)

NotifyStreamComplete(w, r, status) ==
    IF w.s.notified THEN w
    ELSE LET d == IF status = "ok" /\ ~w.d.finalBody THEN HttpH3DispatchNotifyBody(w.d, TRUE) ELSE w.d
         IN  [w EXCEPT !.s.notified = TRUE,
                       !.d = IF GetActiveDispatch(r) THEN HttpH3DispatchNotifyComplete(d, status)
                            ELSE Missed(@, "end")]

HandleStreamFin(w, r) ==
    IF w.s.active # "none" THEN [w EXCEPT !.status = "fail"]
    ELSE IF w.s.blocked # <<>> THEN [w EXCEPT !.s.deferredFin = TRUE, !.status = "pending"]
    ELSE IF ~Http3CompleteResponse(w.s.resp) THEN [w EXCEPT !.status = "fail"]
    ELSE NotifyStreamComplete([w EXCEPT !.s.resp.complete = TRUE], r, "ok")

CancelBlockedSection(s) == [s EXCEPT !.blocked = <<>>]

(* Reset or cancelled: the request ends unless it already did. *)
HandleReset(w, r) == NotifyStreamComplete([w EXCEPT !.s = CancelBlockedSection(@)], r, "cancelled")

Work(r) == [s |-> h3Stream[r], d |-> h3Dispatch[r], wire |-> h3Wire[r], inserts |-> h3Conn.inserts,
            status |-> "ok", used |-> 0, refused |-> FALSE]

(* Worker steps **********************************************************)

WorkerRuns == h3Conn.up /\ h3Held = {}
EventsReachHttp3 == WorkerRuns /\ ~h3Conn.failed

(* OnHttp3ConnectionError completes every attached dispatch. *)
OnHttp3ConnectionError(disp) ==
    [q \in H3Requests |->
        IF h3Routes[q].attached THEN HttpH3DispatchNotifyComplete(disp[q], "error") ELSE disp[q]]

CloseConnection(conn) == [conn EXCEPT !.failed = TRUE, !.up = FALSE]

(* What a worker step did to the streams is stored; a failure closes the
   connection, a refusal by the caller's buffers leaves the worker inside
   FailDispatch. *)
Store(W, conn) ==
    LET disp == [r \in H3Requests |-> W[r].d]
        fails == \E r \in H3Requests : W[r].status = "fail"
    IN  /\ h3Stream' = [r \in H3Requests |-> W[r].s]
        /\ h3Wire' = [r \in H3Requests |-> W[r].wire]
        /\ h3Held' = {r \in H3Requests : W[r].refused}
        /\ h3Conn' = IF fails THEN CloseConnection(conn) ELSE conn
        /\ h3Dispatch' = IF fails THEN OnHttp3ConnectionError(disp) ELSE disp
        /\ UNCHANGED <<h3Routes, h3Server, h3Control>>

StoreOne(w, r) == Store([q \in H3Requests |-> IF q = r THEN w ELSE Work(q)], h3Conn)

FinToken == [kind |-> "fin", part |-> "fin", need |-> 0, length |-> H3Unset]

(* Mutant: the end that came behind a blocked section is forgotten. *)
DrainForgetsFin(w, r, n) ==
    LET chunk == SubSeq(w.wire, 1, n)
        fin == n > 0 /\ Last(chunk) = FinToken
        bytes == w.s.deferred \o (IF fin THEN Front(chunk) ELSE chunk)
        v == ProcessFramedBytes([w EXCEPT !.used = 0, !.s.deferred = <<>>, !.wire = SubSeq(@, n + 1, Len(@))], r, bytes)
        rest == SubSeq(bytes, v.used + 1, Len(bytes))
    IN  CASE v.status = "ok" -> IF fin THEN HandleStreamFin(v, r) ELSE v
          [] OTHER -> [v EXCEPT !.s.deferred = rest]

(* A pass of DrainStream's loop over what was deferred and n more tokens of
   QUIC; bytes behind a blocked section are deferred, and so is the end. *)
DrainStream(w, r, n) ==
    LET chunk == SubSeq(w.wire, 1, n)
        fin == n > 0 /\ Last(chunk) = FinToken
        bytes == w.s.deferred \o (IF fin THEN Front(chunk) ELSE chunk)
        v == ProcessFramedBytes([w EXCEPT !.used = 0, !.s.deferred = <<>>, !.wire = SubSeq(@, n + 1, Len(@))], r, bytes)
        rest == SubSeq(bytes, v.used + 1, Len(bytes))
    IN  CASE v.status = "ok" -> IF fin THEN HandleStreamFin(v, r) ELSE v
          [] OTHER -> [v EXCEPT !.s.deferred = rest, !.s.deferredFin = fin]

OnStreamReadable(r) ==
    /\ EventsReachHttp3 /\ h3Stream[r].open /\ h3Wire[r] # <<>> /\ h3Stream[r].blocked = <<>>
    /\ \E n \in 1..Len(h3Wire[r]) : StoreOne(DrainStream(Work(r), r, n), r)

(* RESET_STREAM from the server. *)
OnStreamReset(r) ==
    /\ EventsReachHttp3 /\ h3Server[r].ended = "reset" /\ ~h3Stream[r].reset
    /\ StoreOne([HandleReset(Work(r), r) EXCEPT !.s.reset = TRUE, !.wire = <<>>], r)

(* A stream that can go on: its blocked section, what was deferred behind it,
   the deferred end, and what QUIC holds by now. *)
ResumeBlockedStream(w, r) ==
    LET w0 == ProcessDecodedFields([w EXCEPT !.s.blocked = <<>>], r, Head(w.s.blocked))
        w1 == IF w0.status = "ok" THEN DrainStream(w0, r, 0) ELSE w0
        w2 == IF w1.status = "ok" /\ w1.s.deferredFin
              THEN HandleStreamFin([w1 EXCEPT !.s.deferredFin = FALSE], r) ELSE w1
    IN  IF w2.status = "ok" THEN DrainStream(w2, r, Len(w2.wire)) ELSE w2

ResumeBlockedStreams(W) ==
    [r \in H3Requests |->
        IF W[r].s.blocked # <<>> /\ Head(W[r].s.blocked).need <= W[r].inserts
        THEN ResumeBlockedStream(W[r], r) ELSE W[r]]

(* Encoder-stream bytes: one insertion, then every stream it unblocks resumes. *)
ProcessInstructionBytes ==
    /\ EventsReachHttp3 /\ "encoder" \in h3Conn.roles /\ h3Conn.inserts < h3Control.inserts
    /\ LET n == h3Conn.inserts + 1
       IN  Store(ResumeBlockedStreams([r \in H3Requests |-> [Work(r) EXCEPT !.inserts = n]]),
                 [h3Conn EXCEPT !.inserts = n])

(* The rest of FailDispatch: the completed dispatch's stream id is read and
   its stream reset; what was read stays to be processed. *)
FailDispatch(r) ==
    /\ r \in h3Held /\ h3Held' = h3Held \ {r}
    /\ LET w == HandleReset(Work(r), r)
       IN  /\ h3Stream' = [h3Stream EXCEPT ![r] = [w.s EXCEPT !.reset = TRUE]]
           /\ h3Dispatch' = [h3Dispatch EXCEPT ![r] = w.d]
    /\ UNCHANGED <<h3Conn, h3Wire, h3Routes, h3Server, h3Control>>

(* Streams the server opens: control and QPACK streams once each, no push and
   no bidirectional stream. *)
ProcessUnidirectionalType(role) ==
    /\ EventsReachHttp3
    /\ IF role \in {"control", "encoder", "decoder"} \ h3Conn.roles
       THEN /\ h3Conn' = [h3Conn EXCEPT !.roles = @ \union {role}]
            /\ UNCHANGED h3Dispatch
       ELSE /\ H3Faults
            /\ h3Conn' = CloseConnection(h3Conn)
            /\ h3Dispatch' = OnHttp3ConnectionError(h3Dispatch)
    /\ UNCHANGED <<h3Stream, h3Wire, h3Routes, h3Held, h3Server, h3Control>>

(* GOAWAY (OnHttp3Goaway): a stream at or above the limit is cancelled, which
   completes its request if it is bound, and then completed as retryable. *)
HttpH3DispatchProcessGoaway(d) == [d EXCEPT !.goaway = TRUE]

CancelRequest(r) == [HandleReset(Work(r), r) EXCEPT !.s.reset = TRUE]

OnHttp3Goaway(r, id) ==
    IF ~h3Routes[r].attached THEN Work(r)
    ELSE LET rejected == h3Dispatch[r].sid # H3Unset /\ h3Dispatch[r].sid >= id
             w == IF rejected THEN CancelRequest(r) ELSE Work(r)
             d == HttpH3DispatchProcessGoaway(w.d)
         IN  [w EXCEPT !.d = IF rejected THEN HttpH3DispatchNotifyComplete(d, "retry") ELSE d]

(* Settings come first and once; a GOAWAY only lowers the limit. *)
ControlFrameRefused(frame) ==
    IF frame = "settings" THEN h3Conn.settings ELSE ~h3Conn.settings \/ frame[2] > h3Conn.goaway

HandleSingleValue(id) ==
    /\ h3Conn' = [h3Conn EXCEPT !.goaway = id]
    /\ h3Stream' = [r \in H3Requests |-> OnHttp3Goaway(r, id).s]
    /\ h3Dispatch' = [r \in H3Requests |-> OnHttp3Goaway(r, id).d]

ControlStreamReadable ==
    /\ EventsReachHttp3 /\ "control" \in h3Conn.roles /\ h3Control.queue # <<>>
    /\ LET frame == Head(h3Control.queue)
       IN  IF ControlFrameRefused(frame)
           THEN /\ h3Conn' = CloseConnection(h3Conn)
                /\ h3Dispatch' = OnHttp3ConnectionError(h3Dispatch)
                /\ UNCHANGED h3Stream
           ELSE IF frame = "settings"
           THEN h3Conn' = [h3Conn EXCEPT !.settings = TRUE] /\ UNCHANGED <<h3Stream, h3Dispatch>>
           ELSE HandleSingleValue(frame[2])
    /\ h3Control' = [h3Control EXCEPT !.queue = Tail(@)]
    /\ UNCHANGED <<h3Wire, h3Routes, h3Held, h3Server>>

(* Application commands **************************************************)

ThreadFails(d, status) == [HttpH3DispatchNotifyComplete(d, status) EXCEPT !.at = "release", !.result = status]

SetDispatch(r, d) == h3Dispatch' = [h3Dispatch EXCEPT ![r] = d]

(* OpenRequestOnWorker: the stream, its HEADERS and the dispatch's progress. *)
OpenRequest(r) ==
    /\ h3Dispatch[r].at = "open" /\ WorkerRuns
    /\ LET id == h3Conn.next
       IN  IF h3Conn.failed \/ ~h3Conn.settings \/ id >= h3Conn.goaway
           THEN /\ SetDispatch(r, ThreadFails(h3Dispatch[r], "notready"))
                /\ h3Conn' = [h3Conn EXCEPT !.next = IF h3Conn.failed \/ ~h3Conn.settings THEN @ ELSE @ + 1]
                /\ UNCHANGED h3Stream
           ELSE /\ h3Conn' = [h3Conn EXCEPT !.next = @ + 1]
                /\ h3Stream' = [h3Stream EXCEPT ![r].open = TRUE, ![r].id = id]
                /\ SetDispatch(r, [HttpH3DispatchAdvanceState(h3Dispatch[r], "HeadersCommitted")
                                     EXCEPT !.sid = id, !.at = "bind"])
    /\ UNCHANGED <<h3Wire, h3Routes, h3Held, h3Server, h3Control>>

(* QueueWrite: what flow control refuses is kept and flushed when the stream
   is writable again; nothing is written past kept bytes. *)
QueueWrite(s, n, fin, sent) ==
    IF s.pending # 0 THEN [s EXCEPT !.pending = @ + n, !.pendingFin = fin]
    ELSE IF sent THEN s ELSE [s EXCEPT !.pending = n, !.pendingFin = fin]

ServerReceives(v, n, fin) == [v EXCEPT !.chunks = @ + n, !.sawEnd = @ \/ fin]

(* One command of SubmitRequestBody or SubmitRequestTrailers. *)
WriteRequestData(r, fin, target) ==
    \E sent \in BOOLEAN :
        LET d == h3Dispatch[r]
            s == h3Stream[r]
            n == IF d.left > 0 THEN 1 ELSE 0
            held == s.pending # 0 \/ ~sent
            next == IF ~fin THEN "body" ELSE "wait"
        IN  /\ n = 0 => sent
            /\ IF h3Conn.failed \/ s.reset \/ s.finSent
               THEN SetDispatch(r, ThreadFails(d, "error")) /\ UNCHANGED <<h3Stream, h3Server>>
               ELSE /\ h3Stream' = [h3Stream EXCEPT ![r] = [QueueWrite(s, n, fin, sent) EXCEPT !.finSent = fin]]
                    /\ h3Server' = IF held THEN h3Server ELSE [h3Server EXCEPT ![r] = ServerReceives(@, n, fin)]
                    /\ SetDispatch(r, IF AdvanceRefused(d, target) THEN ThreadFails(d, "error")
                                      ELSE [HttpH3DispatchAdvanceState(d, target) EXCEPT !.at = next, !.left = @ - n])

WriteRequestOnWorker(r) ==
    LET fin == h3Dispatch[r].left <= 1 /\ r \notin H3Trailers
    IN  /\ h3Dispatch[r].at = "body" /\ WorkerRuns
        /\ h3Dispatch[r].left > 0 \/ r \notin H3Trailers
        /\ WriteRequestData(r, fin, IF fin THEN "RequestFullySent" ELSE "RequestPartiallySent")
        /\ UNCHANGED <<h3Conn, h3Wire, h3Routes, h3Held, h3Control>>

WriteTrailersOnWorker(r) ==
    /\ h3Dispatch[r].at = "body" /\ h3Dispatch[r].left = 0 /\ r \in H3Trailers /\ WorkerRuns
    /\ WriteRequestData(r, TRUE, "RequestFullySent")
    /\ UNCHANGED <<h3Conn, h3Wire, h3Routes, h3Held, h3Control>>

(* FlushWrite on a writable stream. *)
OnStreamWritable(r) ==
    /\ EventsReachHttp3 /\ h3Stream[r].pending # 0 /\ ~h3Stream[r].reset
    /\ h3Stream' = [h3Stream EXCEPT ![r].pending = 0, ![r].pendingFin = FALSE]
    /\ h3Server' = [h3Server EXCEPT ![r] = ServerReceives(@, h3Stream[r].pending, h3Stream[r].pendingFin)]
    /\ UNCHANGED <<h3Conn, h3Wire, h3Dispatch, h3Routes, h3Held, h3Control>>

(* Dispatch threads ******************************************************)

ThreadStep(r, d) ==
    /\ SetDispatch(r, d)
    /\ UNCHANGED <<h3Conn, h3Stream, h3Wire, h3Held, h3Server, h3Control>>

(* The peer is usable once the server's settings came (WaitForPeerSettings). *)
CreateProductionPeer(r) ==
    /\ h3Dispatch[r].at = "start" /\ (h3Conn.settings \/ ~h3Conn.up)
    /\ ThreadStep(r, IF h3Conn.up THEN [h3Dispatch[r] EXCEPT !.at = "attach"]
                     ELSE ThreadFails(h3Dispatch[r], "error"))
    /\ UNCHANGED h3Routes

AttachRequest(r) ==
    /\ h3Dispatch[r].at = "attach"
    /\ LET room == Cardinality({q \in H3Requests : h3Routes[q].attached}) < H3RouteCapacity
       IN  /\ h3Routes' = IF room THEN [h3Routes EXCEPT ![r].attached = TRUE] ELSE h3Routes
           /\ ThreadStep(r, IF room THEN [h3Dispatch[r] EXCEPT !.at = "open"] ELSE ThreadFails(h3Dispatch[r], "error"))

BindStream(r) ==
    /\ h3Dispatch[r].at = "bind"
    /\ h3Routes' = [h3Routes EXCEPT ![r].sid = h3Dispatch[r].sid]
    /\ ThreadStep(r, [h3Dispatch[r] EXCEPT !.at = "body"])

(* ExecuteApplication on a connection whose worker is gone. *)
ExecuteApplicationFails(r) ==
    /\ h3Dispatch[r].at \in {"open", "body"} /\ ~h3Conn.up
    /\ ThreadStep(r, ThreadFails(h3Dispatch[r], "error")) /\ UNCHANGED h3Routes

(* HttpH3DispatchWait: the fence, or the first 25 ms of a polling wait, whose
   STATUS_TIMEOUT passes NT_SUCCESS. *)
HttpH3DispatchWait(r) ==
    /\ h3Dispatch[r].at = "wait" /\ (h3Dispatch[r].claimed \/ r \in H3Polling)
    /\ ThreadStep(r, [h3Dispatch[r] EXCEPT !.at = "release", !.result = h3Dispatch[r].terminal])
    /\ UNCHANGED h3Routes

(* ReleasePeer and HttpH3DispatchRelease; the caller then frees the dispatch. *)
HttpH3DispatchRelease(r) ==
    /\ h3Dispatch[r].at = "release"
    /\ h3Routes' = [h3Routes EXCEPT ![r] = [attached |-> FALSE, sid |-> H3Unset]]
    /\ ThreadStep(r, [h3Dispatch[r] EXCEPT !.at = "freed"])

(* The server and the network ********************************************)

H3Frame(kind, need, length) ==
    LET t == [kind |-> kind, part |-> "tail", need |-> need, length |-> length]
    IN  <<[t EXCEPT !.part = "head"], t>>

HeaderKinds == {"info", "final", "nobody", "trailers"}

(* The frames a correct server may send next in a message. *)
MayFollow(msg) ==
    LET count(k) == Cardinality({i \in DOMAIN msg : msg[i].kind = k})
        final == \E i \in DOMAIN msg : msg[i].kind = "final"
        nobody == \E i \in DOMAIN msg : msg[i].kind = "nobody"
        length == IF final THEN msg[CHOOSE i \in DOMAIN msg : msg[i].kind = "final"].length ELSE 0
    IN  IF count("trailers") > 0 THEN {"unknown"}
        ELSE IF nobody THEN {"trailers", "unknown"}
        ELSE IF ~final THEN {"info", "final", "nobody", "unknown"}
        ELSE {"trailers", "unknown"} \union (IF length = H3Unset \/ count("data") < length THEN {"data"} ELSE {})

MessageIsWhole(msg) ==
    LET count(k) == Cardinality({i \in DOMAIN msg : msg[i].kind = k})
    IN  \/ count("nobody") = 1
        \/ \E i \in DOMAIN msg : msg[i].kind = "final" /\ msg[i].length \in {H3Unset, count("data")}

ServerServes(r) ==
    /\ h3Stream[r].open /\ h3Stream[r].id < h3Control.sent /\ h3Server[r].ended = "no"
    /\ h3Server[r].sawEnd \/ H3EarlyAnswers

ServerSend(r) ==
    /\ ServerServes(r) /\ Len(h3Server[r].msg) < H3MaxFrames
    /\ \E kind \in MayFollow(h3Server[r].msg) \union (IF H3Faults THEN {"settings", "data"} ELSE {}),
          need \in {0, h3Control.inserts}, length \in {H3Unset, 0, 1} :
           /\ kind \notin HeaderKinds => need = 0
           /\ kind # "final" => length = H3Unset
           /\ h3Wire' = [h3Wire EXCEPT ![r] = @ \o H3Frame(kind, need, length)]
           /\ h3Server' = [h3Server EXCEPT ![r].msg = Append(@, [kind |-> kind, length |-> length])]
    /\ UNCHANGED <<h3Conn, h3Stream, h3Dispatch, h3Routes, h3Held, h3Control>>

ServerEnds(r) ==
    /\ ServerServes(r) /\ (MessageIsWhole(h3Server[r].msg) \/ H3Faults)
    /\ h3Wire' = [h3Wire EXCEPT ![r] = Append(@, FinToken)]
    /\ h3Server' = [h3Server EXCEPT ![r].ended = "fin"]
    /\ UNCHANGED <<h3Conn, h3Stream, h3Dispatch, h3Routes, h3Held, h3Control>>

ServerResets(r) ==
    /\ ServerServes(r)
    /\ h3Server' = [h3Server EXCEPT ![r].ended = "reset"]
    /\ UNCHANGED <<h3Conn, h3Stream, h3Wire, h3Dispatch, h3Routes, h3Held, h3Control>>

ServerInserts ==
    /\ h3Control.inserts < H3MaxInserts
    /\ h3Control' = [h3Control EXCEPT !.inserts = @ + 1]
    /\ UNCHANGED <<h3Conn, h3Stream, h3Wire, h3Dispatch, h3Routes, h3Held, h3Server>>

(* Settings, then at most one GOAWAY that promises not to serve the streams
   from id on; a faulty server repeats its settings. *)
ServerControls ==
    /\ \/ /\ h3Control.sent = H3Unlimited /\ h3Control.queue = <<>> /\ (~h3Conn.settings \/ H3Faults)
          /\ h3Control' = [h3Control EXCEPT !.queue = <<"settings">>]
       \/ \E id \in 0..(H3Unlimited - 1) :
             /\ h3Control.sent = H3Unlimited
             /\ \A r \in H3Requests : h3Server[r].msg # <<>> \/ h3Server[r].ended # "no" => h3Stream[r].id < id
             /\ h3Control.queue # <<>> \/ h3Conn.settings
             /\ h3Control' = [h3Control EXCEPT !.queue = Append(@, <<"goaway", id>>), !.sent = id]
    /\ UNCHANGED <<h3Conn, h3Stream, h3Wire, h3Dispatch, h3Routes, h3Held, h3Server>>

(* The QUIC connection ends by itself: idle time-out, peer's close, path loss.
   Nothing of this reaches the HTTP/3 connection. *)
QuicDies ==
    /\ H3Deaths /\ h3Conn.up
    /\ h3Conn' = [h3Conn EXCEPT !.up = FALSE]
    /\ UNCHANGED <<h3Stream, h3Wire, h3Dispatch, h3Routes, h3Held, h3Server, h3Control>>

H3Next ==
    \/ ControlStreamReadable \/ ProcessInstructionBytes \/ ServerInserts \/ ServerControls \/ QuicDies
    \/ \E role \in {"control", "encoder", "decoder", "push"} : ProcessUnidirectionalType(role)
    \/ \E r \in H3Requests :
          \/ CreateProductionPeer(r) \/ AttachRequest(r) \/ OpenRequest(r) \/ BindStream(r)
          \/ WriteRequestOnWorker(r) \/ WriteTrailersOnWorker(r) \/ ExecuteApplicationFails(r)
          \/ HttpH3DispatchWait(r) \/ HttpH3DispatchRelease(r)
          \/ OnStreamReadable(r) \/ OnStreamReset(r) \/ OnStreamWritable(r)
          \/ FailDispatch(r)
          \/ ServerSend(r) \/ ServerEnds(r) \/ ServerResets(r)

H3Spec == H3Init /\ [][H3Next]_h3Vars

H3Steps == \A r \in H3Requests :
    /\ WF_h3Vars(CreateProductionPeer(r)) /\ WF_h3Vars(AttachRequest(r)) /\ WF_h3Vars(OpenRequest(r))
    /\ WF_h3Vars(BindStream(r)) /\ WF_h3Vars(WriteRequestOnWorker(r)) /\ WF_h3Vars(WriteTrailersOnWorker(r))
    /\ WF_h3Vars(ExecuteApplicationFails(r)) /\ WF_h3Vars(HttpH3DispatchWait(r))

H3LiveSpec == H3Spec /\ H3Steps

(* Properties ************************************************************)

(* What the caller should see of a message: the final fields, the body pieces
   and the trailers. *)
CallerSees(msg) ==
    LET kinds == [i \in DOMAIN msg |-> msg[i].kind]
    IN  SelectSeq(kinds, LAMBDA k : k \notin {"info", "unknown"})

(* However reads, blocked field sections and resumptions interleave, a caller
   is given pieces of the server's message in order, each once, from the first
   on unless callbacks found its dispatch unbound; a request that ends in
   success was given all of them; one the server ended, whose bytes were all
   read, is completed unless its end found no dispatch; the server sees the
   end of an upload only with all of it. *)
H3ResponseIntact ==
    \A r \in H3Requests :
        LET d == h3Dispatch[r]
            sees == CallerSees(h3Server[r].msg)
        IN
        /\ \E i \in 1..(Len(sees) + 1) :
              /\ IsPrefix(d.got, SubSeq(sees, i, Len(sees)))
              /\ d.missed \subseteq {"info", "end"} => i = 1
        /\ d.terminal = "ok" => h3Server[r].ended = "fin" /\ d.got = sees
        /\ (h3Server[r].ended = "fin" /\ h3Wire[r] = <<>> /\ h3Stream[r].blocked = <<>> /\ GetActiveDispatch(r)
              /\ h3Held = {} /\ h3Conn.up /\ "end" \notin d.missed) => d.claimed
        /\ h3Server[r].sawEnd => h3Server[r].chunks = H3Chunks

(* Every callback finds the dispatch it is for (HttpH3DispatchRequired opens
   the stream before it binds it).  The code does not keep this. *)
CallbacksFindTheirDispatch == \A r \in H3Requests : h3Dispatch[r].missed = {}

(* A request that did not begin to be served and whose stream a GOAWAY
   rejected ends as retryable (OnHttp3Goaway, HttpH3Peer.cpp). *)
RejectedIsRetried ==
    \A r \in H3Requests :
        (h3Dispatch[r].claimed /\ h3Dispatch[r].goaway /\ h3Dispatch[r].sid >= h3Conn.goaway
          /\ ~h3Conn.failed /\ h3Server[r].msg = <<>> /\ h3Server[r].ended = "no")
        => h3Dispatch[r].terminal \in {"retry", "error"}

(* The wait for a response returns when the request is complete. *)
WaitEndsWithCompletion == \A r \in H3Requests : h3Dispatch[r].result # "pending"

(* The worker holds no pointer to a dispatch its caller has freed. *)
DispatchOutlivesCallbacks == \A r \in h3Held : h3Dispatch[r].at # "freed"

(* A request whose response came whole returns it. *)
AnswerIsReturned ==
    \A r \in H3Requests : h3Dispatch[r].at = "freed" /\ h3Dispatch[r].terminal = "ok" => h3Dispatch[r].result = "ok"

(* Every request that waits for a response stops waiting once the connection
   is gone. *)
RequestsEnd == \A r \in H3Requests : (h3Dispatch[r].at = "wait" /\ ~h3Conn.up) ~> (h3Dispatch[r].at # "wait")
=============================================================================
