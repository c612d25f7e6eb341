----------------------- MODULE Http2Connection_proofs -----------------------
\* Both ends of an HTTP/2 connection agree about every window
\* (FlowControlAgrees of Http2Connection), for any requests, windows,
\* stream limits and any frames under way.
\*
\* The ledger of a connection is an operator of its windows, its streams,
\* the peer and the frames under way, so that the same statement serves
\* for the state and for what the handler of a frame returns. A frame
\* leaves the link and enters the windows in one step: the lemmas about
\* the handlers say that the ledger of the result agrees without it.
EXTENDS Http2Connection, FiniteSetTheorems, FunctionTheorems, TLAPS

Frames ==
    [type : {"HEADERS"}, stream : H2Requests, end : BOOLEAN, endHeaders : BOOLEAN,
     kind : {"final", "interim", "bad"}]
    \cup [type : {"CONTINUATION"}, stream : H2Requests, end : BOOLEAN, endHeaders : BOOLEAN,
          kind : {"final"}]
    \cup [type : {"DATA"}, stream : H2Requests, end : BOOLEAN]
    \cup [type : {"RST_STREAM"}, stream : H2Requests, code : {"no_error", "refused", "other"}]
    \cup [type : {"WINDOW_UPDATE"}, stream : H2Requests \cup {NoStream}]
    \cup [type : {"SETTINGS"}, stream : {NoStream}, value : Int]
    \cup [type : {"GOAWAY"}, stream : {NoStream}, clean : BOOLEAN, last : Int]

Windows ==
    [send : Int, recv : Int, consumed : Int, initial : Int, next : Int, goAwaySent : BOOLEAN,
     goAway : {"none", "clean", "error"}, last : Int]

Slots ==
    [inUse : BOOLEAN, found : BOOLEAN, id : Int,
     state : {"Idle", "Open", "HalfClosedLocal", "HalfClosedRemote", "Closed"},
     remote : Int, local : Int, headers : BOOLEAN, data : BOOLEAN, expecting : BOOLEAN,
     pendingEnd : BOOLEAN, closed : BOOLEAN]

Phases == {"none", "open", "block", "block_end", "body", "done", "reset"}

Peers ==
    [conn : Int, str : [H2Requests -> Int], credit : Int, strCredit : [H2Requests -> Int],
     phase : [H2Requests -> Phases], initial : Int, settings : {<<>>, <<0>>}, grants : Int,
     goneAway : BOOLEAN, closed : BOOLEAN]

Outcomes ==
    {"none", "refused", "ok", "invalid", "disconnected", "retry", "too_small", "lost", "closed"}

Callers ==
    [at : {"idle", "unused", "sending", "begun", "reading", "tunnel", "tunnel_reading", "done"},
     left : Int, id : Int, out : Outcomes]

Counted(link, type, r) == Cardinality({i \in DOMAIN link : link[i].type = type /\ link[i].stream = r})

ConnectionAgrees(h, p, link) ==
    h.send >= 0 /\ h.send + Counted(link, "WINDOW_UPDATE", NoStream) = p.conn

StreamAgrees(s, p, link, r) ==
    H2Active(s[r]) =>
        /\ s[r].remote + Counted(link, "WINDOW_UPDATE", r) = p.str[r]
        /\ p.phase[r] # "reset" => s[r].local = p.strCredit[r] + Counted(link, "DATA", r)

\* The peer knows every stream that is active or that it sends frames of.
StreamsKnown(s, p, link) ==
    /\ \A r \in H2Requests : H2Active(s[r]) => p.phase[r] # "none"
    /\ \A i \in DOMAIN link : link[i].stream # NoStream => p.phase[link[i].stream] # "none"

Typed(h, s, p, link) ==
    h \in Windows /\ s \in [H2Requests -> Slots] /\ p \in Peers /\ link \in Seq(Frames)

Ledger(h, s, p, link) ==
    /\ Typed(h, s, p, link) /\ StreamsKnown(s, p, link) /\ h.initial = p.initial
    /\ ~h.goAwaySent => /\ ConnectionAgrees(h, p, link)
                        /\ \A r \in H2Requests : StreamAgrees(s, p, link, r)

\* A request that has not begun has no stream, here or there.
Quiet(s, p, r) == s[r] = FreeStream /\ p.phase[r] = "none"

Waiting == {"idle", "unused"}

CallsOK ==
    /\ h2Call \in [H2Requests -> Callers]
    /\ \A r \in H2Requests : h2Call[r].at \in Waiting => Quiet(h2Slot, h2Peer, r)

Http2Inv == Ledger(h2, h2Slot, h2Peer, h2Link) /\ CallsOK

----------------------------------------
(* Frames under way *)

LEMMA CountedIsNatural ==
    ASSUME NEW link \in Seq(Frames), NEW type, NEW r
    PROVE  Counted(link, type, r) \in Nat
<1>1. PICK P : P = {i \in DOMAIN link : link[i].type = type /\ link[i].stream = r}
  OBVIOUS
<1>2. IsFiniteSet(1..Len(link)) /\ P \subseteq 1..Len(link)
  BY <1>1, FS_Interval
<1> QED  BY <1>1, <1>2, FS_Subset, FS_CardinalityType DEF Counted

\* A frame that is sent counts once.
LEMMA AppendCounts ==
    ASSUME NEW link \in Seq(Frames), NEW f \in Frames, NEW type, NEW r
    PROVE  Counted(Append(link, f), type, r)
              = Counted(link, type, r) + (IF f.type = type /\ f.stream = r THEN 1 ELSE 0)
<1>1. PICK P : P = {i \in DOMAIN link : link[i].type = type /\ link[i].stream = r}
  OBVIOUS
<1>2. PICK Q : Q = {i \in DOMAIN Append(link, f) :
                       Append(link, f)[i].type = type /\ Append(link, f)[i].stream = r}
  OBVIOUS
<1>3. IsFiniteSet(P) /\ Cardinality(P) \in Nat /\ P \subseteq 1..Len(link)
  <2>1. IsFiniteSet(1..Len(link)) /\ P \subseteq 1..Len(link)
    BY <1>1, FS_Interval
  <2> QED  BY <2>1, FS_Subset, FS_CardinalityType
<1>4. /\ DOMAIN Append(link, f) = 1..(Len(link) + 1) /\ Append(link, f)[Len(link) + 1] = f
      /\ \A i \in 1..Len(link) : Append(link, f)[i] = link[i]
  OBVIOUS
<1>5. Q = IF f.type = type /\ f.stream = r THEN P \cup {Len(link) + 1} ELSE P
  BY <1>1, <1>2, <1>4
<1>6. Len(link) + 1 \notin P
  BY <1>3
<1>7. Counted(link, type, r) = Cardinality(P) /\ Counted(Append(link, f), type, r) = Cardinality(Q)
  BY <1>1, <1>2 DEF Counted
<1>8. Cardinality(P \cup {Len(link) + 1}) = Cardinality(P) + 1
  BY <1>3, <1>6, FS_AddElement
<1> QED  BY <1>3, <1>5, <1>7, <1>8

\* A frame that is read counts no longer.
LEMMA TailCounts ==
    ASSUME NEW link \in Seq(Frames), link # <<>>, NEW type, NEW r
    PROVE  Counted(link, type, r)
              = Counted(Tail(link), type, r)
                + (IF Head(link).type = type /\ Head(link).stream = r THEN 1 ELSE 0)
<1>1. PICK P : P = {i \in DOMAIN link : link[i].type = type /\ link[i].stream = r}
  OBVIOUS
<1>2. PICK T : T = {i \in DOMAIN Tail(link) : Tail(link)[i].type = type /\ Tail(link)[i].stream = r}
  OBVIOUS
<1>3. /\ Tail(link) \in Seq(Frames) /\ Len(Tail(link)) = Len(link) - 1 /\ Len(link) \in Nat
      /\ Len(link) >= 1 /\ Head(link) = link[1]
      /\ \A i \in 1..(Len(link) - 1) : Tail(link)[i] = link[i + 1]
  OBVIOUS
<1>4. /\ \A i : i \in T <=> i \in 1..(Len(link) - 1) /\ link[i + 1].type = type /\ link[i + 1].stream = r
      /\ \A i : i \in P <=> i \in 1..Len(link) /\ link[i].type = type /\ link[i].stream = r
  BY <1>1, <1>2, <1>3
<1>5. PICK g : g = [i \in T |-> i + 1]
  OBVIOUS
<1>6. g \in Bijection(T, P \ {1})
  <2>1. g \in [T -> P \ {1}]
    BY <1>3, <1>4, <1>5
  <2>2. \A i, j \in T : g[i] = g[j] => i = j
    BY <1>3, <1>4, <1>5
  <2>3. ASSUME NEW j \in P \ {1} PROVE \E i \in T : g[i] = j
    <3>1. j - 1 \in T /\ g[j - 1] = j
      BY <1>3, <1>4, <1>5
    <3> QED  BY <3>1
  <2> QED  BY <2>1, <2>2, <2>3 DEF Bijection, Injection, IsInjective, Surjection
<1>7. IsFiniteSet(T) /\ IsFiniteSet(P) /\ Cardinality(T) \in Nat /\ Cardinality(P) \in Nat
  <2>1. IsFiniteSet(1..Len(link)) /\ P \subseteq 1..Len(link) /\ T \subseteq 1..Len(link)
    BY <1>3, <1>4, FS_Interval
  <2> QED  BY <2>1, FS_Subset, FS_CardinalityType
<1>8. Cardinality(P \ {1}) = Cardinality(T)
  BY <1>6, <1>7, FS_Bijection DEF ExistsBijection
<1>9. Cardinality(P \ {1}) = IF 1 \in P THEN Cardinality(P) - 1 ELSE Cardinality(P)
  BY <1>7, FS_RemoveElement
<1>10. 1 \in P <=> Head(link).type = type /\ Head(link).stream = r
  BY <1>3, <1>4
<1>11. Counted(link, type, r) = Cardinality(P) /\ Counted(Tail(link), type, r) = Cardinality(T)
  BY <1>1, <1>2 DEF Counted
<1> QED  BY <1>7, <1>8, <1>9, <1>10, <1>11

\* The head of the link and what stays behind it.
LEMMA HeadAndTail ==
    ASSUME Ledger(h2, h2Slot, h2Peer, h2Link), h2Link # <<>>
    PROVE  /\ Head(h2Link) \in Frames /\ Tail(h2Link) \in Seq(Frames)
           /\ Head(h2Link).stream # NoStream => h2Peer.phase[Head(h2Link).stream] # "none"
           /\ \A i \in DOMAIN Tail(h2Link) : Tail(h2Link)[i].stream # NoStream =>
                 h2Peer.phase[Tail(h2Link)[i].stream] # "none"
<1>1. /\ h2Link \in Seq(Frames) /\ \A i \in DOMAIN h2Link :
            h2Link[i].stream # NoStream => h2Peer.phase[h2Link[i].stream] # "none"
  BY DEF Ledger, Typed, StreamsKnown
<1>2. /\ Head(h2Link) = h2Link[1] /\ 1 \in DOMAIN h2Link /\ h2Link[1] \in Frames
      /\ Tail(h2Link) \in Seq(Frames)
      /\ \A i \in DOMAIN Tail(h2Link) : i + 1 \in DOMAIN h2Link /\ Tail(h2Link)[i] = h2Link[i + 1]
  BY <1>1
<1> QED  BY <1>1, <1>2

----------------------------------------
(* Handlers of frames *)

Current == Ledger(h2, h2Slot, h2Peer, h2Link) /\ h2Link # <<>>

\* What the handler of the next frame returns: a ledger that agrees without
\* the frame, and nothing about requests other than the reader that wait.
Treated(d, r) ==
    /\ Ledger(d.h, d.s, d.p, Tail(h2Link)) /\ d.out \in Outcomes
    /\ \A q \in H2Requests \ {r} : Quiet(h2Slot, h2Peer, q) => Quiet(d.s, d.p, q)

LEMMA NextFrame ==
    ASSUME Current, NEW type, NEW q
    PROVE  /\ Counted(Tail(h2Link), type, q) \in Nat
           /\ Counted(h2Link, type, q) = Counted(Tail(h2Link), type, q)
                 + (IF Head(h2Link).type = type /\ Head(h2Link).stream = q THEN 1 ELSE 0)
BY HeadAndTail, CountedIsNatural, TailCounts DEF Current, Ledger, Typed

\* GOAWAY was sent: nothing is claimed any more.
LEMMA GivenUp ==
    ASSUME Current, NEW r, NEW out \in Outcomes
    PROVE  Treated(SendGoAway(out), r)
<1>1. PICK h : h = [h2 EXCEPT !.goAwaySent = TRUE]
  OBVIOUS
<1>2. PICK p : p = [h2Peer EXCEPT !.closed = TRUE]
  OBVIOUS
<1>3. h \in Windows /\ h.goAwaySent = TRUE /\ h.initial = h2.initial
  BY <1>1 DEF Current, Ledger, Typed, Windows
<1>4. p \in Peers /\ p.phase = h2Peer.phase /\ p.initial = h2Peer.initial
  BY <1>2 DEF Current, Ledger, Typed, Peers
<1>5. Ledger(h, h2Slot, p, Tail(h2Link))
  BY <1>3, <1>4, HeadAndTail DEF Current, Ledger, Typed, StreamsKnown
<1>6. SendGoAway(out) = [h |-> h, s |-> h2Slot, p |-> p, out |-> out]
  BY <1>1, <1>2 DEF SendGoAway, H2Result
<1> QED  BY <1>4, <1>5, <1>6 DEF Treated, Quiet

\* One stream changes, its peer's view of it, and what this end has received.
LEMMA StreamMoves ==
    ASSUME Current, NEW q \in H2Requests, h2Peer.phase[q] # "none", Head(h2Link).stream # NoStream,
           Head(h2Link).type # "WINDOW_UPDATE",
           NEW h \in Windows, h.initial = h2.initial, h.send = h2.send, h.goAwaySent = h2.goAwaySent,
           NEW x \in Slots, H2Active(x) => H2Active(h2Slot[q]) /\ x.remote = h2Slot[q].remote,
           NEW p \in Peers, p.conn = h2Peer.conn, p.str = h2Peer.str, p.initial = h2Peer.initial,
           \A o \in H2Requests : o # q => p.strCredit[o] = h2Peer.strCredit[o] /\ p.phase[o] = h2Peer.phase[o],
           p.phase[q] = h2Peer.phase[q] \/ p.phase[q] = "reset",
           Head(h2Link).type = "DATA" =>
                Head(h2Link).stream = q \/ ~H2Active(h2Slot[Head(h2Link).stream]),
           H2Active(x) /\ p.phase[q] # "reset" =>
                x.local - p.strCredit[q] = h2Slot[q].local - h2Peer.strCredit[q]
                    - (IF Head(h2Link).type = "DATA" /\ Head(h2Link).stream = q THEN 1 ELSE 0),
           NEW r, NEW out \in Outcomes
    PROVE  Treated(H2Result(h, [h2Slot EXCEPT ![q] = x], p, out), r)
<1>1. PICK s : s = [h2Slot EXCEPT ![q] = x]
  OBVIOUS
<1>2. /\ h2Slot \in [H2Requests -> Slots] /\ h2Peer \in Peers /\ h2 \in Windows
      /\ h2Link \in Seq(Frames)
  BY DEF Current, Ledger, Typed
<1>3. s \in [H2Requests -> Slots] /\ s[q] = x /\ \A o \in H2Requests : o # q => s[o] = h2Slot[o]
  BY <1>1, <1>2
<1>4. StreamsKnown(s, p, Tail(h2Link))
  <2>1. \A o \in H2Requests : p.phase[o] = h2Peer.phase[o] \/ (o = q /\ p.phase[o] = "reset")
    OBVIOUS
  <2>2. \A i \in DOMAIN Tail(h2Link) : Tail(h2Link)[i].stream # NoStream =>
           Tail(h2Link)[i].stream \in H2Requests /\ h2Peer.phase[Tail(h2Link)[i].stream] # "none"
    <3>1. \A i \in DOMAIN Tail(h2Link) : Tail(h2Link)[i] \in Frames
      BY HeadAndTail DEF Current
    <3>2. \A f \in Frames : f.stream # NoStream => f.stream \in H2Requests
      BY DEF Frames
    <3> QED  BY <3>1, <3>2, HeadAndTail DEF Current
  <2>3. \A o \in H2Requests : H2Active(s[o]) => h2Peer.phase[o] # "none"
    BY <1>3 DEF Current, Ledger, StreamsKnown
  <2> QED  BY <2>1, <2>2, <2>3 DEF StreamsKnown
<1>5. ASSUME ~h.goAwaySent PROVE ConnectionAgrees(h, p, Tail(h2Link))
  <2>1. ConnectionAgrees(h2, h2Peer, h2Link)
    BY <1>5 DEF Current, Ledger
  <2> QED  BY <2>1, NextFrame DEF ConnectionAgrees
<1>6. ASSUME ~h.goAwaySent, NEW o \in H2Requests PROVE StreamAgrees(s, p, Tail(h2Link), o)
  <2>1. StreamAgrees(h2Slot, h2Peer, h2Link, o)
    BY <1>6 DEF Current, Ledger
  <2>2. Counted(h2Link, "WINDOW_UPDATE", o) = Counted(Tail(h2Link), "WINDOW_UPDATE", o)
    BY NextFrame
  <2>3. /\ Counted(Tail(h2Link), "DATA", o) \in Nat
        /\ Counted(h2Link, "DATA", o) = Counted(Tail(h2Link), "DATA", o)
              + (IF Head(h2Link).type = "DATA" /\ Head(h2Link).stream = o THEN 1 ELSE 0)
    BY NextFrame
  <2>4. CASE o = q
    <3>1. /\ x.local \in Int /\ h2Slot[q].local \in Int /\ p.strCredit[q] \in Int
          /\ h2Peer.strCredit[q] \in Int
      BY <1>2 DEF Slots, Peers
    <3>2. ASSUME H2Active(x) PROVE x.remote + Counted(Tail(h2Link), "WINDOW_UPDATE", q) = p.str[q]
      BY <2>1, <2>2, <2>4, <3>2 DEF StreamAgrees
    <3>3. ASSUME H2Active(x), p.phase[q] # "reset"
          PROVE  x.local = p.strCredit[q] + Counted(Tail(h2Link), "DATA", q)
      <4>1. h2Slot[q].local = h2Peer.strCredit[q] + Counted(h2Link, "DATA", q)
        BY <2>1, <2>4, <3>3 DEF StreamAgrees
      <4> QED  BY <2>3, <2>4, <3>1, <3>3, <4>1
    <3> QED  BY <1>3, <2>4, <3>2, <3>3 DEF StreamAgrees
  <2>5. CASE o # q
    <3>1. H2Active(h2Slot[o]) => ~(Head(h2Link).type = "DATA" /\ Head(h2Link).stream = o)
      BY <2>5
    <3>2. H2Active(h2Slot[o]) => Counted(h2Link, "DATA", o) = Counted(Tail(h2Link), "DATA", o)
      BY <2>3, <3>1
    <3> QED  BY <1>3, <2>1, <2>2, <2>5, <3>2 DEF StreamAgrees
  <2> QED  BY <2>4, <2>5
<1>7. Ledger(h, s, p, Tail(h2Link))
  BY <1>3, <1>4, <1>5, <1>6, HeadAndTail DEF Current, Ledger, Typed
<1>8. \A o \in H2Requests : Quiet(h2Slot, h2Peer, o) => Quiet(s, p, o)
  BY <1>3 DEF Quiet
<1> QED  BY <1>1, <1>7, <1>8 DEF Treated, H2Result

\* A frame of a stream that is not active is dropped.
LEMMA Dropped ==
    ASSUME Current, Head(h2Link).stream # NoStream, ~H2Active(h2Slot[Head(h2Link).stream]), NEW r
    PROVE  Treated(H2Same("ok"), r)
<1>1. ASSUME ~h2.goAwaySent PROVE ConnectionAgrees(h2, h2Peer, Tail(h2Link))
  <2>1. ConnectionAgrees(h2, h2Peer, h2Link)
    BY <1>1 DEF Current, Ledger
  <2> QED  BY <2>1, NextFrame DEF ConnectionAgrees
<1>2. ASSUME ~h2.goAwaySent, NEW o \in H2Requests PROVE StreamAgrees(h2Slot, h2Peer, Tail(h2Link), o)
  <2>1. StreamAgrees(h2Slot, h2Peer, h2Link, o)
    BY <1>2 DEF Current, Ledger
  <2>2. H2Active(h2Slot[o]) => Head(h2Link).stream # o
    OBVIOUS
  <2>3. H2Active(h2Slot[o]) => /\ Counted(h2Link, "DATA", o) = Counted(Tail(h2Link), "DATA", o)
                               /\ Counted(h2Link, "WINDOW_UPDATE", o) = Counted(Tail(h2Link), "WINDOW_UPDATE", o)
    BY <2>2, NextFrame
  <2> QED  BY <2>1, <2>3 DEF StreamAgrees
<1>3. Ledger(h2, h2Slot, h2Peer, Tail(h2Link))
  BY <1>1, <1>2, HeadAndTail DEF Current, Ledger, Typed, StreamsKnown
<1> QED  BY <1>3 DEF Treated, H2Same, H2Result, Outcomes

\* What the frame types of the connection and of a stream are.
LEMMA FrameTypes ==
    ASSUME NEW f \in Frames
    PROVE  /\ f.stream = NoStream => f.type \in {"SETTINGS", "GOAWAY", "WINDOW_UPDATE"}
           /\ f.stream # NoStream => /\ f.stream \in H2Requests
                 /\ f.type \in {"HEADERS", "CONTINUATION", "DATA", "RST_STREAM", "WINDOW_UPDATE"}
           /\ f.type = "SETTINGS" => f.value \in Int /\ f.stream = NoStream
           /\ f.type = "GOAWAY" => f.clean \in BOOLEAN /\ f.last \in Int /\ f.stream = NoStream
           /\ f.type \in {"HEADERS", "CONTINUATION", "DATA"} => f.end \in BOOLEAN
           /\ f.type \in {"HEADERS", "CONTINUATION"} => f.endHeaders \in BOOLEAN
BY Http2Constants DEF Frames, H2Requests

\* SETTINGS moves the window of every stream in use, on both sides.
LEMMA SettingsTreated ==
    ASSUME Current, Head(h2Link).type = "SETTINGS", NEW r
    PROVE  Treated(SettingsFrame(Head(h2Link)), r)
<1>1. PICK v : v = Head(h2Link).value
  OBVIOUS
<1>2. v \in Int /\ Head(h2Link).stream = NoStream
  BY <1>1, HeadAndTail, FrameTypes DEF Current
<1>3. PICK h : h = [h2 EXCEPT !.initial = v]
  OBVIOUS
<1>4. PICK s : s = [q \in H2Requests |->
                       IF h2Slot[q].inUse THEN [h2Slot[q] EXCEPT !.remote = @ + v - h2.initial] ELSE h2Slot[q]]
  OBVIOUS
<1>5. PICK str : str = [q \in H2Requests |-> IF h2Peer.phase[q] = "none" THEN 0
                                             ELSE h2Peer.str[q] + v - h2Peer.initial]
  OBVIOUS
<1>6. PICK p : p = [h2Peer EXCEPT !.initial = v, !.settings = <<>>, !.str = str]
  OBVIOUS
<1>7. /\ h2Slot \in [H2Requests -> Slots] /\ h2Peer \in Peers /\ h2 \in Windows
      /\ h2.initial = h2Peer.initial
  BY DEF Current, Ledger, Typed
<1>8. /\ h \in Windows /\ h.initial = v /\ h.send = h2.send /\ h.goAwaySent = h2.goAwaySent
  BY <1>2, <1>3, <1>7 DEF Windows
<1>9. str \in [H2Requests -> Int]
  BY <1>2, <1>5, <1>7 DEF Peers
<1>10. /\ p \in Peers /\ p.initial = v /\ p.str = str /\ p.conn = h2Peer.conn
       /\ p.strCredit = h2Peer.strCredit /\ p.phase = h2Peer.phase
  BY <1>2, <1>6, <1>7, <1>9 DEF Peers
<1>11. ASSUME NEW q \in H2Requests
       PROVE  /\ s[q] \in Slots /\ H2Active(s[q]) = H2Active(h2Slot[q]) /\ s[q].local = h2Slot[q].local
              /\ H2Active(h2Slot[q]) => s[q].remote = h2Slot[q].remote + v - h2.initial
              /\ ~h2Slot[q].inUse => s[q] = h2Slot[q]
  <2>1. PICK x : x = [h2Slot[q] EXCEPT !.remote = @ + v - h2.initial]
    OBVIOUS
  <2>2. h2Slot[q] \in Slots /\ h2.initial \in Int
    BY <1>7 DEF Windows
  <2>3. /\ x \in Slots /\ x.inUse = h2Slot[q].inUse /\ x.found = h2Slot[q].found
        /\ x.local = h2Slot[q].local /\ x.remote = h2Slot[q].remote + v - h2.initial
    BY <1>2, <2>1, <2>2 DEF Slots
  <2>4. s[q] = IF h2Slot[q].inUse THEN x ELSE h2Slot[q]
    BY <1>4, <2>1
  <2> QED  BY <2>2, <2>3, <2>4 DEF H2Active
<1>12. s \in [H2Requests -> Slots]
  BY <1>4, <1>11
<1>13. StreamsKnown(s, p, Tail(h2Link))
  BY <1>10, <1>11, HeadAndTail DEF Current, Ledger, StreamsKnown
<1>14. ASSUME ~h.goAwaySent PROVE ConnectionAgrees(h, p, Tail(h2Link))
  <2>1. ConnectionAgrees(h2, h2Peer, h2Link)
    BY <1>8, <1>14 DEF Current, Ledger
  <2> QED  BY <1>8, <1>10, <2>1, NextFrame DEF ConnectionAgrees
<1>15. ASSUME ~h.goAwaySent, NEW q \in H2Requests PROVE StreamAgrees(s, p, Tail(h2Link), q)
  <2>1. StreamAgrees(h2Slot, h2Peer, h2Link, q)
    BY <1>8, <1>15 DEF Current, Ledger
  <2>2. H2Active(h2Slot[q]) => h2Peer.phase[q] # "none"
    BY DEF Current, Ledger, StreamsKnown
  <2>3. /\ Counted(h2Link, "WINDOW_UPDATE", q) = Counted(Tail(h2Link), "WINDOW_UPDATE", q)
        /\ Counted(h2Link, "DATA", q) = Counted(Tail(h2Link), "DATA", q)
        /\ Counted(Tail(h2Link), "WINDOW_UPDATE", q) \in Nat
    BY NextFrame
  <2>4. H2Active(h2Slot[q]) => str[q] = h2Peer.str[q] + v - h2.initial
    BY <1>5, <1>7, <2>2
  <2>5. h2Slot[q].remote \in Int /\ h2Peer.str[q] \in Int /\ h2.initial \in Int
    BY <1>7 DEF Slots, Peers, Windows
  <2>6. ASSUME H2Active(s[q]) PROVE s[q].remote + Counted(Tail(h2Link), "WINDOW_UPDATE", q) = p.str[q]
    BY <1>2, <1>10, <1>11, <2>1, <2>3, <2>4, <2>5, <2>6 DEF StreamAgrees
  <2> QED  BY <1>10, <1>11, <2>1, <2>3, <2>6 DEF StreamAgrees
<1>16. Ledger(h, s, p, Tail(h2Link))
  BY <1>8, <1>10, <1>12, <1>13, <1>14, <1>15, HeadAndTail DEF Current, Ledger, Typed
<1>17. \A q \in H2Requests : Quiet(h2Slot, h2Peer, q) => Quiet(s, p, q)
  BY <1>10, <1>11 DEF Quiet, FreeStream
<1>18. SettingsFrame(Head(h2Link)) = [h |-> h, s |-> s, p |-> p, out |-> "ok"]
  BY <1>1, <1>3, <1>4, <1>5, <1>6 DEF SettingsFrame, H2Result
<1> QED  BY <1>16, <1>17, <1>18 DEF Treated, Outcomes

LEMMA GoAwayTreated ==
    ASSUME Current, Head(h2Link).type = "GOAWAY", NEW r
    PROVE  Treated(GoAwayFrame(Head(h2Link), r), r)
<1>1. PICK f : f = Head(h2Link)
  OBVIOUS
<1>2. f.stream = NoStream /\ f.clean \in BOOLEAN /\ f.last \in Int
  BY <1>1, HeadAndTail, FrameTypes DEF Current
<1>3. PICK h : h = [h2 EXCEPT !.goAway = IF f.clean THEN "clean" ELSE "error", !.last = f.last]
  OBVIOUS
<1>4. h2 \in Windows
  BY DEF Current, Ledger, Typed
<1>5. h \in Windows /\ h.send = h2.send /\ h.initial = h2.initial /\ h.goAwaySent = h2.goAwaySent
  BY <1>2, <1>3, <1>4 DEF Windows
<1>6. ASSUME ~h.goAwaySent
      PROVE  /\ ConnectionAgrees(h, h2Peer, Tail(h2Link))
             /\ \A q \in H2Requests : StreamAgrees(h2Slot, h2Peer, Tail(h2Link), q)
  <2>1. ConnectionAgrees(h2, h2Peer, h2Link) /\ \A q \in H2Requests : StreamAgrees(h2Slot, h2Peer, h2Link, q)
    BY <1>5, <1>6 DEF Current, Ledger
  <2>2. \A q : /\ Counted(h2Link, "WINDOW_UPDATE", q) = Counted(Tail(h2Link), "WINDOW_UPDATE", q)
               /\ Counted(h2Link, "DATA", q) = Counted(Tail(h2Link), "DATA", q)
    BY NextFrame
  <2> QED  BY <1>5, <2>1, <2>2 DEF ConnectionAgrees, StreamAgrees
<1>7. Ledger(h, h2Slot, h2Peer, Tail(h2Link))
  BY <1>5, <1>6, HeadAndTail DEF Current, Ledger, Typed, StreamsKnown
<1>8. PICK out : out = IF ~f.clean THEN "disconnected"
                       ELSE IF H2Active(h2Slot[r]) /\ h2Slot[r].id > f.last THEN "retry" ELSE "ok"
  OBVIOUS
<1>9. GoAwayFrame(f, r) = [h |-> h, s |-> h2Slot, p |-> h2Peer, out |-> out] /\ out \in Outcomes
  BY <1>3, <1>8 DEF GoAwayFrame, H2Result, Outcomes
<1> QED  BY <1>1, <1>7, <1>9 DEF Treated

\* A window update of the connection.
LEMMA UpdateTreated ==
    ASSUME Current, Head(h2Link).type = "WINDOW_UPDATE", Head(h2Link).stream = NoStream, NEW r
    PROVE  Treated(H2Result([h2 EXCEPT !.send = @ + 1], h2Slot, h2Peer, "ok"), r)
<1>1. PICK h : h = [h2 EXCEPT !.send = @ + 1]
  OBVIOUS
<1>2. h2 \in Windows /\ h2Peer \in Peers
  BY DEF Current, Ledger, Typed
<1>3. h \in Windows /\ h.send = h2.send + 1 /\ h.initial = h2.initial /\ h.goAwaySent = h2.goAwaySent
  BY <1>1, <1>2 DEF Windows
<1>4. ASSUME ~h.goAwaySent PROVE ConnectionAgrees(h, h2Peer, Tail(h2Link))
  <2>1. ConnectionAgrees(h2, h2Peer, h2Link)
    BY <1>3, <1>4 DEF Current, Ledger
  <2>2. h2.send \in Int /\ h2Peer.conn \in Int
    BY <1>2 DEF Windows, Peers
  <2> QED  BY <1>3, <2>1, <2>2, NextFrame DEF ConnectionAgrees
<1>5. ASSUME ~h.goAwaySent, NEW q \in H2Requests PROVE StreamAgrees(h2Slot, h2Peer, Tail(h2Link), q)
  <2>1. StreamAgrees(h2Slot, h2Peer, h2Link, q)
    BY <1>3, <1>5 DEF Current, Ledger
  <2>2. q # NoStream
    BY Http2Constants DEF H2Requests
  <2>3. /\ Counted(h2Link, "WINDOW_UPDATE", q) = Counted(Tail(h2Link), "WINDOW_UPDATE", q)
        /\ Counted(h2Link, "DATA", q) = Counted(Tail(h2Link), "DATA", q)
    BY <2>2, NextFrame
  <2> QED  BY <2>1, <2>3 DEF StreamAgrees
<1>6. Ledger(h, h2Slot, h2Peer, Tail(h2Link))
  BY <1>3, <1>4, <1>5, HeadAndTail DEF Current, Ledger, Typed, StreamsKnown
<1> QED  BY <1>1, <1>6 DEF Treated, H2Result, Outcomes

LEMMA ConnectionFrameTreated ==
    ASSUME Current, Head(h2Link).stream = NoStream, NEW r
    PROVE  Treated(ConnectionFrame(Head(h2Link), r), r)
<1>1. Head(h2Link).type \in {"SETTINGS", "GOAWAY", "WINDOW_UPDATE"}
  BY HeadAndTail, FrameTypes DEF Current
<1>2. CASE Head(h2Link).type = "SETTINGS"
  BY <1>2, SettingsTreated DEF ConnectionFrame
<1>3. CASE Head(h2Link).type = "GOAWAY"
  BY <1>3, GoAwayTreated DEF ConnectionFrame
<1>4. CASE Head(h2Link).type = "WINDOW_UPDATE"
  BY <1>4, UpdateTreated DEF ConnectionFrame
<1> QED  BY <1>1, <1>2, <1>3, <1>4

\* A stream is refused: whatever becomes of its slot, its DATA is not counted any more.
LEMMA RefusalTreated ==
    ASSUME Current, NEW q \in H2Requests, h2Peer.phase[q] # "none", Head(h2Link).stream # NoStream,
           Head(h2Link).type # "WINDOW_UPDATE",
           Head(h2Link).type = "DATA" =>
                Head(h2Link).stream = q \/ ~H2Active(h2Slot[Head(h2Link).stream]),
           NEW x \in Slots, H2Active(x) => H2Active(h2Slot[q]) /\ x.remote = h2Slot[q].remote, NEW r
    PROVE  Treated(SendRstStream(q, [h2Slot EXCEPT ![q] = x]), r)
<1>1. PICK phase : phase = [h2Peer.phase EXCEPT ![q] = "reset"]
  OBVIOUS
<1>2. PICK p : p = [h2Peer EXCEPT !.phase = phase]
  OBVIOUS
<1>3. h2Peer \in Peers /\ h2 \in Windows
  BY DEF Current, Ledger, Typed
<1>4. /\ phase \in [H2Requests -> Phases] /\ phase[q] = "reset"
      /\ \A o \in H2Requests : o # q => phase[o] = h2Peer.phase[o]
  BY <1>1, <1>3 DEF Peers, Phases
<1>5. /\ p \in Peers /\ p.phase = phase /\ p.conn = h2Peer.conn /\ p.str = h2Peer.str
      /\ p.initial = h2Peer.initial /\ p.strCredit = h2Peer.strCredit
  BY <1>2, <1>3, <1>4 DEF Peers
<1>6. Treated(H2Result(h2, [h2Slot EXCEPT ![q] = x], p, "invalid"), r)
  BY <1>3, <1>4, <1>5, StreamMoves DEF Outcomes
<1> QED  BY <1>1, <1>2, <1>6 DEF SendRstStream

\* Nothing but the state of a stream changes.
LEMMA StateTreated ==
    ASSUME Current, NEW q \in H2Requests, h2Peer.phase[q] # "none", Head(h2Link).stream # NoStream,
           Head(h2Link).type \notin {"WINDOW_UPDATE", "DATA"},
           NEW x \in Slots, H2Active(x) => /\ H2Active(h2Slot[q]) /\ x.remote = h2Slot[q].remote
                                           /\ x.local = h2Slot[q].local,
           NEW r, NEW out \in Outcomes
    PROVE  Treated(H2Result(h2, [h2Slot EXCEPT ![q] = x], h2Peer, out), r)
<1>1. h2Peer \in Peers /\ h2 \in Windows /\ h2Slot[q] \in Slots
  BY DEF Current, Ledger, Typed
<1>2. H2Active(x) => x.local - h2Peer.strCredit[q] = h2Slot[q].local - h2Peer.strCredit[q]
  OBVIOUS
<1>3. (IF Head(h2Link).type = "DATA" /\ Head(h2Link).stream = q THEN 1 ELSE 0) = 0
  OBVIOUS
<1>4. h2Slot[q].local - h2Peer.strCredit[q] = h2Slot[q].local - h2Peer.strCredit[q] - 0
  BY <1>1 DEF Slots, Peers
<1> QED  BY <1>1, <1>2, <1>3, <1>4, StreamMoves

\* A stream that ends its side stays what it is otherwise.
LEMMA ReceivesIsSlot ==
    ASSUME NEW s \in Slots, NEW end \in BOOLEAN
    PROVE  /\ StreamReceives(s, end) \in Slots
           /\ H2Active(StreamReceives(s, end)) = H2Active(s)
           /\ StreamReceives(s, end).remote = s.remote /\ StreamReceives(s, end).local = s.local
<1>1. PICK st : st = IF ~end THEN s.state ELSE IF s.state = "HalfClosedLocal" THEN "Closed" ELSE "HalfClosedRemote"
  OBVIOUS
<1>2. st \in {"Idle", "Open", "HalfClosedLocal", "HalfClosedRemote", "Closed"}
  BY <1>1 DEF Slots
<1>3. StreamReceives(s, end) = [s EXCEPT !.state = st]
  BY <1>1 DEF StreamReceives
<1> QED  BY <1>2, <1>3 DEF Slots, H2Active

LEMMA HeaderBlockTreated ==
    ASSUME Current, Head(h2Link).type \in {"HEADERS", "CONTINUATION"}, NEW r
    PROVE  Treated(HeaderBlock(Head(h2Link)), r)
<1>1. PICK f : f = Head(h2Link)
  OBVIOUS
<1>2. PICK q : q = f.stream
  OBVIOUS
<1>3. /\ f \in Frames /\ q # NoStream /\ q \in H2Requests /\ h2Peer.phase[q] # "none"
      /\ f.endHeaders \in BOOLEAN /\ f.end \in BOOLEAN
  <2>1. f.stream # NoStream
    BY <1>1, HeadAndTail, FrameTypes DEF Current
  <2> QED  BY <1>1, <1>2, <2>1, HeadAndTail, FrameTypes DEF Current
<1>4. h2Slot[q] \in Slots
  BY <1>3 DEF Current, Ledger, Typed
<1>5. PICK end : end = IF f.type = "HEADERS" THEN f.end ELSE h2Slot[q].pendingEnd
  OBVIOUS
<1>6. end \in BOOLEAN
  BY <1>3, <1>4, <1>5 DEF Slots
<1>7. PICK s : s = [h2Slot[q] EXCEPT !.pendingEnd = end, !.expecting = ~f.endHeaders]
  OBVIOUS
<1>8. /\ s \in Slots /\ H2Active(s) = H2Active(h2Slot[q])
      /\ s.remote = h2Slot[q].remote /\ s.local = h2Slot[q].local
  BY <1>3, <1>4, <1>6, <1>7 DEF Slots, H2Active
<1>9. PICK t : t = StreamReceives(s, end)
  OBVIOUS
<1>10. /\ t \in Slots /\ H2Active(t) = H2Active(h2Slot[q])
       /\ t.remote = h2Slot[q].remote /\ t.local = h2Slot[q].local
  BY <1>6, <1>8, <1>9, ReceivesIsSlot
<1>11. PICK u : u = [t EXCEPT !.pendingEnd = FALSE]
  OBVIOUS
<1>12. /\ u \in Slots /\ H2Active(u) = H2Active(h2Slot[q])
       /\ u.remote = h2Slot[q].remote /\ u.local = h2Slot[q].local
  BY <1>10, <1>11 DEF Slots, H2Active
<1>13. PICK w : w = [t EXCEPT !.headers = TRUE, !.pendingEnd = FALSE, !.closed = end]
  OBVIOUS
<1>14. /\ w \in Slots /\ H2Active(w) = H2Active(h2Slot[q])
       /\ w.remote = h2Slot[q].remote /\ w.local = h2Slot[q].local
  BY <1>6, <1>10, <1>13 DEF Slots, H2Active
<1>15. Treated(SendRstStream(q, [h2Slot EXCEPT ![q] = s]), r) /\ Treated(SendRstStream(q, [h2Slot EXCEPT ![q] = t]), r)
  BY <1>1, <1>2, <1>3, <1>8, <1>10, RefusalTreated
<1>16. /\ Treated(H2Result(h2, [h2Slot EXCEPT ![q] = s], h2Peer, "ok"), r)
       /\ Treated(H2Result(h2, [h2Slot EXCEPT ![q] = u], h2Peer, "ok"), r)
       /\ Treated(H2Result(h2, [h2Slot EXCEPT ![q] = w], h2Peer, "ok"), r)
  <2>1. "ok" \in Outcomes /\ Head(h2Link).type \notin {"WINDOW_UPDATE", "DATA"} /\ Head(h2Link).stream # NoStream
    BY <1>1, <1>2, <1>3 DEF Outcomes
  <2>2. Treated(H2Result(h2, [h2Slot EXCEPT ![q] = s], h2Peer, "ok"), r)
    BY <1>3, <1>8, <2>1, StateTreated
  <2>3. Treated(H2Result(h2, [h2Slot EXCEPT ![q] = u], h2Peer, "ok"), r)
    BY <1>3, <1>12, <2>1, StateTreated
  <2>4. Treated(H2Result(h2, [h2Slot EXCEPT ![q] = w], h2Peer, "ok"), r)
    BY <1>3, <1>14, <2>1, StateTreated
  <2> QED  BY <2>2, <2>3, <2>4
<1>17. HeaderBlock(f) =
          IF ~f.endHeaders THEN H2Result(h2, [h2Slot EXCEPT ![q] = s], h2Peer, "ok")
          ELSE IF ~StreamCanReceive(s) THEN SendRstStream(q, [h2Slot EXCEPT ![q] = s])
          ELSE IF s.headers /\ (~s.data \/ ~end) THEN SendRstStream(q, [h2Slot EXCEPT ![q] = t])
          ELSE IF InvalidBlock(f, end) THEN SendRstStream(q, [h2Slot EXCEPT ![q] = t])
          ELSE IF f.kind = "interim" THEN H2Result(h2, [h2Slot EXCEPT ![q] = u], h2Peer, "ok")
          ELSE H2Result(h2, [h2Slot EXCEPT ![q] = w], h2Peer, "ok")
  BY <1>2, <1>5, <1>7, <1>9, <1>11, <1>13 DEF HeaderBlock
<1> QED  BY <1>1, <1>15, <1>16, <1>17

LEMMA RstStreamTreated ==
    ASSUME Current, Head(h2Link).type = "RST_STREAM", NEW r
    PROVE  Treated(RstStreamFrame(Head(h2Link)), r)
<1>1. PICK f : f = Head(h2Link)
  OBVIOUS
<1>2. PICK q : q = f.stream
  OBVIOUS
<1>3. q # NoStream /\ q \in H2Requests /\ h2Peer.phase[q] # "none"
  <2>1. f.stream # NoStream
    BY <1>1, HeadAndTail, FrameTypes DEF Current
  <2> QED  BY <1>1, <1>2, <2>1, HeadAndTail, FrameTypes DEF Current
<1>4. PICK s : s = [h2Slot[q] EXCEPT !.found = FALSE, !.state = "Idle", !.closed = TRUE]
  OBVIOUS
<1>5. h2Slot[q] \in Slots
  BY <1>3 DEF Current, Ledger, Typed
<1>6. s \in Slots /\ ~H2Active(s)
  BY <1>4, <1>5 DEF Slots, H2Active
<1>7. PICK out : out = IF f.code = "no_error" /\ h2Slot[q].headers THEN "ok"
                       ELSE IF f.code = "refused" THEN "retry" ELSE "disconnected"
  OBVIOUS
<1>8. Treated(H2Result(h2, [h2Slot EXCEPT ![q] = s], h2Peer, out), r)
  BY <1>1, <1>2, <1>3, <1>6, <1>7, StateTreated DEF Outcomes
<1> QED  BY <1>1, <1>2, <1>4, <1>7, <1>8 DEF RstStreamFrame

\* DATA that is accepted leaves the stream's window; what the body's sink has
\* taken comes back into it, here and at the peer.
LEMMA DataTreated ==
    ASSUME Current, Head(h2Link).type = "DATA", NEW accepts \in BOOLEAN, NEW r
    PROVE  Treated(DataFrame(Head(h2Link), accepts), r)
<1>1. PICK f : f = Head(h2Link)
  OBVIOUS
<1>2. PICK q : q = f.stream
  OBVIOUS
<1>3. q # NoStream /\ q \in H2Requests /\ h2Peer.phase[q] # "none" /\ f.end \in BOOLEAN
  <2>1. f.stream # NoStream
    BY <1>1, HeadAndTail, FrameTypes DEF Current
  <2> QED  BY <1>1, <1>2, <2>1, HeadAndTail, FrameTypes DEF Current
<1>4. /\ h2Slot \in [H2Requests -> Slots] /\ h2Slot[q] \in Slots
      /\ h2Peer \in Peers /\ h2 \in Windows
  BY <1>3 DEF Current, Ledger, Typed
<1>5. PICK k : k = StreamReceives(h2Slot[q], f.end)
  OBVIOUS
<1>6. PICK t : t = [k EXCEPT !.local = @ - 1]
  OBVIOUS
<1>7. /\ t \in Slots /\ H2Active(t) = H2Active(h2Slot[q])
      /\ t.remote = h2Slot[q].remote /\ t.local = h2Slot[q].local - 1
  <2>1. /\ k \in Slots /\ H2Active(k) = H2Active(h2Slot[q])
        /\ k.remote = h2Slot[q].remote /\ k.local = h2Slot[q].local
    BY <1>3, <1>4, <1>5, ReceivesIsSlot
  <2> QED  BY <1>6, <2>1 DEF Slots, H2Active
<1>8. PICK h : h = [h2 EXCEPT !.recv = @ - 1]
  OBVIOUS
<1>9. /\ h \in Windows /\ h.initial = h2.initial /\ h.send = h2.send /\ h.goAwaySent = h2.goAwaySent
  BY <1>4, <1>8 DEF Windows
<1>a. (IF Head(h2Link).type = "DATA" /\ Head(h2Link).stream = q THEN 1 ELSE 0) = 1
  BY <1>1, <1>2
<1>b. /\ h2Slot[q].local \in Int /\ h2Peer.strCredit[q] \in Int /\ h2Peer.strCredit \in [H2Requests -> Int]
      /\ h2Peer.credit \in Int
  BY <1>3, <1>4 DEF Slots, Peers
<1>10. CASE ~h2Slot[q].headers \/ ~StreamCanReceive(h2Slot[q])
  <2>1. h2Slot = [h2Slot EXCEPT ![q] = h2Slot[q]]
    BY <1>4
  <2>2. Treated(SendRstStream(q, h2Slot), r)
    BY <1>1, <1>2, <1>3, <1>4, <2>1, RefusalTreated
  <2> QED  BY <1>1, <1>2, <1>10, <2>2 DEF DataFrame
<1>11. CASE h2Slot[q].headers /\ StreamCanReceive(h2Slot[q]) /\ ~accepts
  <2>1. t.local - h2Peer.strCredit[q] = h2Slot[q].local - h2Peer.strCredit[q] - 1
    BY <1>7, <1>b
  <2>2. Treated(H2Result(h, [h2Slot EXCEPT ![q] = t], h2Peer, "too_small"), r)
    BY <1>1, <1>2, <1>3, <1>4, <1>7, <1>9, <1>a, <2>1, StreamMoves DEF Outcomes
  <2> QED  BY <1>1, <1>2, <1>5, <1>6, <1>8, <1>11, <2>2 DEF DataFrame
<1>12. CASE h2Slot[q].headers /\ StreamCanReceive(h2Slot[q]) /\ accepts
  <2>1. PICK g : g = [h EXCEPT !.consumed = @ + 1]
    OBVIOUS
  <2>2. /\ g \in Windows /\ g.initial = h2.initial /\ g.send = h2.send /\ g.goAwaySent = h2.goAwaySent
    BY <1>9, <2>1 DEF Windows
  <2>3. PICK due : due = (2 * g.consumed >= InitialWindow)
    OBVIOUS
  <2>a. PICK b : b = [g EXCEPT !.recv = @ + g.consumed, !.consumed = 0]
    OBVIOUS
  <2>b. /\ b \in Windows /\ b.initial = h2.initial /\ b.send = h2.send /\ b.goAwaySent = h2.goAwaySent
    <3>1. PICK n : n = g.recv + g.consumed
      OBVIOUS
    <3>2. n \in Int
      BY <2>2, <3>1 DEF Windows
    <3>3. PICK c : c = [g EXCEPT !.recv = n]
      OBVIOUS
    <3>4. /\ c \in Windows /\ c.initial = h2.initial /\ c.send = h2.send
          /\ c.goAwaySent = h2.goAwaySent
      BY <2>2, <3>2, <3>3 DEF Windows
    <3>5. b = [c EXCEPT !.consumed = 0]
      BY <2>a, <3>1, <3>3
    <3> QED  BY <3>4, <3>5 DEF Windows
  <2>4. PICK e : e = IF due THEN b ELSE g
    OBVIOUS
  <2>5. /\ e \in Windows /\ e.initial = h2.initial /\ e.send = h2.send /\ e.goAwaySent = h2.goAwaySent
    BY <2>2, <2>4, <2>b
  <2>6. PICK x : x = [t EXCEPT !.data = TRUE, !.closed = f.end]
    OBVIOUS
  <2>7. /\ x \in Slots /\ H2Active(x) = H2Active(h2Slot[q])
        /\ x.remote = h2Slot[q].remote /\ x.local = h2Slot[q].local - 1
    BY <1>3, <1>7, <2>6 DEF Slots, H2Active
  <2>8. PICK y : y = IF f.end THEN x ELSE [x EXCEPT !.local = @ + 1]
    OBVIOUS
  <2>9. /\ y \in Slots /\ H2Active(y) = H2Active(h2Slot[q]) /\ y.remote = h2Slot[q].remote
        /\ y.local = IF f.end THEN h2Slot[q].local - 1 ELSE h2Slot[q].local
    BY <1>b, <2>7, <2>8 DEF Slots, H2Active
  <2>10. PICK sc : sc = [h2Peer.strCredit EXCEPT ![q] = IF f.end THEN @ ELSE @ + 1]
    OBVIOUS
  <2>11. /\ sc \in [H2Requests -> Int] /\ \A o \in H2Requests : o # q => sc[o] = h2Peer.strCredit[o]
         /\ sc[q] = IF f.end THEN h2Peer.strCredit[q] ELSE h2Peer.strCredit[q] + 1
    BY <1>3, <1>b, <2>10
  <2>12. PICK cr : cr = IF due THEN h2Peer.credit + g.consumed ELSE h2Peer.credit
    OBVIOUS
  <2>13. PICK p : p = [h2Peer EXCEPT !.credit = cr, !.strCredit = sc]
    OBVIOUS
  <2>14. cr \in Int
    BY <1>b, <2>2, <2>12 DEF Windows
  <2>15. /\ p \in Peers /\ p.strCredit = sc /\ p.conn = h2Peer.conn /\ p.str = h2Peer.str
         /\ p.initial = h2Peer.initial /\ p.phase = h2Peer.phase
    BY <1>4, <2>11, <2>13, <2>14 DEF Peers
  <2>16. y.local - p.strCredit[q] = h2Slot[q].local - h2Peer.strCredit[q] - 1
    BY <1>b, <2>9, <2>11, <2>15
  <2>17. Treated(H2Result(e, [h2Slot EXCEPT ![q] = y], p, "ok"), r)
    BY <1>1, <1>2, <1>3, <1>a, <2>5, <2>9, <2>11, <2>15, <2>16, StreamMoves DEF Outcomes
  <2>18. [h2Slot EXCEPT ![q] = y] = IF f.end THEN [h2Slot EXCEPT ![q] = x]
                                    ELSE [[h2Slot EXCEPT ![q] = x] EXCEPT ![q].local = @ + 1]
    BY <1>3, <1>4, <2>8
  <2>19. WindowUpdates(g, [h2Slot EXCEPT ![q] = x], h2Peer, q, f.end)
            = H2Result(e, [h2Slot EXCEPT ![q] = y], p, "ok")
    BY <2>3, <2>4, <2>a, <2>10, <2>12, <2>13, <2>18 DEF WindowUpdates, H2Result
  <2>20. DataFrame(f, accepts) = WindowUpdates(g, [h2Slot EXCEPT ![q] = x], h2Peer, q, f.end)
    BY <1>2, <1>5, <1>6, <1>8, <1>12, <2>1, <2>6 DEF DataFrame
  <2> QED  BY <1>1, <2>17, <2>19, <2>20
<1> QED  BY <1>10, <1>11, <1>12

\* A window update of a stream.
LEMMA StreamUpdateTreated ==
    ASSUME Current, Head(h2Link).type = "WINDOW_UPDATE", Head(h2Link).stream # NoStream, NEW r
    PROVE  Treated(H2Result(h2, [h2Slot EXCEPT ![Head(h2Link).stream].remote = @ + 1], h2Peer, "ok"), r)
<1>1. PICK q : q = Head(h2Link).stream
  OBVIOUS
<1>2. q # NoStream /\ q \in H2Requests /\ h2Peer.phase[q] # "none"
  BY <1>1, HeadAndTail, FrameTypes DEF Current
<1>3. /\ h2Slot \in [H2Requests -> Slots] /\ h2Slot[q] \in Slots /\ h2 \in Windows /\ h2Peer \in Peers
  BY <1>2 DEF Current, Ledger, Typed
<1>4. PICK x : x = [h2Slot[q] EXCEPT !.remote = @ + 1]
  OBVIOUS
<1>5. /\ x \in Slots /\ H2Active(x) = H2Active(h2Slot[q])
      /\ x.remote = h2Slot[q].remote + 1 /\ x.local = h2Slot[q].local
  BY <1>3, <1>4 DEF Slots, H2Active
<1>6. PICK s : s = [h2Slot EXCEPT ![q] = x]
  OBVIOUS
<1>7. s \in [H2Requests -> Slots] /\ s[q] = x /\ \A o \in H2Requests : o # q => s[o] = h2Slot[o]
  BY <1>2, <1>3, <1>5, <1>6
<1>8. ASSUME ~h2.goAwaySent PROVE ConnectionAgrees(h2, h2Peer, Tail(h2Link))
  <2>1. ConnectionAgrees(h2, h2Peer, h2Link)
    BY <1>8 DEF Current, Ledger
  <2> QED  BY <1>1, <1>2, <2>1, NextFrame DEF ConnectionAgrees
<1>9. ASSUME ~h2.goAwaySent, NEW o \in H2Requests PROVE StreamAgrees(s, h2Peer, Tail(h2Link), o)
  <2>1. StreamAgrees(h2Slot, h2Peer, h2Link, o)
    BY <1>9 DEF Current, Ledger
  <2>2. Counted(h2Link, "DATA", o) = Counted(Tail(h2Link), "DATA", o)
    BY NextFrame
  <2>3. /\ Counted(Tail(h2Link), "WINDOW_UPDATE", o) \in Nat
        /\ Counted(h2Link, "WINDOW_UPDATE", o) = Counted(Tail(h2Link), "WINDOW_UPDATE", o)
              + (IF Head(h2Link).type = "WINDOW_UPDATE" /\ Head(h2Link).stream = o THEN 1 ELSE 0)
    BY NextFrame
  <2>4. CASE o = q
    <3>1. Counted(h2Link, "WINDOW_UPDATE", q) = Counted(Tail(h2Link), "WINDOW_UPDATE", q) + 1
      BY <1>1, <2>3, <2>4
    <3>2. h2Slot[q].remote \in Int /\ h2Peer.str[q] \in Int
      BY <1>2, <1>3 DEF Slots, Peers
    <3>3. ASSUME H2Active(x) PROVE x.remote + Counted(Tail(h2Link), "WINDOW_UPDATE", q) = h2Peer.str[q]
      <4>1. h2Slot[q].remote + Counted(h2Link, "WINDOW_UPDATE", q) = h2Peer.str[q]
        BY <1>5, <2>1, <2>4, <3>3 DEF StreamAgrees
      <4> QED  BY <1>5, <2>3, <2>4, <3>1, <3>2, <4>1
    <3>4. ASSUME H2Active(x), h2Peer.phase[q] # "reset"
          PROVE  x.local = h2Peer.strCredit[q] + Counted(Tail(h2Link), "DATA", q)
      BY <1>5, <2>1, <2>2, <2>4, <3>4 DEF StreamAgrees
    <3> QED  BY <1>7, <2>4, <3>3, <3>4 DEF StreamAgrees
  <2>5. CASE o # q
    <3>1. Counted(h2Link, "WINDOW_UPDATE", o) = Counted(Tail(h2Link), "WINDOW_UPDATE", o)
      BY <1>1, <2>3, <2>5
    <3> QED  BY <1>7, <2>1, <2>2, <2>5, <3>1 DEF StreamAgrees
  <2> QED  BY <2>4, <2>5
<1>10. StreamsKnown(s, h2Peer, Tail(h2Link))
  <2>1. \A o \in H2Requests : H2Active(s[o]) => h2Peer.phase[o] # "none"
    BY <1>2, <1>7 DEF Current, Ledger, StreamsKnown
  <2> QED  BY <2>1, HeadAndTail DEF Current, StreamsKnown
<1>11. Ledger(h2, s, h2Peer, Tail(h2Link))
  BY <1>7, <1>8, <1>9, <1>10, HeadAndTail DEF Current, Ledger, Typed
<1>12. \A o \in H2Requests : Quiet(h2Slot, h2Peer, o) => Quiet(s, h2Peer, o)
  BY <1>2, <1>7 DEF Quiet
<1>13. [h2Slot EXCEPT ![q].remote = @ + 1] = s
  BY <1>2, <1>3, <1>4, <1>6
<1> QED  BY <1>1, <1>11, <1>12, <1>13 DEF Treated, H2Result, Outcomes

LEMMA StreamFrameTreated ==
    ASSUME Current, Head(h2Link).stream # NoStream, NEW accepts \in BOOLEAN, NEW r
    PROVE  Treated(StreamFrame(Head(h2Link), accepts), r)
<1>1. Head(h2Link).type \in {"HEADERS", "CONTINUATION", "DATA", "RST_STREAM", "WINDOW_UPDATE"}
  BY HeadAndTail, FrameTypes DEF Current
<1>2. CASE Head(h2Link).type \in {"HEADERS", "CONTINUATION"}
  BY <1>2, HeaderBlockTreated DEF StreamFrame
<1>3. CASE Head(h2Link).type = "DATA"
  BY <1>3, DataTreated DEF StreamFrame
<1>4. CASE Head(h2Link).type = "RST_STREAM"
  BY <1>4, RstStreamTreated DEF StreamFrame
<1>5. CASE Head(h2Link).type = "WINDOW_UPDATE"
  BY <1>5, StreamUpdateTreated DEF StreamFrame
<1> QED  BY <1>1, <1>2, <1>3, <1>4, <1>5

\* Any frame that reaches the reader of a request.
LEMMA FrameTreated ==
    ASSUME Current, NEW accepts \in BOOLEAN, NEW r
    PROVE  Treated(DispatchFrame(Head(h2Link), r, accepts), r)
<1>1. Treated(SendGoAway("invalid"), r)
  BY GivenUp DEF Outcomes
<1>2. Head(h2Link).stream = NoStream => Treated(ConnectionFrame(Head(h2Link), r), r)
  BY ConnectionFrameTreated
<1>3. Head(h2Link).stream # NoStream /\ ~H2Active(h2Slot[Head(h2Link).stream]) => Treated(H2Same("ok"), r)
  BY Dropped
<1>4. Head(h2Link).stream # NoStream => Treated(StreamFrame(Head(h2Link), accepts), r)
  BY StreamFrameTreated
<1> QED  BY <1>1, <1>2, <1>3, <1>4 DEF DispatchFrame

\* A tunnel refuses HEADERS of whatever stream with RST_STREAM of its own.
LEMMA OwnRefusalTreated ==
    ASSUME Current, NEW r \in H2Requests, Head(h2Link).type \in {"HEADERS", "CONTINUATION"}
    PROVE  Treated(SendRstStream(r, h2Slot), r)
<1>1. PICK phase : phase = [h2Peer.phase EXCEPT ![r] = "reset"]
  OBVIOUS
<1>2. PICK p : p = [h2Peer EXCEPT !.phase = phase]
  OBVIOUS
<1>3. h2Peer \in Peers /\ h2 \in Windows
  BY DEF Current, Ledger, Typed
<1>4. /\ phase \in [H2Requests -> Phases] /\ phase[r] = "reset"
      /\ \A o \in H2Requests : o # r => phase[o] = h2Peer.phase[o]
  BY <1>1, <1>3 DEF Peers, Phases
<1>5. /\ p \in Peers /\ p.phase = phase /\ p.conn = h2Peer.conn /\ p.str = h2Peer.str
      /\ p.initial = h2Peer.initial /\ p.strCredit = h2Peer.strCredit
  BY <1>2, <1>3, <1>4 DEF Peers
<1>6. StreamsKnown(h2Slot, p, Tail(h2Link))
  <2>1. \A o \in H2Requests : H2Active(h2Slot[o]) => p.phase[o] # "none"
    BY <1>4, <1>5 DEF Current, Ledger, StreamsKnown
  <2>2. \A i \in DOMAIN Tail(h2Link) : Tail(h2Link)[i].stream # NoStream =>
           Tail(h2Link)[i].stream \in H2Requests /\ h2Peer.phase[Tail(h2Link)[i].stream] # "none"
    <3>1. \A i \in DOMAIN Tail(h2Link) : Tail(h2Link)[i] \in Frames
      BY HeadAndTail DEF Current
    <3>2. \A f \in Frames : f.stream # NoStream => f.stream \in H2Requests
      BY DEF Frames
    <3> QED  BY <3>1, <3>2, HeadAndTail DEF Current
  <2> QED  BY <1>4, <1>5, <2>1, <2>2 DEF StreamsKnown
<1>7. ASSUME ~h2.goAwaySent PROVE ConnectionAgrees(h2, p, Tail(h2Link))
  <2>1. ConnectionAgrees(h2, h2Peer, h2Link)
    BY <1>7 DEF Current, Ledger
  <2> QED  BY <1>5, <2>1, NextFrame DEF ConnectionAgrees
<1>8. ASSUME ~h2.goAwaySent, NEW o \in H2Requests PROVE StreamAgrees(h2Slot, p, Tail(h2Link), o)
  <2>1. StreamAgrees(h2Slot, h2Peer, h2Link, o)
    BY <1>8 DEF Current, Ledger
  <2>2. /\ Counted(h2Link, "WINDOW_UPDATE", o) = Counted(Tail(h2Link), "WINDOW_UPDATE", o)
        /\ Counted(h2Link, "DATA", o) = Counted(Tail(h2Link), "DATA", o)
    BY NextFrame
  <2>3. p.phase[o] # "reset" => h2Peer.phase[o] # "reset"
    BY <1>4, <1>5
  <2> QED  BY <1>5, <2>1, <2>2, <2>3 DEF StreamAgrees
<1>9. Ledger(h2, h2Slot, p, Tail(h2Link))
  BY <1>5, <1>6, <1>7, <1>8, HeadAndTail DEF Current, Ledger, Typed
<1>10. \A o \in H2Requests \ {r} : Quiet(h2Slot, h2Peer, o) => Quiet(h2Slot, p, o)
  BY <1>4, <1>5 DEF Quiet
<1>11. SendRstStream(r, h2Slot) = H2Result(h2, h2Slot, p, "invalid")
  BY <1>1, <1>2 DEF SendRstStream
<1> QED  BY <1>9, <1>10, <1>11 DEF Treated, H2Result, Outcomes

----------------------------------------
(* Steps *)

\* A stream that is given back leaves the ledger.
LEMMA ReleaseKeepsLedger ==
    ASSUME NEW h, NEW s, NEW p, NEW link, Ledger(h, s, p, link), NEW r \in H2Requests
    PROVE  Ledger(h, [s EXCEPT ![r] = H2Release(@)], p, link)
<1>1. PICK u : u = [s EXCEPT ![r] = H2Release(@)]
  OBVIOUS
<1>2. s \in [H2Requests -> Slots]
  BY DEF Ledger, Typed
<1>3. FreeStream \in Slots /\ ~H2Active(FreeStream)
  BY DEF FreeStream, Slots, H2Active
<1>4. /\ u[r] = H2Release(s[r]) /\ \A o \in H2Requests : o # r => u[o] = s[o]
      /\ u \in [H2Requests -> Slots]
  BY <1>1, <1>2, <1>3 DEF H2Release
<1>5. \A o \in H2Requests : H2Active(u[o]) => u[o] = s[o]
  BY <1>3, <1>4 DEF H2Release
<1>6. StreamsKnown(u, p, link)
  BY <1>5 DEF Ledger, StreamsKnown
<1>7. ASSUME ~h.goAwaySent, NEW o \in H2Requests PROVE StreamAgrees(u, p, link, o)
  <2>1. StreamAgrees(s, p, link, o)
    BY <1>7 DEF Ledger
  <2> QED  BY <1>5, <2>1 DEF StreamAgrees
<1>8. Ledger(h, u, p, link)
  BY <1>4, <1>6, <1>7 DEF Ledger, Typed
<1> QED  BY <1>1, <1>8

\* The requests that wait are left alone.
LEMMA CallsKeep ==
    ASSUME CallsOK, NEW r \in H2Requests, NEW c \in Callers, c.at \notin Waiting,
           h2Call' = [h2Call EXCEPT ![r] = c],
           \A q \in H2Requests \ {r} : Quiet(h2Slot, h2Peer, q) => Quiet(h2Slot', h2Peer', q)
    PROVE  CallsOK'
<1>1. h2Call \in [H2Requests -> Callers]
  BY DEF CallsOK
<1>2. /\ h2Call' \in [H2Requests -> Callers] /\ h2Call'[r] = c
      /\ \A q \in H2Requests \ {r} : h2Call'[q] = h2Call[q]
  BY <1>1
<1>3. ASSUME NEW q \in H2Requests, h2Call'[q].at \in Waiting PROVE Quiet(h2Slot', h2Peer', q)
  <2>1. q # r
    BY <1>2, <1>3
  <2>2. h2Call[q].at \in Waiting
    BY <1>2, <1>3, <2>1
  <2>3. Quiet(h2Slot, h2Peer, q)
    BY <2>2 DEF CallsOK
  <2> QED  BY <2>1, <2>3
<1> QED  BY <1>2, <1>3 DEF CallsOK, Quiet

\* A caller that has begun never waits again.
LEMMA CallMoves ==
    ASSUME CallsOK, NEW r \in H2Requests
    PROVE  /\ \A out \in Outcomes : \E c \in Callers : c.at \notin Waiting /\ H2Finish(r, out) = [h2Call EXCEPT ![r] = c]
           /\ \A at \in {"begun", "reading", "tunnel", "tunnel_reading"} :
                 \E c \in Callers : c.at \notin Waiting /\ [h2Call EXCEPT ![r].at = at] = [h2Call EXCEPT ![r] = c]
           /\ h2Call[r].at \notin Waiting => \E c \in Callers : c.at \notin Waiting /\ h2Call = [h2Call EXCEPT ![r] = c]
<1>1. h2Call \in [H2Requests -> Callers] /\ h2Call[r] \in Callers
  BY DEF CallsOK
<1>2. ASSUME NEW out \in Outcomes
      PROVE  \E c \in Callers : c.at \notin Waiting /\ H2Finish(r, out) = [h2Call EXCEPT ![r] = c]
  <2>1. PICK c : c = [h2Call[r] EXCEPT !.at = "done", !.out = out]
    OBVIOUS
  <2>2. c \in Callers /\ c.at \notin Waiting
    BY <1>1, <2>1 DEF Callers, Waiting
  <2>3. H2Finish(r, out) = [h2Call EXCEPT ![r] = c]
    BY <1>1, <2>1 DEF H2Finish
  <2> QED  BY <2>2, <2>3
<1>3. ASSUME NEW at \in {"begun", "reading", "tunnel", "tunnel_reading"}
      PROVE  \E c \in Callers : c.at \notin Waiting /\ [h2Call EXCEPT ![r].at = at] = [h2Call EXCEPT ![r] = c]
  <2>1. PICK c : c = [h2Call[r] EXCEPT !.at = at]
    OBVIOUS
  <2>2. c \in Callers /\ c.at \notin Waiting
    BY <1>1, <2>1 DEF Callers, Waiting
  <2>3. [h2Call EXCEPT ![r].at = at] = [h2Call EXCEPT ![r] = c]
    BY <1>1, <2>1
  <2> QED  BY <2>2, <2>3
<1>4. h2Call = [h2Call EXCEPT ![r] = h2Call[r]]
  BY <1>1
<1> QED  BY <1>1, <1>2, <1>3, <1>4

LEMMA CallEnds ==
    ASSUME CallsOK, NEW r \in H2Requests, NEW out \in Outcomes
    PROVE  \E c \in Callers : c.at \notin Waiting /\ H2Finish(r, out) = [h2Call EXCEPT ![r] = c]
BY CallMoves

\* A step that moves one caller and keeps the ledger.
LEMMA CallerStep ==
    ASSUME Http2Inv, NEW r \in H2Requests, Ledger(h2', h2Slot', h2Peer', h2Link'),
           \E c \in Callers : c.at \notin Waiting /\ h2Call' = [h2Call EXCEPT ![r] = c],
           \A q \in H2Requests \ {r} : Quiet(h2Slot, h2Peer, q) => Quiet(h2Slot', h2Peer', q)
    PROVE  Http2Inv'
<1>1. CallsOK'
  BY CallsKeep DEF Http2Inv
<1> QED  BY <1>1 DEF Http2Inv

\* The reader of a frame: the slot may be given back as well.
LEMMA ReaderStep ==
    ASSUME Http2Inv, NEW r \in H2Requests, h2Link # <<>>, NEW d, Treated(d, r), H2Apply(d),
           h2Slot' = d.s \/ h2Slot' = [d.s EXCEPT ![r] = H2Release(@)],
           \E c \in Callers : c.at \notin Waiting /\ h2Call' = [h2Call EXCEPT ![r] = c]
    PROVE  Http2Inv'
<1>1. Ledger(d.h, d.s, d.p, Tail(h2Link))
  BY DEF Treated
<1>2. Ledger(d.h, [d.s EXCEPT ![r] = H2Release(@)], d.p, Tail(h2Link))
  BY <1>1, ReleaseKeepsLedger
<1>3. Ledger(h2', h2Slot', h2Peer', h2Link')
  BY <1>1, <1>2 DEF H2Apply
<1>4. \A q \in H2Requests \ {r} : Quiet(h2Slot, h2Peer, q) => Quiet(h2Slot', h2Peer', q)
  <2>1. d.s \in [H2Requests -> Slots]
    BY <1>1 DEF Ledger, Typed
  <2>2. \A q \in H2Requests \ {r} : h2Slot'[q] = d.s[q]
    BY <2>1
  <2> QED  BY <2>2 DEF Treated, Quiet, H2Apply
<1> QED  BY <1>3, <1>4, CallerStep

\* A request without a stream has no frames under way.
LEMMA NothingUnderWay ==
    ASSUME Ledger(h2, h2Slot, h2Peer, h2Link), NEW r \in H2Requests, h2Peer.phase[r] = "none", NEW type
    PROVE  Counted(h2Link, type, r) = 0
<1>1. r # NoStream
  BY Http2Constants DEF H2Requests
<1>2. {i \in DOMAIN h2Link : h2Link[i].type = type /\ h2Link[i].stream = r} = {}
  BY <1>1 DEF Ledger, StreamsKnown
<1> QED  BY <1>2, FS_EmptySet DEF Counted

LEMMA BeginRequestKeeps ==
    ASSUME Http2Inv, NEW r \in H2Requests, BeginRequest(r)
    PROVE  Http2Inv'
<1>1. Quiet(h2Slot, h2Peer, r) /\ h2Call \in [H2Requests -> Callers]
  BY DEF BeginRequest, Http2Inv, CallsOK, Waiting
<1>2. CASE ActiveCount >= MaxStreams
  <2>1. h2Call' = H2Finish(r, "refused") /\ UNCHANGED <<h2, h2Slot, h2Peer, h2Link>>
    BY <1>2 DEF BeginRequest
  <2>2. \E c \in Callers : c.at \notin Waiting /\ h2Call' = [h2Call EXCEPT ![r] = c]
    BY <2>1, CallMoves DEF Outcomes, Http2Inv
  <2>3. Ledger(h2', h2Slot', h2Peer', h2Link')
    BY <2>1 DEF Http2Inv
  <2> QED  BY <2>1, <2>2, <2>3, CallerStep
<1>3. CASE ~(ActiveCount >= MaxStreams)
  <2>1. /\ h2' = [h2 EXCEPT !.next = @ + 1] /\ h2Link' = h2Link
        /\ h2Slot' = [h2Slot EXCEPT ![r] = OpenedStream(r)]
        /\ h2Call' = [h2Call EXCEPT ![r].at = IF r \in Posts THEN "sending" ELSE "begun",
                                    ![r].id = h2.next,
                                    ![r].left = IF r \in Posts THEN PostLength ELSE 0]
        /\ h2Peer' = [h2Peer EXCEPT !.phase[r] = "open", !.str[r] = h2Peer.initial,
                                    !.strCredit[r] = InitialWindow]
    BY <1>3 DEF BeginRequest
  <2>2. /\ h2 \in Windows /\ h2Peer \in Peers /\ h2Slot \in [H2Requests -> Slots] /\ h2Link \in Seq(Frames)
        /\ h2.initial = h2Peer.initial
    BY DEF Http2Inv, Ledger, Typed
  <2>3. /\ h2' \in Windows /\ h2'.initial = h2.initial /\ h2'.send = h2.send
        /\ h2'.goAwaySent = h2.goAwaySent
    BY <2>1, <2>2 DEF Windows
  <2>4. PICK x : x = OpenedStream(r)
    OBVIOUS
  <2>5. x \in Slots /\ x.remote = h2.initial /\ x.local = InitialWindow
    <3>1. PICK st : st = IF r \in Gets THEN "HalfClosedLocal" ELSE "Open"
      OBVIOUS
    <3>2. st \in {"HalfClosedLocal", "Open"} /\ h2.next \in Int /\ h2.initial \in Int /\ InitialWindow \in Int
      BY <2>2, <3>1, Http2Constants DEF Windows
    <3>3. x = [inUse |-> TRUE, found |-> TRUE, id |-> h2.next, state |-> st, remote |-> h2.initial,
               local |-> InitialWindow, headers |-> FALSE, data |-> FALSE, expecting |-> FALSE,
               pendingEnd |-> FALSE, closed |-> FALSE]
      BY <2>4, <3>1 DEF OpenedStream, FreeStream
    <3> QED  BY <3>2, <3>3 DEF Slots
  <2>6. /\ h2Slot' \in [H2Requests -> Slots] /\ h2Slot'[r] = x
        /\ \A o \in H2Requests : o # r => h2Slot'[o] = h2Slot[o]
    BY <2>1, <2>2, <2>4, <2>5
  <2>7. /\ h2Peer' \in Peers /\ h2Peer'.conn = h2Peer.conn /\ h2Peer'.initial = h2Peer.initial
        /\ h2Peer'.phase[r] = "open" /\ h2Peer'.str[r] = h2Peer.initial /\ h2Peer'.strCredit[r] = InitialWindow
        /\ \A o \in H2Requests : o # r => /\ h2Peer'.phase[o] = h2Peer.phase[o]
                                          /\ h2Peer'.str[o] = h2Peer.str[o]
                                          /\ h2Peer'.strCredit[o] = h2Peer.strCredit[o]
    <3>1. /\ h2Peer.phase \in [H2Requests -> Phases] /\ h2Peer.str \in [H2Requests -> Int]
          /\ h2Peer.strCredit \in [H2Requests -> Int] /\ h2Peer.initial \in Int /\ InitialWindow \in Int
      BY <2>2, Http2Constants DEF Peers
    <3>2. PICK ph : ph = [h2Peer.phase EXCEPT ![r] = "open"]
      OBVIOUS
    <3>3. PICK st : st = [h2Peer.str EXCEPT ![r] = h2Peer.initial]
      OBVIOUS
    <3>4. PICK sc : sc = [h2Peer.strCredit EXCEPT ![r] = InitialWindow]
      OBVIOUS
    <3>5. /\ ph \in [H2Requests -> Phases] /\ st \in [H2Requests -> Int] /\ sc \in [H2Requests -> Int]
          /\ ph[r] = "open" /\ st[r] = h2Peer.initial /\ sc[r] = InitialWindow
          /\ \A o \in H2Requests : o # r => /\ ph[o] = h2Peer.phase[o] /\ st[o] = h2Peer.str[o]
                                            /\ sc[o] = h2Peer.strCredit[o]
      BY <3>1, <3>2, <3>3, <3>4 DEF Phases
    <3>6. PICK p1 : p1 = [h2Peer EXCEPT !.phase = ph]
      OBVIOUS
    <3>7. p1 \in Peers /\ p1.phase = ph /\ p1.str = h2Peer.str /\ p1.strCredit = h2Peer.strCredit
          /\ p1.conn = h2Peer.conn /\ p1.initial = h2Peer.initial
      BY <2>2, <3>5, <3>6 DEF Peers
    <3>8. PICK p2 : p2 = [p1 EXCEPT !.str = st]
      OBVIOUS
    <3>9. p2 \in Peers /\ p2.phase = ph /\ p2.str = st /\ p2.strCredit = h2Peer.strCredit
          /\ p2.conn = h2Peer.conn /\ p2.initial = h2Peer.initial
      BY <3>5, <3>7, <3>8 DEF Peers
    <3>10. PICK p3 : p3 = [p2 EXCEPT !.strCredit = sc]
      OBVIOUS
    <3>11. p3 \in Peers /\ p3.phase = ph /\ p3.str = st /\ p3.strCredit = sc
           /\ p3.conn = h2Peer.conn /\ p3.initial = h2Peer.initial
      BY <3>5, <3>9, <3>10 DEF Peers
    <3>12. h2Peer' = p3
      BY <2>1, <2>2, <3>2, <3>3, <3>4, <3>6, <3>8, <3>10 DEF Peers
    <3> QED  BY <3>5, <3>11, <3>12
  <2>8. StreamsKnown(h2Slot', h2Peer', h2Link')
    <3>1. \A i \in DOMAIN h2Link : h2Link[i].stream # NoStream =>
             h2Link[i].stream \in H2Requests /\ h2Peer.phase[h2Link[i].stream] # "none"
      <4>1. \A i \in DOMAIN h2Link : h2Link[i] \in Frames
        BY <2>2
      <4>2. \A f \in Frames : f.stream # NoStream => f.stream \in H2Requests
        BY DEF Frames
      <4> QED  BY <4>1, <4>2 DEF Http2Inv, Ledger, StreamsKnown
    <3>2. \A o \in H2Requests : H2Active(h2Slot'[o]) => h2Peer'.phase[o] # "none"
      BY <2>6, <2>7 DEF Http2Inv, Ledger, StreamsKnown
    <3> QED  BY <2>1, <2>7, <3>1, <3>2 DEF StreamsKnown
  <2>9. ASSUME ~h2'.goAwaySent PROVE ConnectionAgrees(h2', h2Peer', h2Link')
    BY <2>1, <2>3, <2>7, <2>9 DEF Http2Inv, Ledger, ConnectionAgrees
  <2>10. ASSUME ~h2'.goAwaySent, NEW o \in H2Requests PROVE StreamAgrees(h2Slot', h2Peer', h2Link', o)
    <3>1. CASE o = r
      <4>1. Counted(h2Link, "WINDOW_UPDATE", r) = 0 /\ Counted(h2Link, "DATA", r) = 0
        BY <1>1, NothingUnderWay DEF Http2Inv, Quiet
      <4>2. h2.initial \in Int /\ InitialWindow \in Int
        BY <2>2, Http2Constants DEF Windows
      <4> QED  BY <2>1, <2>2, <2>5, <2>6, <2>7, <3>1, <4>1, <4>2 DEF StreamAgrees
    <3>2. CASE o # r
      <4>1. StreamAgrees(h2Slot, h2Peer, h2Link, o)
        BY <2>3, <2>10 DEF Http2Inv, Ledger
      <4> QED  BY <2>1, <2>6, <2>7, <3>2, <4>1 DEF StreamAgrees
    <3> QED  BY <3>1, <3>2
  <2>11. Ledger(h2', h2Slot', h2Peer', h2Link')
    BY <2>1, <2>2, <2>3, <2>6, <2>7, <2>8, <2>9, <2>10 DEF Ledger, Typed
  <2>12. \E c \in Callers : c.at \notin Waiting /\ h2Call' = [h2Call EXCEPT ![r] = c]
    <3>1. PICK at : at = IF r \in Posts THEN "sending" ELSE "begun"
      OBVIOUS
    <3>2. PICK left : left = IF r \in Posts THEN PostLength ELSE 0
      OBVIOUS
    <3>3. at \in {"sending", "begun"} /\ left \in Int /\ h2.next \in Int
      BY <2>2, <3>1, <3>2, Http2Constants DEF Windows
    <3>4. PICK c : c = [h2Call[r] EXCEPT !.at = at, !.id = h2.next, !.left = left]
      OBVIOUS
    <3>5. c \in Callers /\ c.at \notin Waiting
      BY <1>1, <3>3, <3>4 DEF Callers, Waiting
    <3>6. h2Call' = [h2Call EXCEPT ![r] = c]
      BY <1>1, <2>1, <3>1, <3>2, <3>4
    <3> QED  BY <3>5, <3>6
  <2>13. \A q \in H2Requests \ {r} : Quiet(h2Slot, h2Peer, q) => Quiet(h2Slot', h2Peer', q)
    BY <2>6, <2>7 DEF Quiet
  <2> QED  BY <2>11, <2>12, <2>13, CallerStep
<1> QED  BY <1>2, <1>3

\* A unit of DATA leaves both windows of the sender and both of its credits.
LEMMA UnitSentKeepsLedger ==
    ASSUME Ledger(h2, h2Slot, h2Peer, h2Link), NEW r \in H2Requests, H2WindowsOpen(r),
           NEW h \in Windows, h.send = h2.send - 1, h.initial = h2.initial, h.goAwaySent = h2.goAwaySent,
           NEW x \in Slots, H2Active(x) => /\ H2Active(h2Slot[r]) /\ x.remote = h2Slot[r].remote - 1
                                           /\ x.local = h2Slot[r].local,
           NEW p \in Peers, p.conn = h2Peer.conn - 1, p.str = [h2Peer.str EXCEPT ![r] = @ - 1],
           p.strCredit = h2Peer.strCredit, p.initial = h2Peer.initial,
           \A o \in H2Requests : o # r => p.phase[o] = h2Peer.phase[o],
           p.phase[r] = h2Peer.phase[r] \/ (p.phase[r] = "done" /\ ~H2Active(x))
    PROVE  /\ Ledger(h, [h2Slot EXCEPT ![r] = x], p, h2Link)
           /\ \A q \in H2Requests \ {r} : Quiet(h2Slot, h2Peer, q) => Quiet([h2Slot EXCEPT ![r] = x], p, q)
<1>1. PICK s : s = [h2Slot EXCEPT ![r] = x]
  OBVIOUS
<1>2. /\ h2 \in Windows /\ h2Peer \in Peers /\ h2Slot \in [H2Requests -> Slots] /\ h2Link \in Seq(Frames)
  BY DEF Ledger, Typed
<1>3. s \in [H2Requests -> Slots] /\ s[r] = x /\ \A o \in H2Requests : o # r => s[o] = h2Slot[o]
  BY <1>1, <1>2
<1>4. /\ h2.send \in Int /\ h2Peer.conn \in Int /\ h2Peer.str \in [H2Requests -> Int] /\ h2Peer.str[r] \in Int
      /\ h2Slot[r].remote \in Int
  BY <1>2 DEF Windows, Peers, Slots
<1>5. p.str[r] = h2Peer.str[r] - 1 /\ \A o \in H2Requests : o # r => p.str[o] = h2Peer.str[o]
  BY <1>4
<1>6. StreamsKnown(s, p, h2Link)
  <2>1. \A i \in DOMAIN h2Link : h2Link[i].stream # NoStream =>
           h2Link[i].stream \in H2Requests /\ h2Peer.phase[h2Link[i].stream] # "none"
    <3>1. \A i \in DOMAIN h2Link : h2Link[i] \in Frames
      BY <1>2
    <3>2. \A f \in Frames : f.stream # NoStream => f.stream \in H2Requests
      BY DEF Frames
    <3> QED  BY <3>1, <3>2 DEF Ledger, StreamsKnown
  <2>2. \A o \in H2Requests : H2Active(s[o]) => H2Active(h2Slot[o])
    BY <1>3
  <2>3. \A o \in H2Requests : H2Active(s[o]) => h2Peer.phase[o] # "none"
    BY <2>2 DEF Ledger, StreamsKnown
  <2>4. \A o \in H2Requests : h2Peer.phase[o] # "none" => p.phase[o] # "none"
    OBVIOUS
  <2> QED  BY <2>1, <2>3, <2>4 DEF StreamsKnown
<1>7. ASSUME ~h.goAwaySent PROVE ConnectionAgrees(h, p, h2Link)
  <2>1. ConnectionAgrees(h2, h2Peer, h2Link)
    BY <1>7 DEF Ledger
  <2>2. Counted(h2Link, "WINDOW_UPDATE", NoStream) \in Nat
    BY <1>2, CountedIsNatural
  <2>3. h2.send > 0
    BY DEF H2WindowsOpen
  <2> QED  BY <1>4, <2>1, <2>2, <2>3 DEF ConnectionAgrees
<1>8. ASSUME ~h.goAwaySent, NEW o \in H2Requests PROVE StreamAgrees(s, p, h2Link, o)
  <2>1. StreamAgrees(h2Slot, h2Peer, h2Link, o)
    BY <1>8 DEF Ledger
  <2>2. Counted(h2Link, "WINDOW_UPDATE", o) \in Nat
    BY <1>2, CountedIsNatural
  <2>3. CASE o = r
    <3>1. ASSUME H2Active(x) PROVE x.remote + Counted(h2Link, "WINDOW_UPDATE", r) = p.str[r]
      <4>1. h2Slot[r].remote + Counted(h2Link, "WINDOW_UPDATE", r) = h2Peer.str[r]
        BY <2>1, <2>3, <3>1 DEF StreamAgrees
      <4> QED  BY <1>4, <1>5, <2>2, <2>3, <3>1, <4>1
    <3>2. ASSUME H2Active(x), p.phase[r] # "reset"
          PROVE  x.local = p.strCredit[r] + Counted(h2Link, "DATA", r)
      BY <2>1, <2>3, <3>2 DEF StreamAgrees
    <3> QED  BY <1>3, <2>3, <3>1, <3>2 DEF StreamAgrees
  <2>4. CASE o # r
    BY <1>3, <1>5, <2>1, <2>4 DEF StreamAgrees
  <2> QED  BY <2>3, <2>4
<1>9. Ledger(h, s, p, h2Link)
  BY <1>2, <1>3, <1>6, <1>7, <1>8 DEF Ledger, Typed
<1>10. \A q \in H2Requests \ {r} : Quiet(h2Slot, h2Peer, q) => Quiet(s, p, q)
  BY <1>3 DEF Quiet
<1> QED  BY <1>1, <1>9, <1>10

LEMMA UploadEndsKeeps ==
    ASSUME Http2Inv, NEW r \in H2Requests, UploadEnds(r)
    PROVE  Http2Inv'
<1>1. h2Call' = [h2Call EXCEPT ![r].at = "begun"] /\ UNCHANGED <<h2, h2Slot, h2Link, h2Peer>>
  BY DEF UploadEnds
<1>2. \E c \in Callers : c.at \notin Waiting /\ h2Call' = [h2Call EXCEPT ![r] = c]
  BY <1>1, CallMoves DEF Http2Inv
<1>3. Ledger(h2', h2Slot', h2Peer', h2Link')
  BY <1>1 DEF Http2Inv
<1> QED  BY <1>1, <1>2, <1>3, CallerStep

LEMMA TakeReceiveLockKeeps ==
    ASSUME Http2Inv, NEW r \in H2Requests, TakeReceiveLock(r)
    PROVE  Http2Inv'
<1>1. /\ h2Call' = [h2Call EXCEPT ![r].at = "reading"] \/ h2Call' = [h2Call EXCEPT ![r].at = "tunnel_reading"]
      /\ UNCHANGED <<h2, h2Slot, h2Link, h2Peer>>
  BY DEF TakeReceiveLock
<1>2. \E c \in Callers : c.at \notin Waiting /\ h2Call' = [h2Call EXCEPT ![r] = c]
  <2>1. CASE h2Call' = [h2Call EXCEPT ![r].at = "reading"]
    BY <2>1, CallMoves DEF Http2Inv
  <2>2. CASE h2Call' = [h2Call EXCEPT ![r].at = "tunnel_reading"]
    BY <2>2, CallMoves DEF Http2Inv
  <2> QED  BY <1>1, <2>1, <2>2
<1>3. Ledger(h2', h2Slot', h2Peer', h2Link')
  BY <1>1 DEF Http2Inv
<1> QED  BY <1>1, <1>2, <1>3, CallerStep

LEMMA SendRequestBodyFrameKeeps ==
    ASSUME Http2Inv, NEW r \in H2Requests, SendRequestBodyFrame(r)
    PROVE  Http2Inv'
<1>1. /\ h2Call[r].at = "sending" /\ H2WindowsOpen(r) /\ h2Link' = h2Link
      /\ h2' = [h2 EXCEPT !.send = @ - 1]
      /\ h2Slot' = [h2Slot EXCEPT ![r] = SendsData(@, h2Call[r].left = 1)]
      /\ h2Call' = [h2Call EXCEPT ![r].left = @ - 1]
      /\ h2Peer' = [h2Peer EXCEPT !.conn = @ - 1, !.str[r] = @ - 1]
  BY DEF SendRequestBodyFrame
<1>2. /\ h2 \in Windows /\ h2Peer \in Peers /\ h2Slot \in [H2Requests -> Slots] /\ h2Slot[r] \in Slots
      /\ h2Call \in [H2Requests -> Callers] /\ h2Call[r] \in Callers
  BY DEF Http2Inv, Ledger, Typed, CallsOK
<1>3. h2' \in Windows /\ h2'.send = h2.send - 1 /\ h2'.initial = h2.initial /\ h2'.goAwaySent = h2.goAwaySent
  BY <1>1, <1>2 DEF Windows
<1>4. PICK x : x = SendsData(h2Slot[r], h2Call[r].left = 1)
  OBVIOUS
<1>5. x \in Slots /\ H2Active(x) = H2Active(h2Slot[r]) /\ x.remote = h2Slot[r].remote - 1 /\ x.local = h2Slot[r].local
  <2>1. PICK st : st = IF ~(h2Call[r].left = 1) THEN h2Slot[r].state
                       ELSE IF h2Slot[r].state = "HalfClosedRemote" THEN "Closed" ELSE "HalfClosedLocal"
    OBVIOUS
  <2>2. st \in {"Idle", "Open", "HalfClosedLocal", "HalfClosedRemote", "Closed"}
    BY <1>2, <2>1 DEF Slots
  <2>3. x = [h2Slot[r] EXCEPT !.remote = @ - 1, !.state = st]
    BY <1>4, <2>1 DEF SendsData
  <2>4. PICK y : y = [h2Slot[r] EXCEPT !.remote = @ - 1]
    OBVIOUS
  <2>5. y \in Slots /\ H2Active(y) = H2Active(h2Slot[r]) /\ y.remote = h2Slot[r].remote - 1 /\ y.local = h2Slot[r].local
    BY <1>2, <2>4 DEF Slots, H2Active
  <2>6. x = [y EXCEPT !.state = st]
    BY <2>3, <2>4
  <2> QED  BY <2>2, <2>5, <2>6 DEF Slots, H2Active
<1>6. h2Slot' = [h2Slot EXCEPT ![r] = x]
  BY <1>1, <1>4
<1>7. /\ h2Peer' \in Peers /\ h2Peer'.conn = h2Peer.conn - 1 /\ h2Peer'.str = [h2Peer.str EXCEPT ![r] = @ - 1]
      /\ h2Peer'.strCredit = h2Peer.strCredit /\ h2Peer'.initial = h2Peer.initial /\ h2Peer'.phase = h2Peer.phase
  <2>1. PICK st : st = [h2Peer.str EXCEPT ![r] = @ - 1]
    OBVIOUS
  <2>2. st \in [H2Requests -> Int]
    BY <1>2, <2>1 DEF Peers
  <2>3. PICK p : p = [h2Peer EXCEPT !.conn = h2Peer.conn - 1]
    OBVIOUS
  <2>4. /\ p \in Peers /\ p.conn = h2Peer.conn - 1 /\ p.str = h2Peer.str /\ p.strCredit = h2Peer.strCredit
        /\ p.initial = h2Peer.initial /\ p.phase = h2Peer.phase
    <3>1. h2Peer.conn - 1 \in Int
      BY <1>2 DEF Peers
    <3> QED  BY <1>2, <2>3, <3>1 DEF Peers
  <2>5. h2Peer' = [p EXCEPT !.str = st]
    BY <1>1, <1>2, <2>1, <2>3 DEF Peers
  <2> QED  BY <2>1, <2>2, <2>4, <2>5 DEF Peers
<1>8. /\ Ledger(h2', h2Slot', h2Peer', h2Link)
      /\ \A q \in H2Requests \ {r} : Quiet(h2Slot, h2Peer, q) => Quiet(h2Slot', h2Peer', q)
  <2>1. Ledger(h2, h2Slot, h2Peer, h2Link) /\ H2WindowsOpen(r)
    BY <1>1 DEF Http2Inv
  <2>2. PICK p : p = h2Peer'
    OBVIOUS
  <2>3. PICK h : h = h2'
    OBVIOUS
  <2>4. /\ Ledger(h, [h2Slot EXCEPT ![r] = x], p, h2Link)
        /\ \A q \in H2Requests \ {r} : Quiet(h2Slot, h2Peer, q) => Quiet([h2Slot EXCEPT ![r] = x], p, q)
    BY <1>3, <1>5, <1>7, <2>1, <2>2, <2>3, UnitSentKeepsLedger
  <2> QED  BY <1>6, <2>2, <2>3, <2>4
<1>9. \E c \in Callers : c.at \notin Waiting /\ h2Call' = [h2Call EXCEPT ![r] = c]
  <2>1. PICK c : c = [h2Call[r] EXCEPT !.left = @ - 1]
    OBVIOUS
  <2>2. c \in Callers /\ c.at \notin Waiting
    BY <1>1, <1>2, <2>1 DEF Callers, Waiting
  <2>3. h2Call' = [h2Call EXCEPT ![r] = c]
    BY <1>1, <1>2, <2>1
  <2> QED  BY <2>2, <2>3
<1> QED  BY <1>1, <1>8, <1>9, CallerStep

LEMMA SendStreamDataKeeps ==
    ASSUME Http2Inv, NEW r \in H2Requests, SendStreamData(r)
    PROVE  Http2Inv'
<1>1. h2Call[r].at = "tunnel" /\ h2Link' = h2Link
  BY DEF SendStreamData
<1>2. /\ h2 \in Windows /\ h2Peer \in Peers /\ h2Slot \in [H2Requests -> Slots] /\ h2Slot[r] \in Slots
      /\ h2Call \in [H2Requests -> Callers] /\ h2Call[r] \in Callers
  BY DEF Http2Inv, Ledger, Typed, CallsOK
<1>3. h2Call[r].at \notin Waiting
  BY <1>1 DEF Waiting
<1>4. CASE ~H2WindowsOpen(r)
  <2>1. h2Call' = H2Finish(r, "too_small") /\ UNCHANGED <<h2, h2Slot, h2Peer>>
    BY <1>4 DEF SendStreamData
  <2>2. \E c \in Callers : c.at \notin Waiting /\ h2Call' = [h2Call EXCEPT ![r] = c]
    BY <2>1, CallMoves DEF Http2Inv, Outcomes
  <2>3. Ledger(h2', h2Slot', h2Peer', h2Link')
    BY <1>1, <2>1 DEF Http2Inv
  <2> QED  BY <2>1, <2>2, <2>3, CallerStep
<1>5. CASE H2WindowsOpen(r)
  <2>1. PICK end \in BOOLEAN :
          /\ h2' = [h2 EXCEPT !.send = @ - 1]
          /\ h2Slot' = [h2Slot EXCEPT ![r] = IF end THEN FreeStream ELSE SendsData(@, FALSE)]
          /\ h2Call' = IF end THEN H2Finish(r, "closed") ELSE h2Call
          /\ h2Peer' = [h2Peer EXCEPT !.conn = @ - 1, !.str[r] = @ - 1, !.phase[r] = IF end THEN "done" ELSE @]
    BY <1>5 DEF SendStreamData
  <2>2. h2' \in Windows /\ h2'.send = h2.send - 1 /\ h2'.initial = h2.initial /\ h2'.goAwaySent = h2.goAwaySent
    BY <1>2, <2>1 DEF Windows
  <2>3. PICK y : y = [h2Slot[r] EXCEPT !.remote = @ - 1]
    OBVIOUS
  <2>4. y \in Slots /\ H2Active(y) = H2Active(h2Slot[r]) /\ y.remote = h2Slot[r].remote - 1 /\ y.local = h2Slot[r].local
    BY <1>2, <2>3 DEF Slots, H2Active
  <2>5. SendsData(h2Slot[r], FALSE) = y
    BY <1>2, <2>3 DEF SendsData, Slots
  <2>6. FreeStream \in Slots /\ ~H2Active(FreeStream)
    BY DEF FreeStream, Slots, H2Active
  <2>7. PICK x : x = IF end THEN FreeStream ELSE y
    OBVIOUS
  <2>8. /\ x \in Slots /\ (end => ~H2Active(x))
        /\ H2Active(x) => /\ H2Active(h2Slot[r]) /\ x.remote = h2Slot[r].remote - 1 /\ x.local = h2Slot[r].local
    BY <2>4, <2>6, <2>7
  <2>9. h2Slot' = [h2Slot EXCEPT ![r] = x]
    BY <2>1, <2>5, <2>7
  <2>10. /\ h2Peer' \in Peers /\ h2Peer'.conn = h2Peer.conn - 1 /\ h2Peer'.str = [h2Peer.str EXCEPT ![r] = @ - 1]
         /\ h2Peer'.strCredit = h2Peer.strCredit /\ h2Peer'.initial = h2Peer.initial
         /\ \A o \in H2Requests : o # r => h2Peer'.phase[o] = h2Peer.phase[o]
         /\ h2Peer'.phase[r] = IF end THEN "done" ELSE h2Peer.phase[r]
    <3>1. PICK st : st = [h2Peer.str EXCEPT ![r] = @ - 1]
      OBVIOUS
    <3>2. st \in [H2Requests -> Int]
      BY <1>2, <3>1 DEF Peers
    <3>3. PICK ph : ph = [h2Peer.phase EXCEPT ![r] = IF end THEN "done" ELSE @]
      OBVIOUS
    <3>4. /\ ph \in [H2Requests -> Phases] /\ ph[r] = IF end THEN "done" ELSE h2Peer.phase[r]
          /\ \A o \in H2Requests : o # r => ph[o] = h2Peer.phase[o]
      BY <1>2, <3>3 DEF Peers, Phases
    <3>5. PICK p : p = [h2Peer EXCEPT !.conn = h2Peer.conn - 1]
      OBVIOUS
    <3>6. /\ p \in Peers /\ p.conn = h2Peer.conn - 1 /\ p.str = h2Peer.str /\ p.strCredit = h2Peer.strCredit
          /\ p.initial = h2Peer.initial /\ p.phase = h2Peer.phase
      <4>1. h2Peer.conn - 1 \in Int
        BY <1>2 DEF Peers
      <4> QED  BY <1>2, <3>5, <4>1 DEF Peers
    <3>7. PICK u : u = [p EXCEPT !.str = st]
      OBVIOUS
    <3>8. /\ u \in Peers /\ u.conn = h2Peer.conn - 1 /\ u.str = st /\ u.strCredit = h2Peer.strCredit
          /\ u.initial = h2Peer.initial /\ u.phase = h2Peer.phase
      BY <3>2, <3>6, <3>7 DEF Peers
    <3>9. h2Peer' = [u EXCEPT !.phase = ph]
      BY <1>2, <2>1, <3>1, <3>3, <3>5, <3>7 DEF Peers
    <3>10. /\ h2Peer' \in Peers /\ h2Peer'.conn = h2Peer.conn - 1 /\ h2Peer'.str = st
           /\ h2Peer'.strCredit = h2Peer.strCredit
           /\ h2Peer'.initial = h2Peer.initial /\ h2Peer'.phase = ph
      BY <3>4, <3>8, <3>9 DEF Peers
    <3> QED  BY <3>1, <3>4, <3>10
  <2>11. h2Peer'.phase[r] = h2Peer.phase[r] \/ (h2Peer'.phase[r] = "done" /\ ~H2Active(x))
    BY <2>8, <2>10
  <2>12. /\ Ledger(h2', h2Slot', h2Peer', h2Link)
         /\ \A q \in H2Requests \ {r} : Quiet(h2Slot, h2Peer, q) => Quiet(h2Slot', h2Peer', q)
    BY <1>5, <2>2, <2>8, <2>9, <2>10, <2>11, UnitSentKeepsLedger DEF Http2Inv
  <2>13. \E c \in Callers : c.at \notin Waiting /\ h2Call' = [h2Call EXCEPT ![r] = c]
    <3>1. CASE end
      BY <2>1, <3>1, CallMoves DEF Http2Inv, Outcomes
    <3>2. CASE ~end
      BY <1>3, <2>1, <3>2, CallMoves DEF Http2Inv
    <3> QED  BY <3>1, <3>2
  <2> QED  BY <1>1, <2>12, <2>13, CallerStep
<1> QED  BY <1>4, <1>5

\* DispatchNextFrame and ReceiveResponse do the same with a frame.
LEMMA DispatchKeeps ==
    ASSUME Http2Inv, NEW r \in H2Requests, h2Call[r].at \in {"sending", "reading"}, H2Reads(r),
           NEW accepts \in BOOLEAN, NEW d, d = DispatchFrame(Head(h2Link), r, accepts), H2Apply(d),
           \/ d.out = "ok" /\ h2Slot' = d.s /\ h2Call' = h2Call
           \/ d.out # "ok" /\ h2Slot' = [d.s EXCEPT ![r] = H2Release(@)] /\ h2Call' = H2Finish(r, d.out)
    PROVE  Http2Inv'
<1>1. Current
  BY DEF Http2Inv, Current, H2Reads
<1>2. Treated(d, r)
  BY <1>1, FrameTreated
<1>3. d.out \in Outcomes
  BY <1>2 DEF Treated
<1>4. h2Call[r].at \notin Waiting
  BY DEF Waiting
<1>5. \E c \in Callers : c.at \notin Waiting /\ h2Call' = [h2Call EXCEPT ![r] = c]
  <2>1. CASE h2Call' = h2Call
    BY <1>4, <2>1, CallMoves DEF Http2Inv
  <2>2. CASE h2Call' = H2Finish(r, d.out)
    BY <1>3, <2>2, CallEnds DEF Http2Inv
  <2> QED  BY <2>1, <2>2
<1> QED  BY <1>1, <1>2, <1>5, ReaderStep DEF Current

LEMMA DispatchNextFrameKeeps ==
    ASSUME Http2Inv, NEW r \in H2Requests, DispatchNextFrame(r)
    PROVE  Http2Inv'
<1>1. h2Call[r].at = "sending" /\ H2Reads(r)
  BY DEF DispatchNextFrame
<1>2. PICK accepts \in BOOLEAN :
          LET d == DispatchFrame(Head(h2Link), r, accepts)
          IN /\ H2Apply(d)
             /\ IF d.out = "ok" THEN h2Slot' = d.s /\ UNCHANGED <<h2Call, h2Lock>>
                ELSE h2Slot' = [d.s EXCEPT ![r] = H2Release(@)] /\ h2Call' = H2Finish(r, d.out) /\ h2Lock' = H2Unlock(r)
  BY DEF DispatchNextFrame
<1>3. PICK d : d = DispatchFrame(Head(h2Link), r, accepts)
  OBVIOUS
<1> QED  BY <1>1, <1>2, <1>3, DispatchKeeps

LEMMA ReceiveResponseKeeps ==
    ASSUME Http2Inv, NEW r \in H2Requests, ReceiveResponse(r)
    PROVE  Http2Inv'
<1>1. h2Call[r].at = "reading" /\ H2Reads(r)
  BY DEF ReceiveResponse
<1>2. PICK accepts \in BOOLEAN :
          LET d == DispatchFrame(Head(h2Link), r, accepts)
          IN /\ H2Apply(d)
             /\ IF d.out = "ok" THEN h2Slot' = d.s /\ UNCHANGED <<h2Call, h2Lock>>
                ELSE h2Slot' = [d.s EXCEPT ![r] = H2Release(@)] /\ h2Call' = H2Finish(r, d.out) /\ h2Lock' = H2Unlock(r)
  BY DEF ReceiveResponse
<1>3. PICK d : d = DispatchFrame(Head(h2Link), r, accepts)
  OBVIOUS
<1> QED  BY <1>1, <1>2, <1>3, DispatchKeeps

LEMMA ReceiveStreamDataKeeps ==
    ASSUME Http2Inv, NEW r \in H2Requests, ReceiveStreamData(r)
    PROVE  Http2Inv'
<1>1. PICK f : f = Head(h2Link)
  OBVIOUS
<1>2. PICK d : d = IF f.stream = NoStream THEN ConnectionFrame(f, r)
                   ELSE IF f.type \in {"HEADERS", "CONTINUATION"} THEN SendRstStream(r, h2Slot)
                   ELSE StreamFrame(f, TRUE)
  OBVIOUS
<1>3. PICK over : over = (d.out # "ok" \/ d.s[r].closed)
  OBVIOUS
<1>4. /\ h2Call[r].at = "tunnel_reading" /\ H2Reads(r) /\ H2Apply(d)
      /\ h2Slot' = [d.s EXCEPT ![r] = IF over THEN H2Release(@) ELSE @]
      /\ h2Call' = IF over THEN H2Finish(r, IF d.out = "ok" THEN "closed" ELSE d.out)
                   ELSE [h2Call EXCEPT ![r].at = IF f.type = "DATA" THEN "tunnel" ELSE @]
  BY <1>1, <1>2, <1>3 DEF ReceiveStreamData
<1>5. Current
  BY <1>4 DEF Http2Inv, Current, H2Reads
<1>6. Treated(d, r)
  <2>1. CASE f.stream = NoStream
    BY <1>1, <1>2, <1>5, <2>1, ConnectionFrameTreated
  <2>2. CASE f.stream # NoStream /\ f.type \in {"HEADERS", "CONTINUATION"}
    BY <1>1, <1>2, <1>5, <2>2, OwnRefusalTreated
  <2>3. CASE f.stream # NoStream /\ f.type \notin {"HEADERS", "CONTINUATION"}
    BY <1>1, <1>2, <1>5, <2>3, StreamFrameTreated
  <2> QED  BY <2>1, <2>2, <2>3
<1>7. d.s \in [H2Requests -> Slots] /\ d.out \in Outcomes
  BY <1>6 DEF Treated, Ledger, Typed
<1>8. h2Slot' = d.s \/ h2Slot' = [d.s EXCEPT ![r] = H2Release(@)]
  <2>1. CASE over
    BY <1>4, <2>1
  <2>2. CASE ~over
    <3>1. h2Slot' = [d.s EXCEPT ![r] = d.s[r]]
      BY <1>4, <2>2
    <3> QED  BY <1>7, <3>1
  <2> QED  BY <2>1, <2>2
<1>9. \E c \in Callers : c.at \notin Waiting /\ h2Call' = [h2Call EXCEPT ![r] = c]
  <2>1. CASE over
    <3>1. PICK out : out = IF d.out = "ok" THEN "closed" ELSE d.out
      OBVIOUS
    <3>2. out \in Outcomes
      BY <1>7, <3>1 DEF Outcomes
    <3>3. h2Call' = H2Finish(r, out)
      BY <1>4, <2>1, <3>1
    <3> QED  BY <3>2, <3>3, CallEnds DEF Http2Inv
  <2>2. CASE ~over /\ f.type = "DATA"
    <3>1. h2Call' = [h2Call EXCEPT ![r].at = "tunnel"]
      BY <1>4, <2>2
    <3> QED  BY <3>1, CallMoves DEF Http2Inv
  <2>3. CASE ~over /\ f.type # "DATA"
    <3>1. h2Call \in [H2Requests -> Callers] /\ h2Call[r] \in Callers
      BY DEF Http2Inv, CallsOK
    <3>2. h2Call' = [h2Call EXCEPT ![r].at = h2Call[r].at]
      BY <1>4, <2>3
    <3>3. h2Call' = [h2Call EXCEPT ![r].at = "tunnel_reading"]
      BY <1>4, <3>2
    <3> QED  BY <3>3, CallMoves DEF Http2Inv
  <2> QED  BY <2>1, <2>2, <2>3
<1> QED  BY <1>4, <1>5, <1>6, <1>8, <1>9, ReaderStep DEF Current

\* A caller that gives its slot back without a frame.
LEMMA ReleaseStep ==
    ASSUME Http2Inv, NEW r \in H2Requests, UNCHANGED <<h2, h2Link, h2Peer>>,
           h2Slot' = h2Slot \/ h2Slot' = [h2Slot EXCEPT ![r] = H2Release(@)],
           \E c \in Callers : c.at \notin Waiting /\ h2Call' = [h2Call EXCEPT ![r] = c]
    PROVE  Http2Inv'
<1>1. Ledger(h2, h2Slot, h2Peer, h2Link) /\ h2Slot \in [H2Requests -> Slots]
  BY DEF Http2Inv, Ledger, Typed
<1>2. Ledger(h2, [h2Slot EXCEPT ![r] = H2Release(@)], h2Peer, h2Link)
  BY <1>1, ReleaseKeepsLedger
<1>3. Ledger(h2', h2Slot', h2Peer', h2Link')
  BY <1>1, <1>2
<1>4. \A q \in H2Requests \ {r} : h2Slot'[q] = h2Slot[q]
  BY <1>1
<1>5. \A q \in H2Requests \ {r} : Quiet(h2Slot, h2Peer, q) => Quiet(h2Slot', h2Peer', q)
  BY <1>4 DEF Quiet
<1> QED  BY <1>3, <1>5, CallerStep

LEMMA ResponseEndsKeeps ==
    ASSUME Http2Inv, NEW r \in H2Requests, ResponseEnds(r)
    PROVE  Http2Inv'
<1>1. h2Slot \in [H2Requests -> Slots]
  BY DEF Http2Inv, Ledger, Typed
<1>2. h2Slot' = h2Slot \/ h2Slot' = [h2Slot EXCEPT ![r] = H2Release(@)]
  <2>1. CASE r \in Tunnels /\ ~h2Slot[r].closed
    <3>1. h2Slot' = [h2Slot EXCEPT ![r] = h2Slot[r]]
      BY <2>1 DEF ResponseEnds
    <3> QED  BY <1>1, <3>1
  <2>2. CASE ~(r \in Tunnels /\ ~h2Slot[r].closed)
    BY <2>2 DEF ResponseEnds
  <2> QED  BY <2>1, <2>2
<1>3. \/ h2Call' = H2Finish(r, "disconnected") \/ h2Call' = H2Finish(r, "ok")
      \/ h2Call' = [h2Call EXCEPT ![r].at = "tunnel"]
  BY DEF ResponseEnds
<1>4. \E c \in Callers : c.at \notin Waiting /\ h2Call' = [h2Call EXCEPT ![r] = c]
  <2>1. "disconnected" \in Outcomes /\ "ok" \in Outcomes
    BY DEF Outcomes
  <2>2. CASE h2Call' = H2Finish(r, "disconnected")
    BY <2>1, <2>2, CallEnds DEF Http2Inv
  <2>3. CASE h2Call' = H2Finish(r, "ok")
    BY <2>1, <2>3, CallEnds DEF Http2Inv
  <2>4. CASE h2Call' = [h2Call EXCEPT ![r].at = "tunnel"]
    BY <2>4, CallMoves DEF Http2Inv
  <2> QED  BY <1>3, <2>2, <2>3, <2>4
<1>5. UNCHANGED <<h2, h2Link, h2Peer>>
  BY DEF ResponseEnds
<1> QED  BY <1>2, <1>4, <1>5, ReleaseStep

LEMMA ReadFailsKeeps ==
    ASSUME Http2Inv, NEW r \in H2Requests, ReadFails(r)
    PROVE  Http2Inv'
<1>1. /\ h2Slot' = [h2Slot EXCEPT ![r] = H2Release(@)] /\ h2Call' = H2Finish(r, "lost")
      /\ UNCHANGED <<h2, h2Link, h2Peer>>
  BY DEF ReadFails
<1>2. \E c \in Callers : c.at \notin Waiting /\ h2Call' = [h2Call EXCEPT ![r] = c]
  BY <1>1, CallMoves DEF Http2Inv, Outcomes
<1> QED  BY <1>1, <1>2, ReleaseStep

LEMMA Http2ShutdownKeeps ==
    ASSUME Http2Inv, Http2Shutdown
    PROVE  Http2Inv'
<1>1. /\ h2' = [h2 EXCEPT !.goAwaySent = TRUE] /\ h2Peer' = [h2Peer EXCEPT !.closed = TRUE]
      /\ UNCHANGED <<h2Slot, h2Call, h2Link>>
  BY DEF Http2Shutdown
<1>2. h2 \in Windows /\ h2Peer \in Peers
  BY DEF Http2Inv, Ledger, Typed
<1>3. h2' \in Windows /\ h2'.goAwaySent = TRUE /\ h2'.initial = h2.initial
  BY <1>1, <1>2 DEF Windows
<1>4. h2Peer' \in Peers /\ h2Peer'.phase = h2Peer.phase /\ h2Peer'.initial = h2Peer.initial
  BY <1>1, <1>2 DEF Peers
<1>5. Ledger(h2', h2Slot', h2Peer', h2Link')
  BY <1>1, <1>3, <1>4 DEF Http2Inv, Ledger, Typed, StreamsKnown
<1>6. CallsOK'
  BY <1>1, <1>4 DEF Http2Inv, CallsOK, Quiet
<1> QED  BY <1>5, <1>6 DEF Http2Inv

----------------------------------------
(* The peer *)

\* A frame of the peer: what it adds to the link is what the peer takes from
\* its credit or gives to this end.
LEMMA PeerSends ==
    ASSUME Http2Inv, NEW f \in Frames, PeerPosts(f), f.stream # NoStream => h2Peer.phase[f.stream] # "none",
           h2Peer' \in Peers, h2Peer'.initial = h2Peer.initial,
           h2Peer'.conn = h2Peer.conn + (IF f.type = "WINDOW_UPDATE" /\ f.stream = NoStream THEN 1 ELSE 0),
           \A q \in H2Requests :
              /\ h2Peer'.str[q] = h2Peer.str[q] + (IF f.type = "WINDOW_UPDATE" /\ f.stream = q THEN 1 ELSE 0)
              /\ h2Peer'.strCredit[q] = h2Peer.strCredit[q] - (IF f.type = "DATA" /\ f.stream = q THEN 1 ELSE 0)
              /\ h2Peer.phase[q] # "none" => h2Peer'.phase[q] # "none"
              /\ Quiet(h2Slot, h2Peer, q) => h2Peer'.phase[q] = "none"
              /\ h2Peer'.phase[q] # "reset" => h2Peer.phase[q] # "reset"
    PROVE  Http2Inv'
<1>1. h2Link' = Append(h2Link, f) /\ UNCHANGED <<h2, h2Slot, h2Call, h2Lock>>
  BY DEF PeerPosts
<1>2. h2 \in Windows /\ h2Peer \in Peers /\ h2Slot \in [H2Requests -> Slots] /\ h2Link \in Seq(Frames)
  BY DEF Http2Inv, Ledger, Typed
<1>3. h2Link' \in Seq(Frames)
  BY <1>1, <1>2
<1>4. \A type, q : /\ Counted(h2Link, type, q) \in Nat
                   /\ Counted(h2Link', type, q) = Counted(h2Link, type, q) + (IF f.type = type /\ f.stream = q THEN 1 ELSE 0)
  BY <1>1, <1>2, CountedIsNatural, AppendCounts
<1>5. StreamsKnown(h2Slot', h2Peer', h2Link')
  <2>1. \A q \in H2Requests : H2Active(h2Slot'[q]) => h2Peer'.phase[q] # "none"
    BY <1>1 DEF Http2Inv, Ledger, StreamsKnown
  <2>2. ASSUME NEW i \in DOMAIN h2Link', h2Link'[i].stream # NoStream PROVE h2Peer'.phase[h2Link'[i].stream] # "none"
    <3>1. \A g \in Frames : g.stream # NoStream => g.stream \in H2Requests
      BY DEF Frames
    <3>2. /\ DOMAIN Append(h2Link, f) = 1..(Len(h2Link) + 1) /\ Append(h2Link, f)[Len(h2Link) + 1] = f
          /\ \A j \in DOMAIN h2Link : Append(h2Link, f)[j] = h2Link[j] /\ h2Link[j] \in Frames
          /\ DOMAIN h2Link = 1..Len(h2Link) /\ Len(h2Link) \in Nat
      BY <1>2
    <3>3. CASE i \in DOMAIN h2Link
      <4>1. h2Link'[i] = h2Link[i] /\ h2Link[i] \in Frames
        BY <1>1, <3>2, <3>3
      <4>2. h2Peer.phase[h2Link[i].stream] # "none"
        BY <2>2, <3>3, <4>1 DEF Http2Inv, Ledger, StreamsKnown
      <4> QED  BY <2>2, <3>1, <4>1, <4>2
    <3>4. CASE i \notin DOMAIN h2Link
      <4>1. h2Link'[i] = f
        BY <1>1, <3>2, <3>4
      <4> QED  BY <2>2, <3>1, <4>1
    <3> QED  BY <3>3, <3>4
  <2> QED  BY <2>1, <2>2 DEF StreamsKnown
<1>6. ASSUME ~h2'.goAwaySent PROVE ConnectionAgrees(h2', h2Peer', h2Link')
  <2>1. ConnectionAgrees(h2, h2Peer, h2Link)
    BY <1>1, <1>6 DEF Http2Inv, Ledger
  <2>2. h2.send \in Int /\ h2Peer.conn \in Int
    BY <1>2 DEF Windows, Peers
  <2>3. /\ Counted(h2Link, "WINDOW_UPDATE", NoStream) \in Nat
        /\ Counted(h2Link', "WINDOW_UPDATE", NoStream) = Counted(h2Link, "WINDOW_UPDATE", NoStream)
              + (IF f.type = "WINDOW_UPDATE" /\ f.stream = NoStream THEN 1 ELSE 0)
    BY <1>4
  <2> QED  BY <1>1, <2>1, <2>2, <2>3 DEF ConnectionAgrees
<1>7. ASSUME ~h2'.goAwaySent, NEW q \in H2Requests PROVE StreamAgrees(h2Slot', h2Peer', h2Link', q)
  <2>1. StreamAgrees(h2Slot, h2Peer, h2Link, q)
    BY <1>1, <1>7 DEF Http2Inv, Ledger
  <2>2. /\ h2Slot[q].remote \in Int /\ h2Slot[q].local \in Int /\ h2Peer.str[q] \in Int /\ h2Peer.strCredit[q] \in Int
    BY <1>2 DEF Slots, Peers
  <2>3. ASSUME H2Active(h2Slot[q])
        PROVE  h2Slot[q].remote + Counted(h2Link', "WINDOW_UPDATE", q) = h2Peer'.str[q]
    <3>1. h2Slot[q].remote + Counted(h2Link, "WINDOW_UPDATE", q) = h2Peer.str[q]
      BY <2>1, <2>3 DEF StreamAgrees
    <3>2. /\ Counted(h2Link, "WINDOW_UPDATE", q) \in Nat
          /\ Counted(h2Link', "WINDOW_UPDATE", q) = Counted(h2Link, "WINDOW_UPDATE", q)
                + (IF f.type = "WINDOW_UPDATE" /\ f.stream = q THEN 1 ELSE 0)
      BY <1>4
    <3> QED  BY <2>2, <3>1, <3>2
  <2>4. ASSUME H2Active(h2Slot[q]), h2Peer'.phase[q] # "reset"
        PROVE  h2Slot[q].local = h2Peer'.strCredit[q] + Counted(h2Link', "DATA", q)
    <3>1. h2Slot[q].local = h2Peer.strCredit[q] + Counted(h2Link, "DATA", q)
      BY <2>1, <2>4 DEF StreamAgrees
    <3>2. /\ Counted(h2Link, "DATA", q) \in Nat
          /\ Counted(h2Link', "DATA", q) = Counted(h2Link, "DATA", q) + (IF f.type = "DATA" /\ f.stream = q THEN 1 ELSE 0)
      BY <1>4
    <3> QED  BY <2>2, <3>1, <3>2
  <2> QED  BY <1>1, <2>3, <2>4 DEF StreamAgrees
<1>8. Ledger(h2', h2Slot', h2Peer', h2Link')
  BY <1>1, <1>2, <1>3, <1>5, <1>6, <1>7 DEF Http2Inv, Ledger, Typed
<1>9. CallsOK'
  BY <1>1 DEF Http2Inv, CallsOK, Quiet
<1> QED  BY <1>8, <1>9 DEF Http2Inv

\* A phase of the peer that is moved.
LEMMA PhaseMoves ==
    ASSUME h2Peer \in Peers, NEW r \in H2Requests, NEW ph \in Phases \ {"none"}, h2Peer.phase[r] \notin {"none", "reset"}
    PROVE  LET p == [h2Peer EXCEPT !.phase[r] = ph]
           IN /\ p \in Peers /\ p.initial = h2Peer.initial /\ p.conn = h2Peer.conn /\ p.str = h2Peer.str
              /\ p.strCredit = h2Peer.strCredit
              /\ \A q \in H2Requests : /\ h2Peer.phase[q] # "none" => p.phase[q] # "none"
                                       /\ h2Peer.phase[q] = "none" => p.phase[q] = "none"
                                       /\ p.phase[q] # "reset" => h2Peer.phase[q] # "reset"
<1>1. PICK phase : phase = [h2Peer.phase EXCEPT ![r] = ph]
  OBVIOUS
<1>2. /\ phase \in [H2Requests -> Phases] /\ phase[r] = ph
      /\ \A q \in H2Requests : q # r => phase[q] = h2Peer.phase[q]
  BY <1>1 DEF Peers
<1>3. PICK p : p = [h2Peer EXCEPT !.phase = phase]
  OBVIOUS
<1>4. /\ p \in Peers /\ p.initial = h2Peer.initial /\ p.conn = h2Peer.conn /\ p.str = h2Peer.str
      /\ p.strCredit = h2Peer.strCredit /\ p.phase = phase
  BY <1>2, <1>3 DEF Peers
<1>5. [h2Peer EXCEPT !.phase[r] = ph] = p
  BY <1>1, <1>3 DEF Peers
<1> QED  BY <1>2, <1>4, <1>5

\* A frame that moves no window.
LEMMA PeerMovesOn ==
    ASSUME Http2Inv, NEW f \in Frames, PeerPosts(f), f.type \notin {"WINDOW_UPDATE", "DATA"},
           NEW r \in H2Requests, f.stream = r, h2Peer.phase[r] \notin {"none", "reset"},
           NEW ph \in Phases \ {"none"}, h2Peer' = [h2Peer EXCEPT !.phase[r] = ph]
    PROVE  Http2Inv'
<1>1. h2Peer \in Peers
  BY DEF Http2Inv, Ledger, Typed
<1>2. /\ h2Peer' \in Peers /\ h2Peer'.initial = h2Peer.initial /\ h2Peer'.conn = h2Peer.conn
      /\ h2Peer'.str = h2Peer.str /\ h2Peer'.strCredit = h2Peer.strCredit
      /\ \A q \in H2Requests : /\ h2Peer.phase[q] # "none" => h2Peer'.phase[q] # "none"
                               /\ h2Peer.phase[q] = "none" => h2Peer'.phase[q] = "none"
                               /\ h2Peer'.phase[q] # "reset" => h2Peer.phase[q] # "reset"
  BY <1>1, PhaseMoves
<1>3. /\ h2Peer.conn \in Int /\ \A q \in H2Requests : h2Peer.str[q] \in Int /\ h2Peer.strCredit[q] \in Int
  BY <1>1 DEF Peers
<1>4. \A q \in H2Requests :
        /\ h2Peer'.str[q] = h2Peer.str[q] + (IF f.type = "WINDOW_UPDATE" /\ f.stream = q THEN 1 ELSE 0)
        /\ h2Peer'.strCredit[q] = h2Peer.strCredit[q] - (IF f.type = "DATA" /\ f.stream = q THEN 1 ELSE 0)
  BY <1>2, <1>3
<1>5. h2Peer'.conn = h2Peer.conn + (IF f.type = "WINDOW_UPDATE" /\ f.stream = NoStream THEN 1 ELSE 0)
  BY <1>2, <1>3
<1>6. \A q \in H2Requests : Quiet(h2Slot, h2Peer, q) => h2Peer'.phase[q] = "none"
  BY <1>2 DEF Quiet
<1> QED  BY <1>2, <1>4, <1>5, <1>6, PeerSends

LEMMA PeerHeadersKeeps ==
    ASSUME Http2Inv, NEW r \in H2Requests, PeerHeaders(r)
    PROVE  Http2Inv'
<1>1. PICK kind \in {"final", "interim", "bad"}, end \in BOOLEAN, whole \in BOOLEAN :
          /\ PeerPosts([type |-> "HEADERS", stream |-> r, end |-> end, endHeaders |-> whole, kind |-> kind])
          /\ h2Peer' = [h2Peer EXCEPT !.phase[r] =
                        IF ~whole THEN (IF end THEN "block_end" ELSE "block")
                        ELSE IF end THEN "done" ELSE IF kind = "interim" THEN "open" ELSE "body"]
  BY DEF PeerHeaders
<1>2. PICK f : f = [type |-> "HEADERS", stream |-> r, end |-> end, endHeaders |-> whole, kind |-> kind]
  OBVIOUS
<1>3. f \in Frames /\ f.type = "HEADERS" /\ f.stream = r
  BY <1>2 DEF Frames
<1>4. PICK ph : ph = IF ~whole THEN (IF end THEN "block_end" ELSE "block")
                     ELSE IF end THEN "done" ELSE IF kind = "interim" THEN "open" ELSE "body"
  OBVIOUS
<1>5. ph \in Phases \ {"none"}
  BY <1>4 DEF Phases
<1>6. h2Peer.phase[r] \notin {"none", "reset"}
  BY DEF PeerHeaders
<1> QED  BY <1>1, <1>2, <1>3, <1>4, <1>5, <1>6, PeerMovesOn

LEMMA PeerContinuationKeeps ==
    ASSUME Http2Inv, NEW r \in H2Requests, PeerContinuation(r)
    PROVE  Http2Inv'
<1>1. PICK f : f = [type |-> "CONTINUATION", stream |-> r, end |-> FALSE, endHeaders |-> TRUE, kind |-> "final"]
  OBVIOUS
<1>2. f \in Frames /\ f.type = "CONTINUATION" /\ f.stream = r
  BY <1>1 DEF Frames
<1>3. PICK ph : ph = IF h2Peer.phase[r] = "block" THEN "body" ELSE "done"
  OBVIOUS
<1>4. ph \in Phases \ {"none"} /\ h2Peer.phase[r] \notin {"none", "reset"}
  BY <1>3 DEF Phases, PeerContinuation
<1>5. PeerPosts(f) /\ h2Peer' = [h2Peer EXCEPT !.phase[r] = ph]
  BY <1>1, <1>3 DEF PeerContinuation
<1> QED  BY <1>2, <1>4, <1>5, PeerMovesOn

LEMMA PeerResetKeeps ==
    ASSUME Http2Inv, NEW r \in H2Requests, PeerReset(r)
    PROVE  Http2Inv'
<1>1. PICK code \in {"no_error", "refused", "other"} : PeerPosts([type |-> "RST_STREAM", stream |-> r, code |-> code])
  BY DEF PeerReset
<1>2. PICK f : f = [type |-> "RST_STREAM", stream |-> r, code |-> code]
  OBVIOUS
<1>3. f \in Frames /\ f.type = "RST_STREAM" /\ f.stream = r
  BY <1>2 DEF Frames
<1>4. /\ "done" \in Phases \ {"none"} /\ h2Peer.phase[r] \notin {"none", "reset"}
      /\ h2Peer' = [h2Peer EXCEPT !.phase[r] = "done"]
  BY DEF Phases, PeerReset
<1> QED  BY <1>1, <1>2, <1>3, <1>4, PeerMovesOn

LEMMA PeerDataKeeps ==
    ASSUME Http2Inv, NEW r \in H2Requests, PeerData(r)
    PROVE  Http2Inv'
<1>1. PICK end \in BOOLEAN :
          /\ PeerPosts([type |-> "DATA", stream |-> r, end |-> end])
          /\ h2Peer' = [h2Peer EXCEPT !.credit = @ - 1, !.strCredit[r] = @ - 1, !.phase[r] = IF end THEN "done" ELSE @]
  BY DEF PeerData
<1>2. PICK f : f = [type |-> "DATA", stream |-> r, end |-> end]
  OBVIOUS
<1>3. f \in Frames /\ f.type = "DATA" /\ f.stream = r
  BY <1>2 DEF Frames
<1>4. h2Peer \in Peers /\ h2Peer.phase[r] = "body"
  BY DEF Http2Inv, Ledger, Typed, PeerData
<1>5. PICK sc : sc = [h2Peer.strCredit EXCEPT ![r] = @ - 1]
  OBVIOUS
<1>6. /\ sc \in [H2Requests -> Int] /\ sc[r] = h2Peer.strCredit[r] - 1
      /\ \A q \in H2Requests : q # r => sc[q] = h2Peer.strCredit[q]
  BY <1>4, <1>5 DEF Peers
<1>7. PICK c : c = h2Peer.credit - 1
  OBVIOUS
<1>8. c \in Int /\ h2Peer.conn \in Int /\ \A q \in H2Requests : h2Peer.str[q] \in Int /\ h2Peer.strCredit[q] \in Int
  BY <1>4, <1>7 DEF Peers
<1>9. PICK ph : ph = [h2Peer.phase EXCEPT ![r] = IF end THEN "done" ELSE @]
  OBVIOUS
<1>10. /\ ph \in [H2Requests -> Phases] /\ ph[r] \in {"done", "body"}
       /\ \A q \in H2Requests : q # r => ph[q] = h2Peer.phase[q]
  BY <1>4, <1>9 DEF Peers, Phases
<1>11. PICK p1 : p1 = [h2Peer EXCEPT !.credit = c]
  OBVIOUS
<1>12. /\ p1 \in Peers /\ p1.initial = h2Peer.initial /\ p1.conn = h2Peer.conn /\ p1.str = h2Peer.str
       /\ p1.phase = h2Peer.phase
  BY <1>4, <1>8, <1>11 DEF Peers
<1>13. PICK p2 : p2 = [p1 EXCEPT !.strCredit = sc]
  OBVIOUS
<1>14. /\ p2 \in Peers /\ p2.initial = h2Peer.initial /\ p2.conn = h2Peer.conn /\ p2.str = h2Peer.str
       /\ p2.strCredit = sc /\ p2.phase = h2Peer.phase
  BY <1>6, <1>12, <1>13 DEF Peers
<1>15. h2Peer' = [p2 EXCEPT !.phase = ph]
  BY <1>1, <1>4, <1>5, <1>7, <1>9, <1>11, <1>13 DEF Peers
<1>16. /\ h2Peer' \in Peers /\ h2Peer'.initial = h2Peer.initial /\ h2Peer'.conn = h2Peer.conn
       /\ h2Peer'.str = h2Peer.str /\ h2Peer'.strCredit = sc /\ h2Peer'.phase = ph
  BY <1>10, <1>14, <1>15 DEF Peers
<1>17. \A q \in H2Requests :
          /\ h2Peer'.str[q] = h2Peer.str[q] + (IF f.type = "WINDOW_UPDATE" /\ f.stream = q THEN 1 ELSE 0)
          /\ h2Peer'.strCredit[q] = h2Peer.strCredit[q] - (IF f.type = "DATA" /\ f.stream = q THEN 1 ELSE 0)
  BY <1>3, <1>6, <1>8, <1>16
<1>18. \A q \in H2Requests :
          /\ h2Peer.phase[q] # "none" => h2Peer'.phase[q] # "none"
          /\ Quiet(h2Slot, h2Peer, q) => h2Peer'.phase[q] = "none"
          /\ h2Peer'.phase[q] # "reset" => h2Peer.phase[q] # "reset"
  BY <1>4, <1>10, <1>16 DEF Quiet
<1>19. h2Peer'.conn = h2Peer.conn + (IF f.type = "WINDOW_UPDATE" /\ f.stream = NoStream THEN 1 ELSE 0)
  BY <1>3, <1>8, <1>16
<1>20. PeerPosts(f) /\ (f.stream # NoStream => h2Peer.phase[f.stream] # "none")
  BY <1>1, <1>2, <1>3, <1>4
<1> QED  BY <1>3, <1>16, <1>17, <1>18, <1>19, <1>20, PeerSends

LEMMA PeerWindowUpdateKeeps ==
    ASSUME Http2Inv, NEW r \in H2Requests \cup {NoStream}, PeerWindowUpdate(r)
    PROVE  Http2Inv'
<1>1. PICK f : f = [type |-> "WINDOW_UPDATE", stream |-> r]
  OBVIOUS
<1>2. f \in Frames /\ f.type = "WINDOW_UPDATE" /\ f.stream = r
  BY <1>1 DEF Frames
<1>3. h2Peer \in Peers /\ PeerPosts(f) /\ (r # NoStream => h2Peer.phase[r] = "open")
  BY <1>1 DEF Http2Inv, Ledger, Typed, PeerWindowUpdate
<1>4. PICK n : n = h2Peer.grants + 1
  OBVIOUS
<1>5. n \in Int /\ h2Peer.conn \in Int /\ \A q \in H2Requests : h2Peer.str[q] \in Int /\ h2Peer.strCredit[q] \in Int
  BY <1>3, <1>4 DEF Peers
<1>6. PICK g : g = [h2Peer EXCEPT !.grants = n]
  OBVIOUS
<1>7. /\ g \in Peers /\ g.initial = h2Peer.initial /\ g.conn = h2Peer.conn /\ g.str = h2Peer.str
      /\ g.strCredit = h2Peer.strCredit /\ g.phase = h2Peer.phase
  BY <1>3, <1>5, <1>6 DEF Peers
<1>8. /\ h2Peer' \in Peers /\ h2Peer'.initial = h2Peer.initial /\ h2Peer'.strCredit = h2Peer.strCredit
      /\ h2Peer'.phase = h2Peer.phase
      /\ h2Peer'.conn = h2Peer.conn + (IF r = NoStream THEN 1 ELSE 0)
      /\ \A q \in H2Requests : h2Peer'.str[q] = h2Peer.str[q] + (IF q = r THEN 1 ELSE 0)
  <2>1. CASE r = NoStream
    <3>1. PICK c : c = h2Peer.conn + 1
      OBVIOUS
    <3>2. h2Peer' = [h2Peer EXCEPT !.conn = c, !.grants = n]
      BY <1>4, <2>1, <3>1 DEF PeerWindowUpdate
    <3>3. h2Peer' = [g EXCEPT !.conn = c]
      BY <1>3, <1>6, <3>2 DEF Peers
    <3>4. c \in Int
      BY <1>5, <3>1
    <3>5. /\ h2Peer' \in Peers /\ h2Peer'.initial = h2Peer.initial /\ h2Peer'.strCredit = h2Peer.strCredit
          /\ h2Peer'.phase = h2Peer.phase /\ h2Peer'.conn = c /\ h2Peer'.str = h2Peer.str
      BY <1>7, <3>3, <3>4 DEF Peers
    <3>6. NoStream \notin H2Requests
      BY Http2Constants DEF H2Requests
    <3>7. \A q \in H2Requests : h2Peer'.str[q] = h2Peer.str[q] + (IF q = r THEN 1 ELSE 0)
      BY <1>5, <2>1, <3>5, <3>6
    <3>8. h2Peer'.conn = h2Peer.conn + (IF r = NoStream THEN 1 ELSE 0)
      BY <2>1, <3>1, <3>5
    <3> QED  BY <3>5, <3>7, <3>8
  <2>2. CASE r # NoStream
    <3>1. PICK st : st = [h2Peer.str EXCEPT ![r] = @ + 1]
      OBVIOUS
    <3>2. /\ r \in H2Requests /\ st \in [H2Requests -> Int]
          /\ \A q \in H2Requests : st[q] = h2Peer.str[q] + (IF q = r THEN 1 ELSE 0)
      BY <1>3, <1>5, <2>2, <3>1 DEF Peers
    <3>3. h2Peer' = [h2Peer EXCEPT !.str = st, !.grants = n]
      BY <1>3, <1>4, <2>2, <3>1 DEF PeerWindowUpdate, Peers
    <3>4. h2Peer' = [g EXCEPT !.str = st]
      BY <1>3, <1>6, <3>3 DEF Peers
    <3>5. /\ h2Peer' \in Peers /\ h2Peer'.initial = h2Peer.initial /\ h2Peer'.strCredit = h2Peer.strCredit
          /\ h2Peer'.phase = h2Peer.phase /\ h2Peer'.conn = h2Peer.conn /\ h2Peer'.str = st
      BY <1>7, <3>2, <3>4 DEF Peers
    <3>6. h2Peer'.conn = h2Peer.conn + (IF r = NoStream THEN 1 ELSE 0)
      BY <1>5, <2>2, <3>5
    <3> QED  BY <3>2, <3>5, <3>6
  <2> QED  BY <2>1, <2>2
<1>9. \A q \in H2Requests :
          /\ h2Peer'.str[q] = h2Peer.str[q] + (IF f.type = "WINDOW_UPDATE" /\ f.stream = q THEN 1 ELSE 0)
          /\ h2Peer'.strCredit[q] = h2Peer.strCredit[q] - (IF f.type = "DATA" /\ f.stream = q THEN 1 ELSE 0)
  BY <1>2, <1>5, <1>8
<1>10. \A q \in H2Requests :
          /\ h2Peer.phase[q] # "none" => h2Peer'.phase[q] # "none"
          /\ Quiet(h2Slot, h2Peer, q) => h2Peer'.phase[q] = "none"
          /\ h2Peer'.phase[q] # "reset" => h2Peer.phase[q] # "reset"
  BY <1>8 DEF Quiet
<1>11. h2Peer'.conn = h2Peer.conn + (IF f.type = "WINDOW_UPDATE" /\ f.stream = NoStream THEN 1 ELSE 0)
  BY <1>2, <1>8
<1>12. f.stream # NoStream => h2Peer.phase[f.stream] # "none"
  BY <1>2, <1>3
<1> QED  BY <1>2, <1>3, <1>8, <1>9, <1>10, <1>11, <1>12, PeerSends

\* SETTINGS and GOAWAY move no window when they are sent.
LEMMA PeerControlKeeps ==
    ASSUME Http2Inv, PeerControl
    PROVE  Http2Inv'
<1>1. /\ h2Peer \in Peers /\ h2 \in Windows
      /\ h2Peer.conn \in Int /\ \A q \in H2Requests : h2Peer.str[q] \in Int /\ h2Peer.strCredit[q] \in Int
  BY DEF Http2Inv, Ledger, Typed, Peers
<1>2. ASSUME PeerPosts([type |-> "SETTINGS", stream |-> NoStream, value |-> 0]),
             h2Peer' = [h2Peer EXCEPT !.settings = << 0 >>]
      PROVE  Http2Inv'
  <2>1. PICK f : f = [type |-> "SETTINGS", stream |-> NoStream, value |-> 0]
    OBVIOUS
  <2>2. f \in Frames /\ f.type = "SETTINGS" /\ f.stream = NoStream
    BY <2>1 DEF Frames
  <2>3. /\ h2Peer' \in Peers /\ h2Peer'.initial = h2Peer.initial /\ h2Peer'.conn = h2Peer.conn
        /\ h2Peer'.str = h2Peer.str /\ h2Peer'.strCredit = h2Peer.strCredit /\ h2Peer'.phase = h2Peer.phase
    BY <1>1, <1>2 DEF Peers
  <2>4. \A q \in H2Requests :
          /\ h2Peer'.str[q] = h2Peer.str[q] + (IF f.type = "WINDOW_UPDATE" /\ f.stream = q THEN 1 ELSE 0)
          /\ h2Peer'.strCredit[q] = h2Peer.strCredit[q] - (IF f.type = "DATA" /\ f.stream = q THEN 1 ELSE 0)
    BY <1>1, <2>2, <2>3
  <2>5. h2Peer'.conn = h2Peer.conn + (IF f.type = "WINDOW_UPDATE" /\ f.stream = NoStream THEN 1 ELSE 0)
    BY <1>1, <2>2, <2>3
  <2>6. \A q \in H2Requests : Quiet(h2Slot, h2Peer, q) => h2Peer'.phase[q] = "none"
    BY <2>3 DEF Quiet
  <2>7. PeerPosts(f)
    BY <1>2, <2>1
  <2> QED  BY <2>2, <2>3, <2>4, <2>5, <2>6, <2>7, PeerSends
<1>3. ASSUME NEW clean \in BOOLEAN, NEW last \in 0 .. h2.next - 1,
             PeerPosts([type |-> "GOAWAY", stream |-> NoStream, clean |-> clean, last |-> last]),
             h2Peer' = [h2Peer EXCEPT !.goneAway = TRUE,
                          !.phase = [r \in H2Requests |->
                              IF h2Slot[r].id > last /\ @[r] # "reset" THEN "done" ELSE @[r]]]
      PROVE  Http2Inv'
  <2>1. PICK f : f = [type |-> "GOAWAY", stream |-> NoStream, clean |-> clean, last |-> last]
    OBVIOUS
  <2>2. last \in Int /\ last >= 0
    BY <1>1 DEF Windows
  <2>3. f \in Frames /\ f.type = "GOAWAY" /\ f.stream = NoStream
    BY <2>1, <2>2 DEF Frames
  <2>4. PICK ph : ph = [r \in H2Requests |->
                           IF h2Slot[r].id > last /\ h2Peer.phase[r] # "reset" THEN "done" ELSE h2Peer.phase[r]]
    OBVIOUS
  <2>5. /\ ph \in [H2Requests -> Phases]
        /\ \A q \in H2Requests : /\ ph[q] = h2Peer.phase[q] \/ (ph[q] = "done" /\ h2Peer.phase[q] # "reset")
                                 /\ ~(h2Slot[q].id > last) => ph[q] = h2Peer.phase[q]
    BY <1>1, <2>4 DEF Peers, Phases
  <2>6. PICK g : g = [h2Peer EXCEPT !.goneAway = TRUE]
    OBVIOUS
  <2>7. /\ g \in Peers /\ g.initial = h2Peer.initial /\ g.conn = h2Peer.conn /\ g.str = h2Peer.str
        /\ g.strCredit = h2Peer.strCredit
    BY <1>1, <2>6 DEF Peers
  <2>8. h2Peer' = [g EXCEPT !.phase = ph]
    BY <1>1, <1>3, <2>4, <2>6 DEF Peers
  <2>9. /\ h2Peer' \in Peers /\ h2Peer'.initial = h2Peer.initial /\ h2Peer'.conn = h2Peer.conn
        /\ h2Peer'.str = h2Peer.str /\ h2Peer'.strCredit = h2Peer.strCredit /\ h2Peer'.phase = ph
    BY <2>5, <2>7, <2>8 DEF Peers
  <2>10. \A q \in H2Requests :
          /\ h2Peer'.str[q] = h2Peer.str[q] + (IF f.type = "WINDOW_UPDATE" /\ f.stream = q THEN 1 ELSE 0)
          /\ h2Peer'.strCredit[q] = h2Peer.strCredit[q] - (IF f.type = "DATA" /\ f.stream = q THEN 1 ELSE 0)
    BY <1>1, <2>3, <2>9
  <2>11. h2Peer'.conn = h2Peer.conn + (IF f.type = "WINDOW_UPDATE" /\ f.stream = NoStream THEN 1 ELSE 0)
    BY <1>1, <2>3, <2>9
  <2>12. \A q \in H2Requests : Quiet(h2Slot, h2Peer, q) => h2Peer'.phase[q] = "none"
    <3>1. ASSUME NEW q \in H2Requests, Quiet(h2Slot, h2Peer, q) PROVE h2Peer'.phase[q] = "none"
      <4>1. h2Slot[q].id = 0
        BY <3>1 DEF Quiet, FreeStream
      <4> QED  BY <2>2, <2>5, <2>9, <3>1, <4>1 DEF Quiet
    <3> QED  BY <3>1
  <2>13. \A q \in H2Requests : /\ h2Peer.phase[q] # "none" => h2Peer'.phase[q] # "none"
                               /\ h2Peer'.phase[q] # "reset" => h2Peer.phase[q] # "reset"
    BY <2>5, <2>9
  <2>14. PeerPosts(f)
    BY <1>3, <2>1
  <2> QED  BY <2>3, <2>9, <2>10, <2>11, <2>12, <2>13, <2>14, PeerSends
<1>4. ASSUME h2Peer' = [h2Peer EXCEPT !.closed = TRUE], UNCHANGED <<h2, h2Slot, h2Call, h2Lock, h2Link>>
      PROVE  Http2Inv'
  <2>1. /\ h2Peer' \in Peers /\ h2Peer'.initial = h2Peer.initial /\ h2Peer'.conn = h2Peer.conn
        /\ h2Peer'.str = h2Peer.str /\ h2Peer'.strCredit = h2Peer.strCredit /\ h2Peer'.phase = h2Peer.phase
    BY <1>1, <1>4 DEF Peers
  <2>2. Ledger(h2', h2Slot', h2Peer', h2Link')
    BY <1>4, <2>1 DEF Http2Inv, Ledger, Typed, StreamsKnown, ConnectionAgrees, StreamAgrees
  <2>3. CallsOK'
    BY <1>4, <2>1 DEF Http2Inv, CallsOK, Quiet
  <2> QED  BY <2>2, <2>3 DEF Http2Inv
<1> QED  BY <1>2, <1>3, <1>4 DEF PeerControl

----------------------------------------
(* The invariant and what it says *)

LEMMA Http2InitEstablishes ==
    ASSUME Http2Init
    PROVE  Http2Inv
<1>1. InitialWindow \in Int /\ InitialWindow >= 0
  BY Http2Constants
<1>2. h2 \in Windows /\ h2.send = InitialWindow /\ h2.initial = InitialWindow
  BY <1>1 DEF Http2Init, Windows
<1>3. FreeStream \in Slots /\ ~H2Active(FreeStream)
  BY DEF FreeStream, Slots, H2Active
<1>4. h2Slot \in [H2Requests -> Slots] /\ \A r \in H2Requests : h2Slot[r] = FreeStream
  BY <1>3 DEF Http2Init
<1>5. /\ h2Peer \in Peers /\ h2Peer.conn = InitialWindow /\ h2Peer.initial = InitialWindow
      /\ \A r \in H2Requests : h2Peer.phase[r] = "none"
  BY <1>1 DEF Http2Init, Peers, Phases
<1>6. h2Link = <<>> /\ h2Link \in Seq(Frames)
  BY DEF Http2Init
<1>7. Counted(h2Link, "WINDOW_UPDATE", NoStream) = 0
  <2>1. {i \in DOMAIN h2Link : h2Link[i].type = "WINDOW_UPDATE" /\ h2Link[i].stream = NoStream} = {}
    BY <1>6
  <2> QED  BY <2>1, FS_EmptySet DEF Counted
<1>8. StreamsKnown(h2Slot, h2Peer, h2Link)
  BY <1>3, <1>4, <1>6 DEF StreamsKnown
<1>9. ConnectionAgrees(h2, h2Peer, h2Link)
  BY <1>1, <1>2, <1>5, <1>7 DEF ConnectionAgrees
<1>10. \A r \in H2Requests : StreamAgrees(h2Slot, h2Peer, h2Link, r)
  BY <1>3, <1>4 DEF StreamAgrees
<1>11. Ledger(h2, h2Slot, h2Peer, h2Link)
  BY <1>2, <1>4, <1>5, <1>6, <1>8, <1>9, <1>10 DEF Ledger, Typed
<1>12. CallsOK
  <2>1. PICK users : h2Call = [r \in H2Requests |->
                        [at |-> IF r \in users THEN "idle" ELSE "unused", left |-> 0, id |-> 0, out |-> "none"]]
    BY DEF Http2Init
  <2>2. h2Call \in [H2Requests -> Callers]
    BY <2>1 DEF Callers, Outcomes
  <2> QED  BY <1>4, <1>5, <2>2 DEF CallsOK, Quiet
<1> QED  BY <1>11, <1>12 DEF Http2Inv

LEMMA Http2NextKeeps ==
    ASSUME Http2Inv, [Http2Next]_http2Vars
    PROVE  Http2Inv'
<1>1. ASSUME NEW r \in H2Requests, BeginRequest(r) PROVE Http2Inv'
  BY <1>1, BeginRequestKeeps
<1>2. ASSUME NEW r \in H2Requests, UploadEnds(r) PROVE Http2Inv'
  BY <1>2, UploadEndsKeeps
<1>3. ASSUME NEW r \in H2Requests, SendRequestBodyFrame(r) PROVE Http2Inv'
  BY <1>3, SendRequestBodyFrameKeeps
<1>4. ASSUME NEW r \in H2Requests, DispatchNextFrame(r) PROVE Http2Inv'
  BY <1>4, DispatchNextFrameKeeps
<1>5. ASSUME NEW r \in H2Requests, TakeReceiveLock(r) PROVE Http2Inv'
  BY <1>5, TakeReceiveLockKeeps
<1>6. ASSUME NEW r \in H2Requests, ResponseEnds(r) PROVE Http2Inv'
  BY <1>6, ResponseEndsKeeps
<1>7. ASSUME NEW r \in H2Requests, ReceiveResponse(r) PROVE Http2Inv'
  BY <1>7, ReceiveResponseKeeps
<1>8. ASSUME NEW r \in H2Requests, ReadFails(r) PROVE Http2Inv'
  BY <1>8, ReadFailsKeeps
<1>9. ASSUME NEW r \in H2Requests, ReceiveStreamData(r) PROVE Http2Inv'
  BY <1>9, ReceiveStreamDataKeeps
<1>10. ASSUME NEW r \in H2Requests, SendStreamData(r) PROVE Http2Inv'
  BY <1>10, SendStreamDataKeeps
<1>11. ASSUME Http2Shutdown PROVE Http2Inv'
  BY <1>11, Http2ShutdownKeeps
<1>12. ASSUME NEW r \in H2Requests, PeerHeaders(r) PROVE Http2Inv'
  BY <1>12, PeerHeadersKeeps
<1>13. ASSUME NEW r \in H2Requests, PeerContinuation(r) PROVE Http2Inv'
  BY <1>13, PeerContinuationKeeps
<1>14. ASSUME NEW r \in H2Requests, PeerData(r) PROVE Http2Inv'
  BY <1>14, PeerDataKeeps
<1>15. ASSUME NEW r \in H2Requests, PeerReset(r) PROVE Http2Inv'
  BY <1>15, PeerResetKeeps
<1>16. ASSUME NEW r \in H2Requests \cup {NoStream}, PeerWindowUpdate(r) PROVE Http2Inv'
  BY <1>16, PeerWindowUpdateKeeps
<1>17. ASSUME PeerControl PROVE Http2Inv'
  BY <1>17, PeerControlKeeps
<1>18. CASE UNCHANGED http2Vars
  BY <1>18 DEF http2Vars, Http2Inv, CallsOK, Quiet
<1> QED  BY <1>1, <1>2, <1>3, <1>4, <1>5, <1>6, <1>7, <1>8, <1>9, <1>10, <1>11, <1>12, <1>13, <1>14,
            <1>15, <1>16, <1>17, <1>18 DEF Http2Next, Http2Client, Http2Peer

\* The windows of both ends (FlowControlAgrees): what BeginRequest, the upload,
\* WindowUpdates, SettingsFrame and the frames under way add up to is the same
\* here and at the peer, and nothing is sent that was not granted.
THEOREM WindowsAgree == Http2Spec => []FlowControlAgrees
<1>1. Http2Init => Http2Inv
  BY Http2InitEstablishes
<1>2. Http2Inv /\ [Http2Next]_http2Vars => Http2Inv'
  BY Http2NextKeeps
<1>3. Http2Inv => FlowControlAgrees
  <2> SUFFICES ASSUME Http2Inv, ~h2.goAwaySent
               PROVE  /\ h2.send + H2InFlight("WINDOW_UPDATE", NoStream) = h2Peer.conn
                      /\ \A r \in H2Requests : H2Active(h2Slot[r]) =>
                            /\ h2Slot[r].remote + H2InFlight("WINDOW_UPDATE", r) = h2Peer.str[r]
                            /\ h2Peer.phase[r] # "reset" =>
                                  h2Slot[r].local = h2Peer.strCredit[r] + H2InFlight("DATA", r)
                      /\ h2Peer.conn >= 0
    BY DEF FlowControlAgrees
  <2>1. \A type, r : H2InFlight(type, r) = Counted(h2Link, type, r)
    BY DEF H2InFlight, Counted
  <2>2. ConnectionAgrees(h2, h2Peer, h2Link)
    BY DEF Http2Inv, Ledger
  <2>3. \A r \in H2Requests : StreamAgrees(h2Slot, h2Peer, h2Link, r)
    BY DEF Http2Inv, Ledger
  <2>4. h2.send \in Int /\ Counted(h2Link, "WINDOW_UPDATE", NoStream) \in Nat
    BY CountedIsNatural DEF Http2Inv, Ledger, Typed, Windows
  <2>5. h2.send + H2InFlight("WINDOW_UPDATE", NoStream) = h2Peer.conn /\ h2Peer.conn >= 0
    BY <2>1, <2>2, <2>4 DEF ConnectionAgrees
  <2> QED  BY <2>1, <2>3, <2>5 DEF StreamAgrees
<1> QED  BY <1>1, <1>2, <1>3, PTL DEF Http2Spec
=============================================================================
