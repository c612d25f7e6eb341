-------------------------- MODULE WskSocket_proofs --------------------------
(* No native socket leaks, is closed twice, or is used once it was closed     *)
(* (NativeSocketsSafe of WskSocket), however many sockets the provider makes  *)
(* and however late it completes what it was asked.                           *)
EXTENDS WskSocket, Integers, TLAPS

\* A record has the fields of a call, of a socket, of a native socket.
IsCall(c) ==
    c = [at |-> c.at, refs |-> c.refs, completed |-> c.completed, inFlight |-> c.inFlight,
         owned |-> c.owned, info |-> c.info, failed |-> c.failed, timedOut |-> c.timedOut,
         freed |-> c.freed]
IsSocket(s) ==
    s = [socket |-> s.socket, state |-> s.state, closeIssued |-> s.closeIssued,
         rundown |-> s.rundown, running |-> s.running, irps |-> s.irps]

Labels == {"idle", "prepared", "waiting", "cancelling", "abandoning", "result", "abandon",
           "return", "tryClose", "rundown", "closed"}

\* A connect call has not returned at these points; it has no time-out path of its own.
ConnectLabels == {"prepared", "waiting", "cancelling", "abandoning", "result"}
IoLabels == {"abandon", "return", "tryClose"}

Shapes ==
    /\ call = [o \in Ops |-> call[o]] /\ IsSocket(sock)
    /\ \A o \in Ops : IsCall(call[o]) /\ call[o].at \in Labels
    /\ \A o \in Reusable : call[o].info = None
    /\ call["Connect"].at \notin IoLabels /\ call["Connect"].info \in Natives \cup {None}
    /\ native \in [Natives -> [state : {"unborn", "open", "closed"}, closes : Nat]]
    /\ sock.socket \in Natives \cup {None}

Connecting == call["Connect"].at \in ConnectLabels

\* Who holds a reference to a context c of operation o: its caller, its completion.
CallerHolds(o, c) ==
    \/ c.at \in {"waiting", "cancelling", "abandoning", "result"} \cup IoLabels
    \/ o \in Reusable /\ c.at \in {"rundown", "closed"}

CompletionHolds(c) == c.inFlight \/ c.completed

\* The count is exact; nothing is under way before it is submitted, and a caller
\* that is no longer there to wait has handed what is under way to the completion.
RefsOK(o, c) ==
    /\ ~(c.inFlight /\ c.completed)
    /\ c.inFlight => c.owned \/ c.at \in {"waiting", "cancelling", "abandoning"}
    /\ c.at = "prepared" => c.refs = 2 /\ ~CompletionHolds(c) /\ ~c.owned
    /\ c.at # "prepared" =>
          c.refs = (IF CallerHolds(o, c) THEN 1 ELSE 0) + (IF CompletionHolds(c) THEN 1 ELSE 0)

ReferencesExact == \A o \in Ops : RefsOK(o, call[o])

\* A connect call is alone: there is no socket, and nobody sends or receives.
ConnectsAlone ==
    Connecting => /\ sock.socket = None
                  /\ \A o \in Reusable : call[o].at = "idle"

\* Operations are let in while there is a socket that nobody has begun to close;
\* one caller closes it.
RundownOK ==
    /\ sock.running => sock.socket # None /\ ~sock.closeIssued
    /\ \A o \in Ops : call[o].at = "rundown" =>
          /\ sock.closeIssued /\ sock.socket # None
          /\ \A p \in Ops : call[p].at = "rundown" => p = o

\* A native socket n that is still in the context c of the connect call: the call
\* has not returned, or it has left the socket to the completion.
Carries(c, n) ==
    n # None /\ c.info = n /\ c.refs > 0 /\ (c.owned \/ c.at \in ConnectLabels)

NativesOwned ==
    /\ call["Connect"].inFlight \/ call["Connect"].at = "prepared" => call["Connect"].info = None
    /\ sock.socket # None => native[sock.socket].state = "open"
    /\ \A n \in Natives :
        /\ native[n].closes = IF native[n].state = "closed" THEN 1 ELSE 0
        /\ Carries(call["Connect"], n) => native[n].state = "open" /\ sock.socket # n
        /\ native[n].state = "open" => sock.socket = n \/ Carries(call["Connect"], n)

\* What the provider has been asked is about a socket that is there.
AskedOfSocket == \A o \in Reusable : call[o].inFlight => sock.socket # None

WskInv ==
    /\ Shapes /\ ReferencesExact /\ ConnectsAlone /\ RundownOK /\ NativesOwned /\ AskedOfSocket

----------------------------------------
(* What a step does to one call, the others being left alone.                *)

\* Whether s may be the socket's fields when an operation is at a point: a close
\* that was begun is not forgotten, and nobody is let in after it.
SocketMay(s) ==
    /\ IsSocket(s) /\ s.socket = sock.socket
    /\ sock.closeIssued => s.closeIssued
    /\ s.running => s.socket # None /\ ~s.closeIssued

\* One call at most waits for the rundown.
MayRunDown(o, c, s) ==
    c.at = "rundown" => /\ s.closeIssued /\ s.socket # None
                        /\ \A p \in Ops : p # o => call[p].at # "rundown"

\* The Send or the Receive is the only call that changes.
LEMMA ReusableChange ==
    ASSUME WskInv, NEW o \in Reusable, NEW c, NEW s,
           IsCall(c), c.at \in Labels, c.info = None, RefsOK(o, c),
           SocketMay(s), MayRunDown(o, c, s),
           c.inFlight => s.socket # None,
           Connecting => c.at = "idle",
           call' = [call EXCEPT ![o] = c], sock' = s, native' = native
    PROVE  WskInv'
<1>1. o \in Ops /\ o # "Connect" /\ "Connect" \in Ops
  BY DEF Ops, Reusable
<1>2. \A p \in Ops : call'[p] = IF p = o THEN c ELSE call[p]
  BY DEF WskInv, Shapes
<1>3. call'["Connect"] = call["Connect"]
  BY <1>1, <1>2
<1>4. \A p \in Reusable : p \in Ops
  BY DEF Ops, Reusable
<1>5. Shapes'
  <2>1. call' = [p \in Ops |-> call'[p]]
    BY DEF WskInv, Shapes
  <2> QED  BY <1>2, <1>3, <1>4, <2>1 DEF WskInv, Shapes, SocketMay
<1>6. ReferencesExact'
  BY <1>2 DEF WskInv, ReferencesExact, RefsOK, CallerHolds, CompletionHolds
<1>7. ConnectsAlone'
  BY <1>2, <1>3, <1>4 DEF WskInv, ConnectsAlone, Connecting, SocketMay
<1>8. RundownOK'
  BY <1>1, <1>2 DEF WskInv, RundownOK, SocketMay, MayRunDown
<1>9. NativesOwned'
  BY <1>3 DEF WskInv, NativesOwned, Carries, SocketMay
<1>10. AskedOfSocket'
  BY <1>2, <1>4 DEF WskInv, AskedOfSocket, SocketMay
<1> QED  BY <1>5, <1>6, <1>7, <1>8, <1>9, <1>10 DEF WskInv

\* The connect call is the only one that changes, and it carries what it carried.
LEMMA ConnectChange ==
    ASSUME WskInv, NEW c, NEW s,
           IsCall(c), c.at \in Labels \ IoLabels, c.info = call["Connect"].info,
           RefsOK("Connect", c), SocketMay(s), MayRunDown("Connect", c, s),
           c.inFlight \/ c.at = "prepared" => c.info = None,
           c.at \in ConnectLabels => Connecting,
           \A n \in Natives : Carries(c, n) <=> Carries(call["Connect"], n),
           call' = [call EXCEPT !["Connect"] = c], sock' = s, native' = native
    PROVE  WskInv'
<1>1. "Connect" \in Ops /\ "Connect" \notin Reusable /\ \A p \in Reusable : p \in Ops
  BY DEF Ops, Reusable
<1>2. /\ \A p \in Ops : call'[p] = IF p = "Connect" THEN c ELSE call[p]
      /\ call'["Connect"] = c
  BY <1>1 DEF WskInv, Shapes
<1>3. \A p \in Reusable : call'[p] = call[p]
  BY <1>1, <1>2
<1>4. Shapes'
  <2>1. call' = [p \in Ops |-> call'[p]]
    BY DEF WskInv, Shapes
  <2> QED  BY <1>1, <1>2, <1>3, <2>1 DEF WskInv, Shapes, SocketMay
<1>5. ReferencesExact'
  BY <1>2 DEF WskInv, ReferencesExact, RefsOK, CallerHolds, CompletionHolds
<1>6. ConnectsAlone'
  BY <1>2, <1>3 DEF WskInv, ConnectsAlone, Connecting, SocketMay
<1>7. RundownOK'
  BY <1>1, <1>2 DEF WskInv, RundownOK, SocketMay, MayRunDown
<1>8. NativesOwned'
  <2>1. \A n \in Natives : Carries(call["Connect"], n)' <=> Carries(call["Connect"], n)
    BY <1>2 DEF Carries
  <2> QED  BY <1>2, <2>1 DEF WskInv, NativesOwned, SocketMay
<1>9. AskedOfSocket'
  BY <1>3 DEF WskInv, AskedOfSocket, SocketMay
<1> QED  BY <1>4, <1>5, <1>6, <1>7, <1>8, <1>9 DEF WskInv

----------------------------------------
(* The steps of a call that leave the native sockets alone.                  *)

\* The socket as it is may stay as it is.
LEMMA SocketStays == WskInv => SocketMay(sock)
BY DEF WskInv, Shapes, RundownOK, SocketMay

\* A call o moves to the point c.at. What it may do on the way: nothing new is
\* under way, and a connect call that returns carries nothing.
LEMMA CallMoves ==
    ASSUME WskInv, NEW o \in Ops, NEW c,
           IsCall(c), c.at \in Labels \ {"rundown", "closed"}, c.info = call[o].info, RefsOK(o, c),
           o = "Connect" => c.at \notin IoLabels,
           c.inFlight => call[o].inFlight,
           c.at # "prepared",
           o = "Connect" /\ c.at \in ConnectLabels => Connecting,
           o = "Connect" => \A n \in Natives : Carries(c, n) <=> Carries(call[o], n),
           o \in Reusable /\ Connecting => c.at = "idle",
           call' = [call EXCEPT ![o] = c], UNCHANGED <<sock, native>>
    PROVE  WskInv'
<1>1. SocketMay(sock) /\ MayRunDown(o, c, sock)
  BY SocketStays DEF MayRunDown
<1>2. CASE o \in Reusable
  <2>1. c.info = None /\ (c.inFlight => sock.socket # None)
    BY <1>2 DEF WskInv, Shapes, AskedOfSocket
  <2> QED  BY <1>1, <1>2, <2>1, ReusableChange
<1>3. CASE o = "Connect"
  <2>1. c.inFlight \/ c.at = "prepared" => c.info = None
    BY <1>3 DEF WskInv, NativesOwned
  <2> QED  BY <1>1, <1>3, <2>1, ConnectChange
<1> QED  BY <1>2, <1>3 DEF Ops, Reusable

\* At the points of a wait the connect call is a connect call, and no other is.
LEMMA WaitFacts ==
    ASSUME WskInv, NEW o \in Ops, call[o].at \in ConnectLabels
    PROVE  /\ IsCall(call[o]) /\ RefsOK(o, call[o])
           /\ o = "Connect" => Connecting
           /\ o \in Reusable => ~Connecting
<1>1. IsCall(call[o]) /\ RefsOK(o, call[o])
  BY DEF WskInv, Shapes, ReferencesExact
<1>2. o \in Reusable => ~Connecting
  BY DEF WskInv, ConnectsAlone, ConnectLabels
<1> QED  BY <1>1, <1>2 DEF Connecting

\* The wait of a caller ends with the event or with the cancellation.
LEMMA InvWaitEnds ==
    ASSUME WskInv, NEW o \in Ops, WaitEnds(o)
    PROVE  WskInv'
<1>1. call[o].at = "waiting" /\ UNCHANGED <<sock, native>>
  BY DEF WaitEnds
<1>2. PICK c : /\ call' = [call EXCEPT ![o] = c]
               /\ \/ c = [call[o] EXCEPT !.at = "result"] /\ ~call[o].inFlight
                  \/ c = [call[o] EXCEPT !.at = "cancelling", !.timedOut = TRUE]
  BY DEF WaitEnds, EventSet
<1>3. /\ IsCall(call[o]) /\ RefsOK(o, call[o]) /\ (o = "Connect" => Connecting)
      /\ o \in Reusable => ~Connecting
  BY <1>1, WaitFacts DEF ConnectLabels
<1>4. /\ IsCall(c) /\ c.at \in {"result", "cancelling"} /\ c.info = call[o].info
      /\ c.refs = call[o].refs /\ c.inFlight = call[o].inFlight
      /\ c.completed = call[o].completed /\ c.owned = call[o].owned
  BY <1>2, <1>3 DEF IsCall
<1>5. RefsOK(o, c)
  <2>1. c = [call[o] EXCEPT !.at = "cancelling", !.timedOut = TRUE] => c.at = "cancelling"
    BY <1>3 DEF IsCall
  <2>2. call[o].inFlight => c.at = "cancelling"
    BY <1>2, <2>1
  <2> QED  BY <1>1, <1>3, <1>4, <2>2 DEF RefsOK, CallerHolds, CompletionHolds
<1>6. \A n \in Natives : Carries(c, n) <=> Carries(call[o], n)
  BY <1>1, <1>4 DEF Carries, ConnectLabels
<1> QED  BY <1>1, <1>2, <1>3, <1>4, <1>5, <1>6, CallMoves DEF Labels, IoLabels

\* The wait after IoCancelIrp finds the completion, or gives up.
LEMMA InvCancelWaitEnds ==
    ASSUME WskInv, NEW o \in Ops, CancelWaitEnds(o)
    PROVE  WskInv'
<1>1. call[o].at = "cancelling" /\ UNCHANGED <<sock, native>>
  BY DEF CancelWaitEnds
<1>2. PICK c : /\ call' = [call EXCEPT ![o] = c]
               /\ \/ c = [call[o] EXCEPT !.at = "result", !.failed = TRUE] /\ ~call[o].inFlight
                  \/ c = [call[o] EXCEPT !.at = "abandoning", !.failed = TRUE]
  BY DEF CancelWaitEnds, EventSet
<1>3. /\ IsCall(call[o]) /\ RefsOK(o, call[o]) /\ (o = "Connect" => Connecting)
      /\ o \in Reusable => ~Connecting
  BY <1>1, WaitFacts DEF ConnectLabels
<1>4. /\ IsCall(c) /\ c.at \in {"result", "abandoning"} /\ c.info = call[o].info
      /\ c.refs = call[o].refs /\ c.inFlight = call[o].inFlight
      /\ c.completed = call[o].completed /\ c.owned = call[o].owned
  BY <1>2, <1>3 DEF IsCall
<1>5. RefsOK(o, c)
  <2>1. c = [call[o] EXCEPT !.at = "abandoning", !.failed = TRUE] => c.at = "abandoning"
    BY <1>3 DEF IsCall
  <2>2. call[o].inFlight => c.at = "abandoning"
    BY <1>2, <2>1
  <2> QED  BY <1>1, <1>3, <1>4, <2>2 DEF RefsOK, CallerHolds, CompletionHolds
<1>6. \A n \in Natives : Carries(c, n) <=> Carries(call[o], n)
  BY <1>1, <1>4 DEF Carries, ConnectLabels
<1> QED  BY <1>1, <1>2, <1>3, <1>4, <1>5, <1>6, CallMoves DEF Labels, IoLabels

\* A caller that gave up leaves its context to the completion.
LEMMA InvHandOver ==
    ASSUME WskInv, NEW o \in Ops, HandOver(o)
    PROVE  WskInv'
<1>1. call[o].at = "abandoning" /\ UNCHANGED <<sock, native>>
  BY DEF HandOver
<1>2. PICK c : /\ call' = [call EXCEPT ![o] = c]
               /\ c = [call[o] EXCEPT !.owned = TRUE, !.at = "result"]
  BY DEF HandOver
<1>3. /\ IsCall(call[o]) /\ RefsOK(o, call[o]) /\ (o = "Connect" => Connecting)
      /\ o \in Reusable => ~Connecting
  BY <1>1, WaitFacts DEF ConnectLabels
<1>4. /\ IsCall(c) /\ c.at = "result" /\ c.info = call[o].info /\ c.owned
      /\ c.refs = call[o].refs /\ c.inFlight = call[o].inFlight
      /\ c.completed = call[o].completed
  BY <1>2, <1>3 DEF IsCall
<1>5. RefsOK(o, c)
  BY <1>1, <1>3, <1>4 DEF RefsOK, CallerHolds, CompletionHolds
<1>6. \A n \in Natives : Carries(c, n) <=> Carries(call[o], n)
  BY <1>1, <1>4 DEF Carries, ConnectLabels
<1> QED  BY <1>1, <1>2, <1>3, <1>4, <1>5, <1>6, CallMoves DEF Labels, IoLabels

\* The provider takes the IRP, or refuses it and the completion reference goes.
LEMMA InvSubmit ==
    ASSUME WskInv, NEW o \in Ops, Submit(o)
    PROVE  WskInv'
<1>1. call[o].at = "prepared" /\ native' = native /\ (o \in Reusable => sock.running)
  BY DEF Submit
<1>2. PICK c : /\ call' = [call EXCEPT ![o] = c]
               /\ \/ c = [call[o] EXCEPT !.at = "waiting", !.inFlight = TRUE]
                  \/ c = [call[o] EXCEPT !.at = "result", !.refs = 1, !.failed = TRUE]
  BY ZenonT(40) DEF Submit
<1>3. PICK s : /\ sock' = s
               /\ s = IF o \in Reusable THEN [sock EXCEPT !.rundown = @ + 1] ELSE sock
  BY DEF Submit
<1>4. /\ IsCall(call[o]) /\ RefsOK(o, call[o]) /\ (o = "Connect" => Connecting)
      /\ o \in Reusable => ~Connecting
  BY <1>1, WaitFacts DEF ConnectLabels
<1>5. /\ IsCall(c) /\ c.at \in {"waiting", "result"} /\ c.info = call[o].info
      /\ c.completed = call[o].completed /\ c.owned = call[o].owned
      /\ c.at = "waiting" => c.inFlight /\ c.refs = call[o].refs
      /\ c.at = "result" => c.inFlight = call[o].inFlight /\ c.refs = 1
  BY <1>2, <1>4 DEF IsCall
<1>6. RefsOK(o, c)
  BY <1>1, <1>4, <1>5 DEF RefsOK, CallerHolds, CompletionHolds
<1>7. SocketMay(s) /\ MayRunDown(o, c, s)
  BY <1>3, <1>5, SocketStays DEF SocketMay, MayRunDown, IsSocket
<1>8. CASE o \in Reusable
  <2>1. c.info = None /\ s.socket # None
    BY <1>1, <1>5, <1>7, <1>8 DEF WskInv, Shapes, RundownOK, SocketMay
  <2> QED  BY <1>1, <1>2, <1>3, <1>4, <1>5, <1>6, <1>7, <1>8, <2>1, ReusableChange DEF Labels
<1>9. CASE o = "Connect"
  <2>1. call[o].info = None
    BY <1>1, <1>9 DEF WskInv, NativesOwned
  <2>2. \A n \in Natives : Carries(c, n) <=> Carries(call[o], n)
    BY <1>5, <2>1 DEF Carries
  <2> QED  BY <1>1, <1>2, <1>3, <1>4, <1>5, <1>6, <1>7, <1>9, <2>1, <2>2, ConnectChange
           DEF Labels, IoLabels
<1> QED  BY <1>8, <1>9 DEF Ops, Reusable

\* An operation that the rundown refuses releases its context unsubmitted.
LEMMA InvNotSubmitted ==
    ASSUME WskInv, NEW o \in Ops, NotSubmitted(o)
    PROVE  WskInv'
<1>1. /\ call[o].at = "prepared" /\ o \in Reusable
      /\ call' = [call EXCEPT ![o] = NoCall] /\ UNCHANGED <<sock, native>>
  BY DEF NotSubmitted
<1>2. /\ IsCall(NoCall) /\ NoCall.at = "idle" /\ NoCall.info = None /\ ~NoCall.inFlight
      /\ RefsOK(o, NoCall)
  BY DEF NoCall, IsCall, RefsOK, CallerHolds, CompletionHolds, IoLabels
<1>3. SocketMay(sock) /\ MayRunDown(o, NoCall, sock)
  BY <1>2, SocketStays DEF MayRunDown
<1> QED  BY <1>1, <1>2, <1>3, ReusableChange DEF Labels

\* ReleaseIoRundown, AbandonReusableIrp: a timed-out call on its way to the close.
LEMMA InvTimesOut ==
    ASSUME WskInv, NEW o \in Ops, ReleaseIoRundown(o) \/ AbandonReusableIrp(o)
    PROVE  WskInv'
<1>1. /\ call[o].at \in {"result", "abandon"} /\ native' = native
      /\ o \in Reusable
  BY DEF ReleaseIoRundown, AbandonReusableIrp, WskInv, Shapes, Ops, Reusable, IoLabels
<1>2. PICK c : /\ call' = [call EXCEPT ![o] = c]
               /\ \/ c = [call[o] EXCEPT !.at = "abandon"]
                  \/ c = [call[o] EXCEPT !.at = "return"]
                  \/ c = [call[o] EXCEPT !.at = "tryClose"]
  BY DEF ReleaseIoRundown, AbandonReusableIrp
<1>3. PICK s : /\ sock' = s /\ IsSocket(s) /\ s.socket = sock.socket
               /\ s.running = sock.running /\ s.closeIssued = sock.closeIssued
  BY ZenonT(40) DEF ReleaseIoRundown, AbandonReusableIrp, IsSocket, WskInv, Shapes
<1>4. IsCall(call[o]) /\ RefsOK(o, call[o]) /\ ~Connecting /\ call[o].info = None
  BY <1>1 DEF WskInv, Shapes, ReferencesExact, ConnectsAlone
<1>5. /\ IsCall(c) /\ c.at \in IoLabels /\ c.info = call[o].info
      /\ c.refs = call[o].refs /\ c.inFlight = call[o].inFlight
      /\ c.completed = call[o].completed /\ c.owned = call[o].owned
  BY <1>2, <1>4 DEF IsCall, IoLabels
<1>6. RefsOK(o, c)
  BY <1>1, <1>4, <1>5 DEF RefsOK, CallerHolds, CompletionHolds, IoLabels
<1>7. SocketMay(s) /\ MayRunDown(o, c, s) /\ (c.inFlight => s.socket # None)
  BY <1>1, <1>3, <1>5, SocketStays
     DEF SocketMay, MayRunDown, IoLabels, WskInv, AskedOfSocket
<1> QED  BY <1>1, <1>2, <1>3, <1>4, <1>5, <1>6, <1>7, ReusableChange DEF Labels, IoLabels

\* What releasing a reference makes of a context.
LEMMA Released ==
    ASSUME NEW c, NEW nat, IsCall(c)
    PROVE  LET r == ReleaseContext(c, nat).c
           IN /\ IsCall(r) /\ r.at = c.at /\ r.info = c.info /\ r.owned = c.owned
              /\ r.inFlight = c.inFlight /\ r.completed = c.completed
              /\ r.refs = IF c.refs # 1 THEN c.refs - 1 ELSE 0
BY DEF ReleaseContext, IsCall

\* ... and of the native sockets.
LEMMA ReleasedNatives ==
    ASSUME NEW c, NEW nat
    PROVE  ReleaseContext(c, nat).nat =
               IF c.refs = 1 /\ c.owned THEN CloseNative(nat, c.info) ELSE nat
BY DEF ReleaseContext

\* A Send or a Receive returns and releases its reference.
LEMMA InvSendReceiveReturns ==
    ASSUME WskInv, NEW o \in Ops, SendReceiveReturns(o)
    PROVE  WskInv'
<1>1. o \in Reusable /\ call[o].at = "return"
  BY DEF SendReceiveReturns
<1>2. IsCall(call[o]) /\ RefsOK(o, call[o]) /\ ~Connecting /\ call[o].info = None
  BY <1>1 DEF WskInv, Shapes, ReferencesExact, ConnectsAlone
<1>3. PICK r : r = ReleaseContext(call[o], native).c
  OBVIOUS
<1>4. PICK c : c = [r EXCEPT !.at = "idle"]
  OBVIOUS
<1>5. /\ native' = native /\ sock' = sock /\ call' = [call EXCEPT ![o] = c]
  BY <1>2, <1>3, <1>4, ReleasedNatives DEF SendReceiveReturns, CloseNative
<1>6. /\ IsCall(r) /\ r.info = None
      /\ r.inFlight = call[o].inFlight /\ r.completed = call[o].completed /\ r.owned = call[o].owned
      /\ r.refs = IF call[o].refs # 1 THEN call[o].refs - 1 ELSE 0
  BY <1>2, <1>3, Released
<1>7. /\ IsCall(c) /\ c.at = "idle" /\ c.info = None
      /\ c.inFlight = call[o].inFlight /\ c.completed = call[o].completed /\ c.owned = call[o].owned
      /\ c.refs = IF call[o].refs # 1 THEN call[o].refs - 1 ELSE 0
  BY <1>4, <1>6 DEF IsCall
<1>8. RefsOK(o, c)
  BY <1>1, <1>2, <1>7 DEF RefsOK, CallerHolds, CompletionHolds, IoLabels
<1>9. SocketMay(sock) /\ MayRunDown(o, c, sock) /\ (c.inFlight => sock.socket # None)
  BY <1>1, <1>7, SocketStays DEF MayRunDown, WskInv, AskedOfSocket
<1> QED  BY <1>1, <1>5, <1>7, <1>8, <1>9, ReusableChange DEF Labels

\* Whoever wins the close, a timed-out call or the owner, waits for the rundown alone.
LEMMA InvCloseBegins ==
    ASSUME WskInv, NEW o \in Ops, WinsClose,
           (o \in Reusable /\ call[o].at = "tryClose") \/ (o = "Connect" /\ call[o].at = "idle"),
           sock' = [sock EXCEPT !.closeIssued = TRUE, !.running = FALSE],
           call' = [call EXCEPT ![o].at = "rundown"], native' = native
    PROVE  WskInv'
<1>1. PICK c : c = [call[o] EXCEPT !.at = "rundown"]
  OBVIOUS
<1>2. PICK s : s = [sock EXCEPT !.closeIssued = TRUE, !.running = FALSE]
  OBVIOUS
<1>3. call' = [call EXCEPT ![o] = c] /\ sock' = s
  BY <1>1, <1>2
<1>4. IsCall(call[o]) /\ RefsOK(o, call[o]) /\ IsSocket(sock)
  BY DEF WskInv, Shapes, ReferencesExact
<1>5. /\ IsCall(c) /\ c.at = "rundown" /\ c.info = call[o].info /\ c.owned = call[o].owned
      /\ c.refs = call[o].refs /\ c.inFlight = call[o].inFlight
      /\ c.completed = call[o].completed /\ c.owned = call[o].owned
  BY <1>1, <1>4 DEF IsCall
<1>6. /\ IsSocket(s) /\ s.socket = sock.socket /\ s.closeIssued /\ ~s.running /\ s.socket # None
  BY <1>2, <1>4 DEF IsSocket, WinsClose
<1>7. SocketMay(s) /\ MayRunDown(o, c, s)
  BY <1>6 DEF SocketMay, MayRunDown, WskInv, RundownOK, WinsClose
<1>8. RefsOK(o, c)
  BY <1>4, <1>5 DEF RefsOK, CallerHolds, CompletionHolds, IoLabels, Ops, Reusable
<1>9. CASE o \in Reusable /\ call[o].at = "tryClose"
  <2>1. c.info = None /\ ~Connecting
    BY <1>5, <1>9 DEF WskInv, Shapes, ConnectsAlone
  <2> QED  BY <1>3, <1>5, <1>6, <1>7, <1>8, <1>9, <2>1, ReusableChange DEF Labels
<1>10. CASE o = "Connect" /\ call[o].at = "idle"
  <2>1. c.inFlight \/ c.at = "prepared" => c.info = None
    BY <1>5, <1>10 DEF WskInv, NativesOwned
  <2>2. \A n \in Natives : Carries(c, n) <=> Carries(call["Connect"], n)
    BY <1>5, <1>10 DEF Carries, ConnectLabels
  <2> QED  BY <1>3, <1>5, <1>6, <1>7, <1>8, <1>10, <2>1, <2>2, ConnectChange
           DEF Labels, IoLabels, ConnectLabels
<1> QED  BY <1>9, <1>10

\* A timed-out call closes the socket unless somebody else has begun to.
LEMMA InvTryClose ==
    ASSUME WskInv, NEW o \in Ops, TryClose(o)
    PROVE  WskInv'
<1>1. call[o].at = "tryClose" /\ o \in Reusable
  BY DEF TryClose, WskInv, Shapes, Ops, Reusable, IoLabels
<1>2. CASE WinsClose
  <2>1. /\ sock' = [sock EXCEPT !.closeIssued = TRUE, !.running = FALSE]
        /\ call' = [call EXCEPT ![o].at = "rundown"] /\ native' = native
    BY <1>2 DEF TryClose
  <2>2. (o \in Reusable /\ call[o].at = "tryClose") \/ (o = "Connect" /\ call[o].at = "idle")
    BY <1>1
  <2> QED  BY <1>2, <2>1, <2>2, InvCloseBegins
<1>3. CASE ~WinsClose
  <2>1. PICK c : c = [call[o] EXCEPT !.at = "return"]
    OBVIOUS
  <2>2. call' = [call EXCEPT ![o] = c] /\ UNCHANGED <<sock, native>>
    BY <1>3, <2>1 DEF TryClose
  <2>3. IsCall(call[o]) /\ RefsOK(o, call[o]) /\ ~Connecting
    BY <1>1 DEF WskInv, Shapes, ReferencesExact, ConnectsAlone
  <2>4. /\ IsCall(c) /\ c.at = "return" /\ c.info = call[o].info
        /\ c.refs = call[o].refs /\ c.inFlight = call[o].inFlight
        /\ c.completed = call[o].completed /\ c.owned = call[o].owned
    BY <2>1, <2>3 DEF IsCall
  <2>5. RefsOK(o, c)
    BY <1>1, <2>3, <2>4 DEF RefsOK, CallerHolds, CompletionHolds, IoLabels
  <2>6. o # "Connect"
    BY <1>1 DEF Reusable
  <2> QED  BY <1>1, <2>2, <2>3, <2>4, <2>5, <2>6, CallMoves DEF Labels
<1> QED  BY <1>2, <1>3

\* The owner closes the socket when it has no operation of its own.
LEMMA InvOwnerCloses == WskInv /\ OwnerCloses => WskInv'
<1> SUFFICES ASSUME WskInv, OwnerCloses PROVE WskInv'
  OBVIOUS
<1>1. "Connect" \in Ops
  BY DEF Ops
<1> QED  BY <1>1, InvCloseBegins DEF OwnerCloses

----------------------------------------
(* The steps that move a native socket, or more than one call.               *)

\* The connect call changes and may leave a socket behind: all of the invariant
\* but the natives themselves.
LEMMA ConnectFrame ==
    ASSUME WskInv, NEW c, NEW s,
           IsCall(c), c.at \in Labels \ IoLabels,
           c.at = "rundown" => call["Connect"].at = "rundown" /\ s = sock,
           c.info \in Natives \cup {None}, RefsOK("Connect", c),
           IsSocket(s), s.socket \in Natives \cup {None},
           s.running => s.socket # None /\ ~s.closeIssued,
           (s.socket = sock.socket /\ (sock.closeIssued => s.closeIssued)) \/ Connecting,
           c.at \in ConnectLabels => /\ s.socket = None
                                     /\ \A p \in Reusable : call[p].at = "idle",
           call' = [call EXCEPT !["Connect"] = c], sock' = s,
           native' \in [Natives -> [state : {"unborn", "open", "closed"}, closes : Nat]]
    PROVE  /\ Shapes' /\ ReferencesExact' /\ ConnectsAlone' /\ RundownOK' /\ AskedOfSocket'
           /\ call'["Connect"] = c
<1>1. "Connect" \in Ops /\ "Connect" \notin Reusable /\ \A p \in Reusable : p \in Ops
  BY DEF Ops, Reusable
<1>2. /\ \A p \in Ops : call'[p] = IF p = "Connect" THEN c ELSE call[p]
      /\ call'["Connect"] = c
  BY <1>1 DEF WskInv, Shapes
<1>3. \A p \in Reusable : call'[p] = call[p]
  BY <1>1, <1>2
<1>4. Shapes'
  <2>1. call' = [p \in Ops |-> call'[p]]
    BY DEF WskInv, Shapes
  <2> QED  BY <1>1, <1>2, <1>3, <2>1 DEF WskInv, Shapes
<1>5. ReferencesExact'
  BY <1>2 DEF WskInv, ReferencesExact, RefsOK, CallerHolds, CompletionHolds
<1>6. ConnectsAlone'
  BY <1>2, <1>3 DEF ConnectsAlone, Connecting
<1>7. Connecting => /\ \A p \in Reusable : call[p].at = "idle" /\ ~call[p].inFlight
                    /\ sock.socket = None
  BY DEF WskInv, ConnectsAlone, AskedOfSocket
<1>8. RundownOK'
  <2>1. \A p \in Ops : call'[p].at = "rundown" => call[p].at = "rundown"
    BY <1>2
  <2>2. \A p \in Ops : call'[p].at = "rundown" => ~Connecting
    BY <1>7, <2>1 DEF Connecting, ConnectLabels, Ops, Reusable
  <2> QED  BY <1>2, <2>1, <2>2 DEF WskInv, RundownOK
<1>9. AskedOfSocket'
  BY <1>3, <1>7 DEF WskInv, AskedOfSocket
<1> QED  BY <1>2, <1>4, <1>5, <1>6, <1>8, <1>9

\* The socket that a connect call carries is closed, if it carries one at all.
LEMMA CarriedCloses ==
    ASSUME WskInv, NEW c,
           call["Connect"].info # None => Carries(call["Connect"], call["Connect"].info),
           native' = CloseNative(native, call["Connect"].info),
           call'["Connect"] = c, sock' = sock,
           c.inFlight \/ c.at = "prepared" => c.info = None,
           \A n \in Natives : ~Carries(c, n)
    PROVE  /\ NativesOwned'
           /\ native' \in [Natives -> [state : {"unborn", "open", "closed"}, closes : Nat]]
<1>1. PICK i : i = call["Connect"].info
  OBVIOUS
<1>2. /\ native \in [Natives -> [state : {"unborn", "open", "closed"}, closes : Nat]]
      /\ i \in Natives \cup {None} /\ sock.socket \in Natives \cup {None}
      /\ None \notin Natives
  BY <1>1 DEF WskInv, Shapes, None, Natives
<1>3. CASE i = None
  <2>1. native' = native
    BY <1>1, <1>3 DEF CloseNative
  <2>2. \A n \in Natives : ~Carries(call["Connect"], n) /\ ~Carries(call["Connect"], n)'
    BY <1>1, <1>3 DEF Carries
  <2> QED  BY <1>2, <2>1, <2>2 DEF WskInv, NativesOwned
<1>4. CASE i # None
  <2>1. i \in Natives /\ native[i].state = "open" /\ sock.socket # i /\ native[i].closes = 0
    BY <1>1, <1>2, <1>4 DEF WskInv, NativesOwned
  <2>2. native' = [native EXCEPT ![i].state = "closed", ![i].closes = @ + 1]
    BY <1>1, <1>4 DEF CloseNative
  <2>3. /\ native' \in [Natives -> [state : {"unborn", "open", "closed"}, closes : Nat]]
        /\ \A n \in Natives : n # i => native'[n] = native[n]
        /\ native'[i].state = "closed" /\ native'[i].closes = 1
    BY <1>2, <2>1, <2>2
  <2>4. \A n \in Natives : /\ Carries(call["Connect"], n) => n = i
                           /\ ~Carries(call["Connect"], n)'
    BY <1>1 DEF Carries
  <2> QED  BY <1>2, <2>1, <2>3, <2>4 DEF WskInv, NativesOwned
<1> QED  BY <1>3, <1>4

\* A call begins: its context has the two references of caller and completion.
LEMMA InvPrepare ==
    ASSUME WskInv, NEW o \in Ops, Prepare(o)
    PROVE  WskInv'
<1>1. /\ Quiet(o) /\ call' = [call EXCEPT ![o] = [NoCall EXCEPT !.at = "prepared", !.refs = 2]]
      /\ native' = native
      /\ sock' = IF o \in Reusable THEN [sock EXCEPT !.irps = @ \cup {o}] ELSE sock
  BY DEF Prepare
<1>2. PICK c : c = [NoCall EXCEPT !.at = "prepared", !.refs = 2]
  OBVIOUS
<1>3. /\ IsCall(c) /\ c.at = "prepared" /\ c.info = None /\ c.refs = 2
      /\ ~c.inFlight /\ ~c.completed /\ ~c.owned
  BY <1>2 DEF NoCall, IsCall
<1>4. RefsOK(o, c)
  BY <1>3 DEF RefsOK, CompletionHolds
<1>5. CASE o \in Reusable
  <2>1. sock.socket # None /\ ~Connecting
    BY <1>5 DEF Prepare, Reusable, WskInv, ConnectsAlone
  <2>2. PICK s : s = [sock EXCEPT !.irps = @ \cup {o}]
    OBVIOUS
  <2>3. SocketMay(s) /\ MayRunDown(o, c, s)
    BY <1>3, <2>2, SocketStays DEF SocketMay, MayRunDown, IsSocket
  <2> QED  BY <1>1, <1>2, <1>3, <1>4, <1>5, <2>1, <2>2, <2>3, ReusableChange DEF Labels
<1>6. CASE o = "Connect"
  <2>1. sock.socket = None /\ \A p \in Reusable : Quiet(p)
    BY <1>6 DEF Prepare
  <2>2. sock' = sock
    BY <1>1, <1>6 DEF Reusable
  <2>3. /\ Shapes' /\ ReferencesExact' /\ ConnectsAlone' /\ RundownOK' /\ AskedOfSocket'
        /\ call'["Connect"] = c
    BY <1>1, <1>2, <1>3, <1>4, <1>6, <2>1, <2>2, ConnectFrame
       DEF WskInv, Shapes, RundownOK, Quiet, Labels, IoLabels
  <2>4. \A n \in Natives : ~Carries(call["Connect"], n) /\ ~Carries(call["Connect"], n)'
    <3>1. call["Connect"].refs = 0 /\ call'["Connect"].info = None
      BY <1>1, <1>3, <1>6, <2>3 DEF Quiet
    <3> QED  BY <3>1 DEF Carries
  <2>5. NativesOwned'
    BY <1>1, <1>3, <2>2, <2>3, <2>4 DEF WskInv, NativesOwned
  <2> QED  BY <2>3, <2>5 DEF WskInv
<1> QED  BY <1>5, <1>6 DEF Ops, Reusable

\* The provider completes an IRP; for a connect it may bring a native socket.
LEMMA InvProviderCompletes ==
    ASSUME WskInv, NEW o \in Ops, ProviderCompletes(o)
    PROVE  WskInv'
<1>1. /\ call[o].inFlight /\ sock' = sock /\ IsCall(call[o]) /\ RefsOK(o, call[o])
      /\ call[o].at \in Labels
  BY DEF ProviderCompletes, WskInv, Shapes, ReferencesExact
<1>2. CASE /\ native' = native
           /\ call' = [call EXCEPT ![o].inFlight = FALSE, ![o].completed = TRUE,
                                   ![o].failed = (o = "Connect")]
  <2>1. PICK c : c = [call[o] EXCEPT !.inFlight = FALSE, !.completed = TRUE,
                                     !.failed = (o = "Connect")]
    OBVIOUS
  <2>2. call' = [call EXCEPT ![o] = c]
    BY <1>2, <2>1
  <2>3. /\ IsCall(c) /\ c.at = call[o].at /\ c.info = call[o].info /\ c.owned = call[o].owned
        /\ c.refs = call[o].refs /\ ~c.inFlight /\ c.completed
    BY <1>1, <2>1 DEF IsCall
  <2>4. RefsOK(o, c)
    BY <1>1, <2>3 DEF RefsOK, CallerHolds, CompletionHolds
  <2>5. SocketMay(sock) /\ MayRunDown(o, c, sock)
    BY <2>3, SocketStays DEF MayRunDown, WskInv, RundownOK
  <2>6. CASE o \in Reusable
    BY <1>1, <1>2, <2>2, <2>3, <2>4, <2>5, <2>6, ReusableChange
       DEF WskInv, Shapes, ConnectsAlone
  <2>7. CASE o = "Connect"
    <3>1. \A n \in Natives : Carries(c, n) <=> Carries(call["Connect"], n)
      BY <2>3, <2>7 DEF Carries
    <3>2. c.at \notin IoLabels /\ c.at # "prepared" /\ (c.at \in ConnectLabels => Connecting)
      BY <1>1, <2>3, <2>7 DEF WskInv, Shapes, RefsOK, CompletionHolds, Connecting
    <3> QED  BY <1>1, <1>2, <2>2, <2>3, <2>4, <2>5, <2>7, <3>1, <3>2, ConnectChange
  <2> QED  BY <2>6, <2>7 DEF Ops, Reusable
<1>3. CASE /\ o = "Connect" /\ Unborn # {}
           /\ LET n == CHOOSE x \in Unborn : TRUE IN
              /\ native' = [native EXCEPT ![n].state = "open"]
              /\ call' = [call EXCEPT ![o].inFlight = FALSE, ![o].completed = TRUE,
                                      ![o].info = n]
  <2>1. PICK n \in Unborn : /\ native' = [native EXCEPT ![n].state = "open"]
                            /\ call' = [call EXCEPT ![o].inFlight = FALSE,
                                                    ![o].completed = TRUE, ![o].info = n]
    BY <1>3
  <2>2. PICK c : c = [call[o] EXCEPT !.inFlight = FALSE, !.completed = TRUE, !.info = n]
    OBVIOUS
  <2>3. call' = [call EXCEPT ![o] = c]
    BY <2>1, <2>2
  <2>4. /\ IsCall(c) /\ c.at = call[o].at /\ c.info = n /\ c.owned = call[o].owned
        /\ c.refs = call[o].refs /\ ~c.inFlight /\ c.completed
    BY <1>1, <2>2 DEF IsCall
  <2>5. RefsOK(o, c) /\ c.at # "prepared" /\ c.refs > 0
    BY <1>1, <2>4 DEF RefsOK, CallerHolds, CompletionHolds
  <2>6. c.owned \/ c.at \in ConnectLabels
    BY <1>1, <2>4 DEF RefsOK, ConnectLabels
  <2>7. /\ n \in Natives /\ n # None /\ native[n].state = "unborn" /\ sock.socket # n
        /\ native \in [Natives -> [state : {"unborn", "open", "closed"}, closes : Nat]]
    BY DEF Unborn, Natives, None, WskInv, Shapes, NativesOwned
  <2>8. /\ native' \in [Natives -> [state : {"unborn", "open", "closed"}, closes : Nat]]
        /\ native'[n].state = "open" /\ native'[n].closes = native[n].closes
        /\ \A m \in Natives : m # n => native'[m] = native[m]
    BY <2>1, <2>7
  <2>9. call[o].info = None
    BY <1>1, <1>3 DEF WskInv, NativesOwned
  <2>10. /\ Shapes' /\ ReferencesExact' /\ ConnectsAlone' /\ RundownOK' /\ AskedOfSocket'
         /\ call'["Connect"] = c
    <3>1. o = "Connect"
      BY <1>3
    <3>2. /\ c.at \in Labels \ IoLabels /\ c.info \in Natives \cup {None}
          /\ c.at = "rundown" => call["Connect"].at = "rundown" /\ sock = sock
          /\ IsSocket(sock) /\ sock.socket \in Natives \cup {None}
          /\ sock.running => sock.socket # None /\ ~sock.closeIssued
      BY <1>1, <2>4, <2>7, <3>1 DEF WskInv, Shapes, RundownOK
    <3>3. c.at \in ConnectLabels => /\ sock.socket = None
                                    /\ \A p \in Reusable : call[p].at = "idle"
      BY <2>4, <3>1 DEF WskInv, ConnectsAlone, Connecting
    <3>4. WskInv
      OBVIOUS
    <3> QED  BY <1>1, <2>3, <2>4, <2>5, <2>8, <3>1, <3>2, <3>3, <3>4, ConnectFrame
  <2>11. \A m \in Natives : /\ ~Carries(call["Connect"], m)
                            /\ Carries(call["Connect"], m)' <=> m = n
    BY <1>3, <2>4, <2>5, <2>6, <2>7, <2>9, <2>10 DEF Carries
  <2>12. NativesOwned'
    <3>1. /\ ~(call'["Connect"].inFlight \/ call'["Connect"].at = "prepared")
          /\ sock'.socket # None => native'[sock'.socket].state = "open"
      BY <1>1, <2>4, <2>5, <2>7, <2>8, <2>10 DEF WskInv, Shapes, NativesOwned
    <3>2. \A m \in Natives : native'[m].closes = native[m].closes
      BY <2>8
    <3> QED  BY <1>1, <2>7, <2>8, <2>11, <3>1, <3>2 DEF WskInv, NativesOwned
  <2> QED  BY <2>10, <2>12 DEF WskInv
<1> QED  BY <1>2, <1>3 DEF ProviderCompletes

\* The completion releases its reference and closes a socket that came too late.
LEMMA InvCompletionReleases ==
    ASSUME WskInv, NEW o \in Ops, CompletionReleases(o)
    PROVE  WskInv'
<1>1. PICK r : r = ReleaseContext(call[o], native)
  OBVIOUS
<1>2. PICK c : c = [r.c EXCEPT !.completed = FALSE]
  OBVIOUS
<1>3. /\ call[o].completed /\ ~call[o].inFlight /\ sock' = sock
      /\ call' = [call EXCEPT ![o] = c] /\ native' = r.nat
  BY <1>1, <1>2 DEF CompletionReleases
<1>4. IsCall(call[o]) /\ RefsOK(o, call[o]) /\ call[o].at \in Labels
  BY DEF WskInv, Shapes, ReferencesExact
<1>5. /\ IsCall(r.c) /\ r.c.at = call[o].at /\ r.c.info = call[o].info
      /\ r.c.owned = call[o].owned /\ r.c.inFlight = call[o].inFlight
      /\ r.c.refs = IF call[o].refs # 1 THEN call[o].refs - 1 ELSE 0
  BY <1>1, <1>4, Released
<1>6. /\ IsCall(c) /\ c.at = call[o].at /\ c.info = call[o].info /\ ~c.completed
      /\ c.owned = call[o].owned /\ ~c.inFlight
      /\ c.refs = IF call[o].refs # 1 THEN call[o].refs - 1 ELSE 0
  BY <1>2, <1>3, <1>5 DEF IsCall
<1>7. /\ call[o].at # "prepared"
      /\ call[o].refs = IF CallerHolds(o, call[o]) THEN 2 ELSE 1
      /\ c.refs = IF CallerHolds(o, call[o]) THEN 1 ELSE 0
  BY <1>3, <1>4, <1>6 DEF RefsOK, CompletionHolds
<1>8. RefsOK(o, c)
  BY <1>6, <1>7 DEF RefsOK, CallerHolds, CompletionHolds
<1>9. SocketMay(sock) /\ MayRunDown(o, c, sock)
  BY <1>6, SocketStays DEF MayRunDown, WskInv, RundownOK
<1>10. CASE o \in Reusable
  <2>1. call[o].info = None /\ (Connecting => c.at = "idle")
    BY <1>6, <1>10 DEF WskInv, Shapes, ConnectsAlone
  <2>2. native' = native
    BY <1>1, <1>3, <2>1, ReleasedNatives DEF CloseNative
  <2> QED  BY <1>3, <1>4, <1>6, <1>8, <1>9, <1>10, <2>1, <2>2, ReusableChange
<1>11. CASE o = "Connect"
  <2>1. /\ c.at \in Labels \ IoLabels /\ c.at # "prepared"
        /\ (c.at \in ConnectLabels => Connecting)
        /\ c.info \in Natives \cup {None}
    BY <1>4, <1>6, <1>7, <1>11 DEF WskInv, Shapes, Connecting
  <2>2. call[o].refs = 1 => c.at \notin ConnectLabels
    BY <1>6, <1>7 DEF CallerHolds, ConnectLabels
  <2>3. CASE call[o].refs = 1 /\ call[o].owned
    <3>1. /\ native' = CloseNative(native, call["Connect"].info)
          /\ call["Connect"].info # None => Carries(call["Connect"], call["Connect"].info)
      BY <1>1, <1>3, <1>11, <2>3, ReleasedNatives DEF Carries
    <3>2. c.refs = 0
      BY <1>6, <2>3
    <3>3. \A n \in Natives : ~Carries(c, n)
      BY <3>2 DEF Carries
    <3>4. call'["Connect"] = c
      BY <1>3, <1>11 DEF WskInv, Shapes
    <3>5. /\ NativesOwned'
          /\ native' \in [Natives -> [state : {"unborn", "open", "closed"}, closes : Nat]]
      BY <1>3, <1>6, <2>1, <3>1, <3>3, <3>4, CarriedCloses
    <3>6. /\ IsSocket(sock) /\ sock.socket \in Natives \cup {None}
          /\ sock.running => sock.socket # None /\ ~sock.closeIssued
          /\ c.at = "rundown" => call["Connect"].at = "rundown" /\ sock = sock
          /\ c.at \in ConnectLabels => /\ sock.socket = None
                                       /\ \A p \in Reusable : call[p].at = "idle"
      BY <1>6, <1>11, <2>1 DEF WskInv, Shapes, RundownOK, ConnectsAlone
    <3>7. /\ Shapes' /\ ReferencesExact' /\ ConnectsAlone' /\ RundownOK' /\ AskedOfSocket'
      BY <1>3, <1>6, <1>8, <1>11, <2>1, <3>5, <3>6, ConnectFrame
    <3> QED  BY <3>5, <3>7 DEF WskInv
  <2>4. CASE ~(call[o].refs = 1 /\ call[o].owned)
    <3>1. native' = native
      BY <1>1, <1>3, <2>4, ReleasedNatives
    <3>2. \A n \in Natives : Carries(c, n) <=> Carries(call[o], n)
      <4>1. CASE call[o].refs = 1
        BY <1>6, <2>2, <2>4, <4>1 DEF Carries
      <4>2. CASE call[o].refs # 1
        <5>1. call[o].refs = 2 /\ c.refs = 1
          BY <1>7, <4>2
        <5> QED  BY <1>6, <5>1 DEF Carries
      <4> QED  BY <4>1, <4>2
    <3> QED  BY <1>3, <1>6, <1>8, <1>9, <1>11, <2>1, <3>1, <3>2, ConnectChange
  <2> QED  BY <2>3, <2>4
<1> QED  BY <1>10, <1>11 DEF Ops, Reusable

\* Connect adopts the native socket, closes it, or leaves it to the completion.
LEMMA InvConnectReturns ==
    ASSUME WskInv, ConnectReturns
    PROVE  WskInv'
<1>1. PICK k : k = call["Connect"]
  OBVIOUS
<1>2. PICK mine : mine = IF k.owned THEN None ELSE k.info
  OBVIOUS
<1>3. PICK nat : nat = IF k.failed THEN CloseNative(native, mine) ELSE native
  OBVIOUS
<1>4. PICK r : r = ReleaseContext(k, nat)
  OBVIOUS
<1>5. PICK c : c = [r.c EXCEPT !.at = "idle"]
  OBVIOUS
<1>6. /\ k.at = "result" /\ native' = r.nat /\ call' = [call EXCEPT !["Connect"] = c]
      /\ sock' = IF k.failed \/ mine = None THEN sock
                 ELSE [sock EXCEPT !.socket = mine, !.state = "Active",
                                   !.closeIssued = FALSE, !.running = TRUE]
  BY <1>1, <1>2, <1>3, <1>4, <1>5 DEF ConnectReturns
<1>7. "Connect" \in Ops
  BY DEF Ops
<1>8. /\ IsCall(k) /\ RefsOK("Connect", k) /\ k.info \in Natives \cup {None} /\ Connecting
      /\ sock.socket = None /\ \A p \in Reusable : call[p].at = "idle"
      /\ k.inFlight => k.info = None
  BY <1>1, <1>6, <1>7
     DEF WskInv, Shapes, ReferencesExact, ConnectsAlone, NativesOwned, Connecting, ConnectLabels
<1>9. /\ IsCall(r.c) /\ r.c.info = k.info
      /\ r.c.owned = k.owned /\ r.c.inFlight = k.inFlight /\ r.c.completed = k.completed
      /\ r.c.refs = IF k.refs # 1 THEN k.refs - 1 ELSE 0
  BY <1>4, <1>8, Released
<1>10. /\ IsCall(c) /\ c.at = "idle" /\ c.info = k.info
       /\ c.owned = k.owned /\ c.inFlight = k.inFlight /\ c.completed = k.completed
       /\ c.refs = IF k.refs # 1 THEN k.refs - 1 ELSE 0
  BY <1>5, <1>9 DEF IsCall
<1>11. /\ k.refs = (IF CompletionHolds(k) THEN 2 ELSE 1)
       /\ c.refs = (IF CompletionHolds(k) THEN 1 ELSE 0)
       /\ k.refs > 0
  BY <1>6, <1>8, <1>10 DEF RefsOK, CallerHolds
<1>12. RefsOK("Connect", c)
  <2>1. ~CallerHolds("Connect", c) /\ (CompletionHolds(c) <=> CompletionHolds(k))
    BY <1>10 DEF CallerHolds, CompletionHolds, IoLabels, Reusable
  <2>2. ~(c.inFlight /\ c.completed) /\ (c.inFlight => c.owned)
    BY <1>6, <1>8, <1>10 DEF RefsOK
  <2> QED  BY <1>10, <1>11, <2>1, <2>2 DEF RefsOK
<1>13. k.info # None => Carries(k, k.info)
  BY <1>6, <1>11 DEF Carries, ConnectLabels
<1>14. c.inFlight \/ c.at = "prepared" => c.info = None
  BY <1>8, <1>10
<1>15. call'["Connect"] = c
  BY <1>6, <1>7 DEF WskInv, Shapes
<1>16. /\ IsSocket(sock) /\ (sock.running => sock.socket # None /\ ~sock.closeIssued)
       /\ native \in [Natives -> [state : {"unborn", "open", "closed"}, closes : Nat]]
  BY DEF WskInv, Shapes, RundownOK
<1>17. /\ c.at \in Labels \ IoLabels /\ c.at # "rundown" /\ c.at \notin ConnectLabels
  BY <1>10 DEF Labels, IoLabels, ConnectLabels
<1>18. CASE (k.owned /\ k.refs = 1) \/ (~k.owned /\ k.failed)
  <2>1. native' = CloseNative(native, k.info) /\ sock' = sock
    BY <1>2, <1>3, <1>4, <1>6, <1>18, ReleasedNatives DEF CloseNative
  <2>2. \A n \in Natives : ~Carries(c, n)
    BY <1>10, <1>17, <1>18 DEF Carries
  <2>3. /\ NativesOwned'
        /\ native' \in [Natives -> [state : {"unborn", "open", "closed"}, closes : Nat]]
    BY <1>1, <1>13, <1>14, <1>15, <2>1, <2>2, CarriedCloses
  <2>4. /\ Shapes' /\ ReferencesExact' /\ ConnectsAlone' /\ RundownOK' /\ AskedOfSocket'
    BY <1>6, <1>8, <1>10, <1>12, <1>16, <1>17, <2>1, <2>3, ConnectFrame
  <2> QED  BY <2>3, <2>4 DEF WskInv
<1>19. CASE (k.owned /\ k.refs # 1) \/ (~k.owned /\ ~k.failed /\ k.info = None)
  <2>1. native' = native /\ sock' = sock
    BY <1>2, <1>3, <1>4, <1>6, <1>19, ReleasedNatives DEF CloseNative
  <2>2. (c.owned /\ c.refs > 0) \/ k.info = None
    BY <1>10, <1>11, <1>19
  <2>3. \A n \in Natives : Carries(c, n) <=> Carries(call["Connect"], n)
    BY <1>1, <1>10, <1>11, <2>2 DEF Carries
  <2> QED  BY <1>1, <1>6, <1>7, <1>8, <1>10, <1>12, <1>17, <2>1, <2>3, CallMoves DEF Labels
<1>20. CASE ~k.owned /\ ~k.failed /\ k.info # None
  <2>1. PICK s : s = [sock EXCEPT !.socket = k.info, !.state = "Active",
                                  !.closeIssued = FALSE, !.running = TRUE]
    OBVIOUS
  <2>2. native' = native /\ sock' = s
    BY <1>2, <1>3, <1>4, <1>6, <1>20, <2>1, ReleasedNatives
  <2>3. IsSocket(s) /\ s.socket = k.info /\ ~s.closeIssued
    BY <1>16, <2>1 DEF IsSocket
  <2>4. /\ Shapes' /\ ReferencesExact' /\ ConnectsAlone' /\ RundownOK' /\ AskedOfSocket'
    BY <1>6, <1>8, <1>10, <1>12, <1>16, <1>17, <1>20, <2>2, <2>3, ConnectFrame
  <2>5. \A n \in Natives : /\ Carries(k, n) <=> n = k.info
                           /\ ~Carries(c, n)
    BY <1>10, <1>13, <1>17, <1>20 DEF Carries
  <2>6. NativesOwned'
    <3>1. \A n \in Natives :
              /\ native[n].closes = IF native[n].state = "closed" THEN 1 ELSE 0
              /\ native[n].state = "open" <=> n = k.info
      BY <1>1, <1>8, <2>5, None \notin Natives DEF WskInv, NativesOwned, None, Natives
    <3> QED  BY <1>8, <1>14, <1>15, <1>20, <2>2, <2>3, <2>5, <3>1 DEF NativesOwned
  <2> QED  BY <2>4, <2>6 DEF WskInv
<1> QED  BY <1>18, <1>19, <1>20

\* The close IRP: the socket is closed, and what was asked of it is completed.
LEMMA InvCloseSocket ==
    ASSUME WskInv, NEW o \in Ops, CloseSocket(o)
    PROVE  WskInv'
<1>1. PICK n : n = sock.socket
  OBVIOUS
<1>2. /\ call[o].at = "rundown" /\ native' = CloseNative(native, n)
      /\ sock' = [sock EXCEPT !.socket = None, !.state = "ClosePending"]
      /\ call' = [p \in Ops |->
                    [call[p] EXCEPT !.at = IF p = o THEN "closed" ELSE @,
                                    !.inFlight = IF p \in Reusable THEN FALSE ELSE @,
                                    !.completed = IF p \in Reusable THEN @ \/ call[p].inFlight
                                                  ELSE @]]
  BY <1>1 DEF CloseSocket
<1>3. /\ n # None /\ sock.closeIssued /\ ~sock.running /\ n \in Natives
      /\ \A p \in Ops : p # o => call[p].at # "rundown"
      /\ IsSocket(sock) /\ ~Connecting
      /\ native \in [Natives -> [state : {"unborn", "open", "closed"}, closes : Nat]]
  BY <1>1, <1>2 DEF WskInv, RundownOK, Shapes, ConnectsAlone
<1>4. \A p \in Ops : IsCall(call[p]) /\ call[p].at \in Labels /\ RefsOK(p, call[p])
  BY DEF WskInv, Shapes, ReferencesExact
<1>5. IsSocket(sock') /\ sock'.socket = None /\ ~sock'.running
  BY <1>2, <1>3 DEF IsSocket
<1>6. ASSUME NEW p \in Ops
      PROVE  /\ IsCall(call'[p]) /\ call'[p].refs = call[p].refs /\ call'[p].info = call[p].info
             /\ call'[p].owned = call[p].owned
             /\ call'[p].at = IF p = o THEN "closed" ELSE call[p].at
             /\ call'[p].inFlight = IF p \in Reusable THEN FALSE ELSE call[p].inFlight
             /\ call'[p].completed = IF p \in Reusable THEN call[p].completed \/ call[p].inFlight
                                     ELSE call[p].completed
  <2>1. PICK a : a = IF p = o THEN "closed" ELSE call[p].at
    OBVIOUS
  <2>2. PICK b : b = IF p \in Reusable THEN FALSE ELSE call[p].inFlight
    OBVIOUS
  <2>3. PICK d : d = IF p \in Reusable THEN call[p].completed \/ call[p].inFlight
                     ELSE call[p].completed
    OBVIOUS
  <2>4. PICK c : c = call[p]
    OBVIOUS
  <2>5. call'[p] = [c EXCEPT !.at = a, !.inFlight = b, !.completed = d]
    <3>1. call'[p] = [call[p] EXCEPT !.at = IF p = o THEN "closed" ELSE call[p].at,
                                     !.inFlight = IF p \in Reusable THEN FALSE ELSE call[p].inFlight,
                                     !.completed = IF p \in Reusable
                                                   THEN call[p].completed \/ call[p].inFlight
                                                   ELSE call[p].completed]
      BY <1>2, Zenon
    <3> QED  BY <2>1, <2>2, <2>3, <2>4, <3>1
  <2>6. IsCall(c)
    BY <1>4, <2>4
  <2>7. /\ IsCall(call'[p]) /\ call'[p].refs = c.refs /\ call'[p].info = c.info
        /\ call'[p].owned = c.owned /\ call'[p].at = a
        /\ call'[p].inFlight = b /\ call'[p].completed = d
    BY <2>5, <2>6 DEF IsCall
  <2> QED  BY <2>1, <2>2, <2>3, <2>4, <2>7
<1>7. \A p \in Reusable : ~call'[p].inFlight
  BY <1>6 DEF Ops, Reusable
<1>8. \A p \in Reusable : call'[p].completed <=> call[p].completed \/ call[p].inFlight
  <2>1. \A p \in Reusable : p \in Ops
    BY DEF Ops, Reusable
  <2> QED  BY <1>6, <2>1
<1>9. "Connect" \in Ops /\ "Connect" \notin Reusable /\ \A p \in Reusable : p \in Ops
  BY DEF Ops, Reusable
<1>10. /\ call'["Connect"].inFlight = call["Connect"].inFlight
       /\ call'["Connect"].completed = call["Connect"].completed
  BY <1>6, <1>9
<1>11. /\ native' \in [Natives -> [state : {"unborn", "open", "closed"}, closes : Nat]]
       /\ native'[n].state = "closed" /\ native'[n].closes = native[n].closes + 1
       /\ \A m \in Natives : m # n => native'[m] = native[m]
  <2>1. native' = [native EXCEPT ![n].state = "closed", ![n].closes = @ + 1]
    BY <1>2, <1>3 DEF CloseNative
  <2> QED  BY <1>3, <2>1
<1>12. Shapes'
  <2>1. call' = [p \in Ops |-> call'[p]]
    BY <1>2
  <2>2. \A p \in Ops : IsCall(call'[p]) /\ call'[p].at \in Labels
    BY <1>4, <1>6 DEF Labels
  <2>3. call'["Connect"].at \notin IoLabels
    BY <1>6, <1>9 DEF WskInv, Shapes, IoLabels
  <2>4. \A p \in Reusable : call'[p].info = None
    BY <1>6, <1>9 DEF WskInv, Shapes
  <2>5. call'["Connect"].info \in Natives \cup {None}
    BY <1>6, <1>9 DEF WskInv, Shapes
  <2> QED  BY <1>5, <1>11, <2>1, <2>2, <2>3, <2>4, <2>5 DEF Shapes
<1>13. ReferencesExact'
  <2> SUFFICES ASSUME NEW p \in Ops PROVE RefsOK(p, call'[p])
    BY DEF ReferencesExact, RefsOK, CallerHolds, CompletionHolds
  <2>1. CompletionHolds(call'[p]) <=> CompletionHolds(call[p])
    BY <1>7, <1>8, <1>10 DEF CompletionHolds, Ops, Reusable
  <2>2. CallerHolds(p, call'[p]) <=> CallerHolds(p, call[p])
    <3>1. CASE p = o
      <4>1. call[p].at = "rundown" /\ call'[p].at = "closed"
        BY <1>2, <1>6, <3>1
      <4> QED  BY <4>1 DEF CallerHolds, IoLabels
    <3>2. CASE p # o
      <4>1. call'[p].at = call[p].at
        BY <1>6, <3>2
      <4> QED  BY <4>1 DEF CallerHolds
    <3> QED  BY <3>1, <3>2
  <2>3. /\ ~(call'[p].inFlight /\ call'[p].completed)
        /\ call'[p].inFlight => call'[p].owned \/ call'[p].at \in {"waiting", "cancelling", "abandoning"}
    <3>1. CASE p \in Reusable
      BY <1>7, <3>1
    <3>2. CASE p = "Connect"
      <4>1. RefsOK(p, call[p]) /\ call'[p].owned = call[p].owned
        BY <1>4, <1>6
      <4>2. call[p].at \in {"waiting", "cancelling", "abandoning"} => call'[p].at = call[p].at
        <5>1. call[o].at = "rundown"
          BY <1>2
        <5>2. p # o => call'[p].at = call[p].at
          BY <1>6
        <5> QED  BY <5>1, <5>2
      <4>3. call'[p].inFlight = call[p].inFlight /\ call'[p].completed = call[p].completed
        BY <1>10, <3>2
      <4> QED  BY <4>1, <4>2, <4>3 DEF RefsOK
    <3> QED  BY <3>1, <3>2 DEF Ops, Reusable
  <2>4. call'[p].at = "prepared" <=> call[p].at = "prepared"
    <3>1. call[o].at = "rundown"
      BY <1>2
    <3>2. call'[p].at = IF p = o THEN "closed" ELSE call[p].at
      BY <1>6
    <3> QED  BY <3>1, <3>2
  <2>5. call'[p].refs = call[p].refs /\ call'[p].owned = call[p].owned /\ RefsOK(p, call[p])
    BY <1>4, <1>6
  <2> QED  BY <2>1, <2>2, <2>3, <2>4, <2>5 DEF RefsOK
<1>14. ConnectsAlone'
  BY <1>3, <1>6, <1>9 DEF ConnectsAlone, Connecting, ConnectLabels
<1>15. RundownOK'
  BY <1>3, <1>5, <1>6 DEF RundownOK
<1>16. NativesOwned'
  <2>1. \A m \in Natives : Carries(call'["Connect"], m) <=> Carries(call["Connect"], m)
    <3>1. /\ call'["Connect"].info = call["Connect"].info
          /\ call'["Connect"].owned = call["Connect"].owned
          /\ call'["Connect"].refs = call["Connect"].refs
      BY <1>6, <1>9
    <3>2. call'["Connect"].at \in ConnectLabels <=> call["Connect"].at \in ConnectLabels
      <4>1. call[o].at = "rundown"
        BY <1>2
      <4>2. call'["Connect"].at = IF "Connect" = o THEN "closed" ELSE call["Connect"].at
        BY <1>6, <1>9
      <4> QED  BY <4>1, <4>2 DEF ConnectLabels
    <3> QED  BY <3>1, <3>2 DEF Carries
  <2>2. call'["Connect"].inFlight \/ call'["Connect"].at = "prepared" => call'["Connect"].info = None
    BY <1>6, <1>9, <1>10 DEF WskInv, NativesOwned
  <2>3. native[n].state = "open" /\ native[n].closes = 0
    BY <1>1, <1>3 DEF WskInv, NativesOwned
  <2>4. ASSUME NEW m \in Natives
        PROVE  /\ native'[m].closes = IF native'[m].state = "closed" THEN 1 ELSE 0
               /\ Carries(call["Connect"], m) => native'[m].state = "open" /\ m # None
               /\ native'[m].state = "open" => Carries(call["Connect"], m)
    <3>1. CASE m = n
      BY <1>1, <1>11, <2>3, <3>1 DEF WskInv, NativesOwned
    <3>2. CASE m # n
      BY <1>1, <1>11, <3>2 DEF WskInv, NativesOwned, Carries
    <3> QED  BY <3>1, <3>2
  <2> QED  BY <1>5, <2>1, <2>2, <2>4 DEF NativesOwned, Carries
<1>17. AskedOfSocket'
  BY <1>7 DEF AskedOfSocket
<1> QED  BY <1>12, <1>13, <1>14, <1>15, <1>16, <1>17 DEF WskInv

\* After the close the IRPs that the socket still has are freed.
LEMMA InvReleaseReusableIrps ==
    ASSUME WskInv, NEW o \in Ops, ReleaseReusableIrps(o)
    PROVE  WskInv'
<1>1. /\ call[o].at = "closed" /\ native' = native
      /\ sock' = [sock EXCEPT !.state = "Closed", !.irps = {}]
      /\ call' = [p \in Ops |->
                    [call[p] EXCEPT !.at = IF p # o THEN @
                                           ELSE IF o = "Connect" THEN "idle" ELSE "return",
                                    !.freed = IF p \in sock.irps THEN @ + 1 ELSE @]]
  BY DEF ReleaseReusableIrps
<1>2. /\ IsSocket(sock) /\ \A p \in Ops : IsCall(call[p]) /\ call[p].at \in Labels
      /\ \A p \in Ops : RefsOK(p, call[p])
  BY DEF WskInv, Shapes, ReferencesExact
<1>3. /\ IsSocket(sock') /\ sock'.socket = sock.socket /\ sock'.running = sock.running
      /\ sock'.closeIssued = sock.closeIssued
  BY <1>1, <1>2 DEF IsSocket
<1>4. ASSUME NEW p \in Ops
      PROVE  /\ IsCall(call'[p]) /\ call'[p].refs = call[p].refs /\ call'[p].info = call[p].info
             /\ call'[p].owned = call[p].owned /\ call'[p].inFlight = call[p].inFlight
             /\ call'[p].completed = call[p].completed
             /\ call'[p].at = IF p # o THEN call[p].at
                              ELSE IF o = "Connect" THEN "idle" ELSE "return"
  <2>1. PICK a : a = IF p # o THEN call[p].at ELSE IF o = "Connect" THEN "idle" ELSE "return"
    OBVIOUS
  <2>2. PICK b : b = IF p \in sock.irps THEN call[p].freed + 1 ELSE call[p].freed
    OBVIOUS
  <2>3. PICK c : c = call[p]
    OBVIOUS
  <2>4. call'[p] = [c EXCEPT !.at = a, !.freed = b]
    BY <1>1, <2>1, <2>2, <2>3
  <2>5. IsCall(c)
    BY <1>2, <2>3
  <2>6. /\ IsCall(call'[p]) /\ call'[p].refs = c.refs /\ call'[p].info = c.info
        /\ call'[p].owned = c.owned /\ call'[p].inFlight = c.inFlight
        /\ call'[p].completed = c.completed /\ call'[p].at = a
    BY <2>4, <2>5 DEF IsCall
  <2> QED  BY <2>1, <2>3, <2>6
<1>5. "Connect" \in Ops /\ "Connect" \notin Reusable /\ \A p \in Reusable : p \in Ops
  BY DEF Ops, Reusable
<1>6. Shapes'
  <2>1. call' = [p \in Ops |-> call'[p]]
    BY <1>1
  <2>2. \A p \in Ops : IsCall(call'[p]) /\ call'[p].at \in Labels
    BY <1>2, <1>4 DEF Labels
  <2>3. call'["Connect"].at \notin IoLabels
    BY <1>4, <1>5 DEF WskInv, Shapes, IoLabels
  <2>4. \A p \in Reusable : call'[p].info = None
    BY <1>4, <1>5 DEF WskInv, Shapes
  <2>5. call'["Connect"].info \in Natives \cup {None} /\ sock'.socket \in Natives \cup {None}
    BY <1>3, <1>4, <1>5 DEF WskInv, Shapes
  <2>6. native' \in [Natives -> [state : {"unborn", "open", "closed"}, closes : Nat]]
    BY <1>1 DEF WskInv, Shapes
  <2> QED  BY <1>3, <2>1, <2>2, <2>3, <2>4, <2>5, <2>6 DEF Shapes
<1>7. ReferencesExact'
  <2> SUFFICES ASSUME NEW p \in Ops PROVE RefsOK(p, call'[p])
    BY DEF ReferencesExact, RefsOK, CallerHolds, CompletionHolds
  <2>1. CallerHolds(p, call'[p]) <=> CallerHolds(p, call[p])
    <3>1. CASE p = o /\ p = "Connect"
      <4>1. call[p].at = "closed" /\ call'[p].at = "idle" /\ p \notin Reusable
        BY <1>1, <1>4, <3>1 DEF Reusable
      <4> QED  BY <4>1 DEF CallerHolds, IoLabels
    <3>2. CASE p = o /\ p # "Connect"
      <4>1. call[p].at = "closed" /\ call'[p].at = "return" /\ p \in Reusable
        BY <1>1, <1>4, <3>2 DEF Ops, Reusable
      <4> QED  BY <4>1 DEF CallerHolds, IoLabels
    <3>3. CASE p # o
      <4>1. call'[p].at = call[p].at
        BY <1>4, <3>3
      <4> QED  BY <4>1 DEF CallerHolds
    <3> QED  BY <3>1, <3>2, <3>3
  <2>2. /\ call'[p].at = "prepared" <=> call[p].at = "prepared"
        /\ call'[p].at \in {"waiting", "cancelling", "abandoning"}
              <=> call[p].at \in {"waiting", "cancelling", "abandoning"}
    <3>1. call[o].at = "closed"
      BY <1>1
    <3>2. call'[p].at = IF p # o THEN call[p].at ELSE IF o = "Connect" THEN "idle" ELSE "return"
      BY <1>4
    <3> QED  BY <3>1, <3>2
  <2>3. /\ call'[p].refs = call[p].refs /\ call'[p].owned = call[p].owned
        /\ call'[p].inFlight = call[p].inFlight /\ call'[p].completed = call[p].completed
        /\ RefsOK(p, call[p])
    BY <1>2, <1>4
  <2> QED  BY <2>1, <2>2, <2>3 DEF RefsOK, CompletionHolds
<1>8. call'["Connect"].at \in ConnectLabels <=> call["Connect"].at \in ConnectLabels
  <2>1. call[o].at = "closed"
    BY <1>1
  <2>2. call'["Connect"].at = IF "Connect" # o THEN call["Connect"].at ELSE "idle"
    BY <1>4, <1>5
  <2> QED  BY <2>1, <2>2 DEF ConnectLabels
<1>9. ConnectsAlone'
  <2>1. \A p \in Reusable : call[p].at = "idle" => call'[p].at = "idle"
    BY <1>1, <1>4, <1>5, ZenonT(40)
  <2> QED  BY <1>3, <1>8, <2>1 DEF WskInv, ConnectsAlone, Connecting
<1>10. RundownOK'
  BY <1>3, <1>4 DEF WskInv, RundownOK
<1>11. NativesOwned'
  <2>1. \A m \in Natives : Carries(call'["Connect"], m) <=> Carries(call["Connect"], m)
    <3>1. /\ call'["Connect"].info = call["Connect"].info
          /\ call'["Connect"].owned = call["Connect"].owned
          /\ call'["Connect"].refs = call["Connect"].refs
      BY <1>4, <1>5
    <3> QED  BY <1>8, <3>1 DEF Carries
  <2>2. call'["Connect"].inFlight \/ call'["Connect"].at = "prepared" => call'["Connect"].info = None
    BY <1>4, <1>5 DEF WskInv, NativesOwned
  <2> QED  BY <1>1, <1>3, <2>1, <2>2 DEF WskInv, NativesOwned, Carries
<1>12. AskedOfSocket'
  BY <1>3, <1>4, <1>5 DEF WskInv, AskedOfSocket
<1> QED  BY <1>6, <1>7, <1>9, <1>10, <1>11, <1>12 DEF WskInv

----------------------------------------
\* Nothing was called and no native socket was created yet.
LEMMA InvInit == WskInit => WskInv
<1> SUFFICES ASSUME WskInit PROVE WskInv
  OBVIOUS
<1>1. /\ IsCall(NoCall) /\ NoCall.at = "idle" /\ NoCall.info = None /\ NoCall.refs = 0
      /\ ~NoCall.inFlight /\ ~NoCall.completed
  BY DEF NoCall, IsCall
<1>2. /\ call = [o \in Ops |-> NoCall] /\ \A o \in Ops : call[o] = NoCall
      /\ call["Connect"] = NoCall /\ \A o \in Reusable : call[o] = NoCall
  BY DEF WskInit, Ops, Reusable
<1>3. /\ IsSocket(sock) /\ sock.socket = None /\ ~sock.running
  BY DEF WskInit, IsSocket
<1>4. /\ native \in [Natives -> [state : {"unborn", "open", "closed"}, closes : Nat]]
      /\ \A n \in Natives : native[n].state = "unborn" /\ native[n].closes = 0
  BY DEF WskInit
<1>5. Shapes
  BY <1>1, <1>2, <1>3, <1>4 DEF Shapes, Labels, IoLabels
<1>6. ReferencesExact
  BY <1>1, <1>2 DEF ReferencesExact, RefsOK, CallerHolds, CompletionHolds, IoLabels
<1>7. ConnectsAlone /\ RundownOK /\ AskedOfSocket
  BY <1>1, <1>2, <1>3 DEF ConnectsAlone, Connecting, ConnectLabels, RundownOK, AskedOfSocket
<1>8. NativesOwned
  BY <1>1, <1>2, <1>3, <1>4 DEF NativesOwned, Carries
<1> QED  BY <1>5, <1>6, <1>7, <1>8 DEF WskInv

\* Every step of WskNext keeps the invariant.
LEMMA InvNext == WskInv /\ [WskNext]_wskVars => WskInv'
<1> SUFFICES ASSUME WskInv, [WskNext]_wskVars PROVE WskInv'
  OBVIOUS
<1>1. CASE OwnerCloses
  BY <1>1, InvOwnerCloses
<1>2. ASSUME NEW o \in Ops, CallStep(o)
      PROVE  WskInv'
  BY <1>2, InvNotSubmitted, InvSubmit, InvWaitEnds, InvCancelWaitEnds, InvHandOver,
     InvConnectReturns, InvTimesOut, InvSendReceiveReturns, InvTryClose, InvCloseSocket,
     InvReleaseReusableIrps DEF CallStep
<1>3. ASSUME NEW o \in Ops, Prepare(o) \/ ProviderCompletes(o) \/ CompletionReleases(o)
      PROVE  WskInv'
  BY <1>3, InvPrepare, InvProviderCompletes, InvCompletionReleases
<1>4. CASE UNCHANGED wskVars
  BY <1>4 DEF wskVars, WskInv, Shapes, ReferencesExact, RefsOK, CallerHolds, CompletionHolds,
              ConnectsAlone, Connecting, RundownOK, NativesOwned, Carries, AskedOfSocket
<1> QED  BY <1>1, <1>2, <1>3, <1>4 DEF WskNext

\* The invariant is enough: an open native socket is held or carried.
LEMMA InvSuffices == WskInv => NativeSocketsSafe
<1> SUFFICES ASSUME WskInv PROVE NativeSocketsSafe
  OBVIOUS
<1>1. NativeSocketsAccounted
  BY DEF WskInv, Shapes, NativesOwned, Carries, NativeSocketsAccounted
<1>2. NoOperationOnClosedSocket
  BY DEF WskInv, AskedOfSocket, NoOperationOnClosedSocket
<1> QED  BY <1>1, <1>2 DEF NativeSocketsSafe

(* Every native socket is closed at most once; one that is open is the one that *)
(* WskSocket holds or is still in the context of the connect call, and nothing  *)
(* is under way on a socket that was closed: whoever closes, whichever call     *)
(* times out, and however late its IRP completes.                               *)
THEOREM NativesAreSafe == WskSpec => []NativeSocketsSafe
<1>1. WskSpec => []WskInv
  BY InvInit, InvNext, PTL DEF WskSpec
<1> QED  BY <1>1, InvSuffices, PTL
=============================================================================
