----------------------------- MODULE WskSocket -----------------------------
(* One WSK stream socket: synchronous operations on asynchronous IRPs        *)
(* (net/WskSync.h) and the socket that issues them (net/WskSocket.cpp).      *)
(* A context is shared by the caller and the completion routine, one         *)
(* reference each. A caller that gives up cancels the IRP, waits a bounded   *)
(* time and otherwise leaves the IRP to its completion.                      *)
EXTENDS Naturals, FiniteSets

CONSTANT MaxNative      \* bound: native sockets the provider may create

ASSUME WskSocketConstants == MaxNative \in Nat \ {0}

VARIABLES call,         \* operation -> the call that runs it and its context
          sock,         \* the fields of WskSocket
          native        \* native socket -> its state and how often it was closed

wskVars == <<call, sock, native>>

Ops == {"Connect", "Send", "Receive"}
Reusable == {"Send", "Receive"}            \* sendIrp_, receiveIrp_: borrowed by the context
None == 0
Natives == 1..MaxNative
Unborn == {n \in Natives : native[n].state = "unborn"}

NoCall == [at |-> "idle", refs |-> 0, completed |-> FALSE, inFlight |-> FALSE,
           owned |-> FALSE, info |-> None, failed |-> FALSE, timedOut |-> FALSE, freed |-> 0]

WskInit ==
    /\ call = [o \in Ops |-> NoCall]
    /\ sock = [socket |-> None, state |-> "Closed", closeIssued |-> FALSE,
               rundown |-> 0, running |-> FALSE, irps |-> {}]
    /\ native = [n \in Natives |-> [state |-> "unborn", closes |-> 0]]

CloseNative(nat, n) ==
    IF n = None THEN nat ELSE [nat EXCEPT ![n].state = "closed", ![n].closes = @ + 1]

\* A call that is over for everybody can be begun again.
Quiet(o) == call[o].at = "idle" /\ call[o].refs = 0

----------------------------------------
(* Contexts: WskSyncInitializeIrpContext ... WskSyncReleaseContext.          *)

\* Fault: a late connection is not closed by the completion that brings it.
ReleaseForgetsLateSocket(c, nat) ==
    IF c.refs # 1 THEN [c |-> [c EXCEPT !.refs = @ - 1], nat |-> nat]
    ELSE [c |-> [c EXCEPT !.refs = 0, !.freed = IF c.owned THEN @ + 1 ELSE @], nat |-> nat]

\* WskSyncReleaseContext: the last holder closes a connection that arrived too
\* late, and frees the IRP unless the socket keeps it for the next call.
ReleaseContext(c, nat) ==
    IF c.refs # 1 THEN [c |-> [c EXCEPT !.refs = @ - 1], nat |-> nat]
    ELSE [c |-> [c EXCEPT !.refs = 0, !.freed = IF c.owned THEN @ + 1 ELSE @],
          nat |-> IF c.owned THEN CloseNative(nat, c.info) ELSE nat]

\* Entry of Connect, Send and Receive: guards, PrepareReusableIrp, the owned
\* buffer, and the context with its two references.
Prepare(o) ==
    /\ Quiet(o)
    /\ IF o = "Connect" THEN sock.socket = None /\ (\A p \in Reusable : Quiet(p))
       ELSE sock.socket # None /\ sock.state = "Active"
    /\ call' = [call EXCEPT ![o] = [NoCall EXCEPT !.at = "prepared", !.refs = 2]]
    /\ sock' = IF o \in Reusable THEN [sock EXCEPT !.irps = @ \cup {o}] ELSE sock
    /\ UNCHANGED native

\* The rundown is refused once a close has begun: the context is released unsubmitted.
NotSubmitted(o) ==
    /\ call[o].at = "prepared" /\ o \in Reusable /\ ~sock.running
    /\ call' = [call EXCEPT ![o] = NoCall]
    /\ UNCHANGED <<sock, native>>

\* Fault: the operation is dispatched without rundown protection.
SubmitUnprotected(o) ==
    /\ call[o].at = "prepared"
    /\ sock' = IF o \in Reusable THEN [sock EXCEPT !.rundown = @ + 1] ELSE sock
    /\ call' = [call EXCEPT ![o].at = "waiting", ![o].inFlight = TRUE]
    /\ UNCHANGED native

\* AcquireIoRundown and the provider's dispatch routine.
Submit(o) ==
    /\ call[o].at = "prepared"
    /\ o \in Reusable => sock.running
    /\ sock' = IF o \in Reusable THEN [sock EXCEPT !.rundown = @ + 1] ELSE sock
    /\ \/ call' = [call EXCEPT ![o].at = "waiting", ![o].inFlight = TRUE]
       \/ call' = [call EXCEPT ![o].at = "result", ![o].refs = 1, ![o].failed = TRUE]
    /\ UNCHANGED native

\* The completion routine stores the status and sets the event ...
ProviderCompletes(o) ==
    /\ call[o].inFlight
    /\ \/ /\ o = "Connect" /\ Unborn # {}
          /\ LET n == CHOOSE x \in Unborn : TRUE IN
             /\ native' = [native EXCEPT ![n].state = "open"]
             /\ call' = [call EXCEPT ![o].inFlight = FALSE, ![o].completed = TRUE, ![o].info = n]
       \/ /\ call' = [call EXCEPT ![o].inFlight = FALSE, ![o].completed = TRUE,
                                  ![o].failed = (o = "Connect")]
          /\ UNCHANGED native
    /\ UNCHANGED sock

\* ... and then releases its reference.
CompletionReleases(o) ==
    /\ call[o].completed /\ ~call[o].inFlight
    /\ LET r == ReleaseContext(call[o], native) IN
       /\ call' = [call EXCEPT ![o] = [r.c EXCEPT !.completed = FALSE]]
       /\ native' = r.nat
    /\ UNCHANGED sock

\* What the caller finds when its wait ends: the event is set as soon as the
\* IRP has left the provider.
EventSet(o) == ~call[o].inFlight

\* WskSyncWaitForCompletion returns: the event, the time-out or the caller's
\* cancellation, which ends in IoCancelIrp.
WaitEnds(o) ==
    /\ call[o].at = "waiting"
    /\ \/ EventSet(o) /\ call' = [call EXCEPT ![o].at = "result"]
       \/ ~EventSet(o) /\ call' = [call EXCEPT ![o].at = "cancelling", ![o].timedOut = TRUE]
    /\ UNCHANGED <<sock, native>>

\* The bounded wait after IoCancelIrp; a completion may still slip in between
\* its time-out and the flag that hands the IRP to the completion.
CancelWaitEnds(o) ==
    /\ call[o].at = "cancelling"
    /\ IF EventSet(o)
       THEN call' = [call EXCEPT ![o].at = "result", ![o].failed = TRUE]
       ELSE call' = [call EXCEPT ![o].at = "abandoning", ![o].failed = TRUE]
    /\ UNCHANGED <<sock, native>>

HandOver(o) ==
    /\ call[o].at = "abandoning"
    /\ call' = [call EXCEPT ![o].owned = TRUE, ![o].at = "result"]
    /\ UNCHANGED <<sock, native>>

----------------------------------------
(* The rest of the calls.                                                    *)

\* Connect after WskSyncCompleteIrp: adopt the socket, or close the one that a
\* failed call brought along. An abandoned call returns no socket.
ConnectReturns ==
    /\ call["Connect"].at = "result"
    /\ LET c == call["Connect"]
           mine == IF c.owned THEN None ELSE c.info
           nat == IF c.failed THEN CloseNative(native, mine) ELSE native
           r == ReleaseContext(c, nat)
       IN /\ sock' = IF c.failed \/ mine = None THEN sock
                     ELSE [sock EXCEPT !.socket = mine, !.state = "Active",
                                       !.closeIssued = FALSE, !.running = TRUE]
          /\ native' = r.nat
          /\ call' = [call EXCEPT !["Connect"] = [r.c EXCEPT !.at = "idle"]]

\* Fault: an abandoned operation keeps the rundown for its late completion.
RundownKeptWhenAbandoned(o) ==
    /\ o \in Reusable /\ call[o].at = "result"
    /\ sock' = [sock EXCEPT !.rundown = IF call[o].owned THEN @ ELSE @ - 1]
    /\ call' = [call EXCEPT ![o].at = IF call[o].timedOut THEN "abandon" ELSE "return"]
    /\ UNCHANGED native

\* Send and Receive: ReleaseIoRundown, then the time-out path.
ReleaseIoRundown(o) ==
    /\ o \in Reusable /\ call[o].at = "result"
    /\ sock' = [sock EXCEPT !.rundown = @ - 1]
    /\ call' = [call EXCEPT ![o].at = IF call[o].timedOut THEN "abandon" ELSE "return"]
    /\ UNCHANGED native

\* AbandonReusableIrp and the entry of CloseAfterCancelledOperation.
AbandonReusableIrp(o) ==
    /\ call[o].at = "abandon"
    /\ sock' = [sock EXCEPT !.irps = IF call[o].owned THEN @ \ {o} ELSE @,
                            !.state = IF call[o].owned THEN "CompletionOwnedCleanup"
                                      ELSE IF sock.socket = None THEN "Closed" ELSE "CancelPending"]
    /\ call' = [call EXCEPT ![o].at = IF sock.socket = None THEN "return" ELSE "tryClose"]
    /\ UNCHANGED native

SendReceiveReturns(o) ==
    /\ o \in Reusable /\ call[o].at = "return"
    /\ LET r == ReleaseContext(call[o], native) IN
       /\ native' = r.nat
       /\ call' = [call EXCEPT ![o] = [r.c EXCEPT !.at = "idle"]]
    /\ UNCHANGED sock

----------------------------------------
(* CloseOwnedSocket, called by Close, by the destructor and by a call that   *)
(* timed out. Connect and Close belong to the owner of the socket.           *)

WinsClose == sock.socket # None /\ ~sock.closeIssued

\* A timed-out call tries to close: one caller of several wins, and the
\* rundown refuses new operations from then on.
TryClose(o) ==
    /\ call[o].at = "tryClose"
    /\ IF WinsClose
       THEN /\ sock' = [sock EXCEPT !.closeIssued = TRUE, !.running = FALSE]
            /\ call' = [call EXCEPT ![o].at = "rundown"]
       ELSE UNCHANGED sock /\ call' = [call EXCEPT ![o].at = "return"]
    /\ UNCHANGED native

\* The owner closes when it has no operation of its own under way.
OwnerCloses ==
    /\ call["Connect"].at = "idle" /\ WinsClose
    /\ sock' = [sock EXCEPT !.closeIssued = TRUE, !.running = FALSE]
    /\ call' = [call EXCEPT !["Connect"].at = "rundown"]
    /\ UNCHANGED native

\* WaitForIoRundown and the close IRP, which is waited for without a limit.
\* The provider completes what is outstanding on a socket before its close.
CloseSocket(o) ==
    /\ call[o].at = "rundown" /\ sock.rundown = 0
    /\ native' = CloseNative(native, sock.socket)
    /\ sock' = [sock EXCEPT !.socket = None, !.state = "ClosePending"]
    /\ call' = [p \in Ops |->
                  [call[p] EXCEPT !.at = IF p = o THEN "closed" ELSE @,
                                  !.inFlight = IF p \in Reusable THEN FALSE ELSE @,
                                  !.completed = IF p \in Reusable THEN @ \/ call[p].inFlight ELSE @]]

\* ReleaseReusableIrps frees whatever IRP the socket still points to.
ReleaseReusableIrps(o) ==
    /\ call[o].at = "closed"
    /\ sock' = [sock EXCEPT !.state = "Closed", !.irps = {}]
    /\ call' = [p \in Ops |->
                  [call[p] EXCEPT !.at = IF p # o THEN @ ELSE IF o = "Connect" THEN "idle" ELSE "return",
                                  !.freed = IF p \in sock.irps THEN @ + 1 ELSE @]]
    /\ UNCHANGED native

----------------------------------------
CallStep(o) ==
    \/ NotSubmitted(o) \/ Submit(o) \/ WaitEnds(o) \/ CancelWaitEnds(o) \/ HandOver(o)
    \/ o = "Connect" /\ ConnectReturns
    \/ ReleaseIoRundown(o) \/ AbandonReusableIrp(o) \/ SendReceiveReturns(o)
    \/ TryClose(o) \/ CloseSocket(o) \/ ReleaseReusableIrps(o)

WskNext ==
    \/ \E o \in Ops : Prepare(o) \/ CallStep(o) \/ ProviderCompletes(o) \/ CompletionReleases(o)
    \/ OwnerCloses

\* The waits of a call are bounded or end with the IRP, and a completion
\* routine that has begun runs to its end. The provider itself may be silent.
WskFairness ==
    \A o \in Ops : WF_wskVars(CallStep(o)) /\ WF_wskVars(CompletionReleases(o))

WskSpec == WskInit /\ [][WskNext]_wskVars /\ WskFairness

----------------------------------------
(* Every native socket has an owner until it is closed, and is closed once:   *)
(* it is the one WskSocket holds, or it is on its way in the context of the   *)
(* connect call, also when that call has timed out and gone away.             *)
NativeSocketsAccounted ==
    \A n \in Natives :
        /\ native[n].closes <= 1
        /\ native[n].state = "open" =>
              \/ sock.socket = n
              \/ call["Connect"].info = n /\ call["Connect"].refs > 0

(* Whoever closes, and however late a prepared Send or Receive is dispatched, *)
(* the provider never gets an operation for a socket that was closed.         *)
NoOperationOnClosedSocket ==
    \A o \in Reusable : call[o].inFlight /\ ~call[o].owned => sock.socket # None

(* However silent the provider is, a call returns: a time-out leaves the IRP  *)
(* to its completion, and the rundown of a close never waits for such an IRP. *)
CallsReturn == \A o \in Ops : (call[o].at = "prepared") ~> (call[o].at = "idle")

(* A completion-owned IRP is freed once, by the context that owns it.         *)
OwnedIrpFreedOnce == \A o \in Ops : call[o].freed <= 1

(* No native socket leaks, is closed twice, or is used once it was closed.    *)
NativeSocketsSafe == NativeSocketsAccounted /\ NoOperationOnClosedSocket
=============================================================================
