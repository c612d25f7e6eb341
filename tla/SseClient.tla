----------------------------- MODULE SseClient -----------------------------
\* The server-sent events client (session/SseClient.cpp, kernel build) and
\* the event stream parser (sse/EventStreamParser.cpp).  A thread of the
\* async runtime runs each stream's request and calls the client back; the
\* application's thread connects, receives and reconnects; another thread
\* may close.  No lock is taken: the queue's count is read and written
\* back by both sides.  A stream is replaced only after its last chunk, so
\* that no two deliver; a client is freed without a wait for its stream.
\*
\* Events carry the ids 1, 2, ...; a stream opened with Last-Event-ID n
\* goes on with n + 1.
EXTENDS Integers, Sequences, FiniteSets, FiniteSetsExt

CONSTANTS
    SseMaxStreams,      \* bound: how many streams are opened
    SseMaxEvents,       \* bound: events the server has
    SseDefaultQueue,    \* kDefaultQueuedEvents
    SseMaxQueue,        \* SseConnectOptions.MaxQueuedEvents
    SseMaxAttempts      \* MaxReconnectAttempts, 0 for no limit

ASSUME SseConstants ==
    /\ SseMaxStreams \in Nat \ {0} /\ SseMaxEvents \in Nat
    /\ SseDefaultQueue \in Nat \ {0} /\ SseMaxQueue \in Nat \ {0} /\ SseMaxAttempts \in Nat

VARIABLES
    sseStreams,     \* for each stream: where its request is, and the next event
    sseLife,        \* "live", "closed" (Closed is set) or "freed"
    sseOpen,        \* OpenReady, OpenFailed and OpenStatus
    sseCode,        \* ResponseStatusCode
    sseAccepted,    \* ContentTypeAccepted
    sseTerminal,    \* StreamTerminal with StreamStatus SUCCESS
    sseRing,        \* Queue, QueueHead, QueueTail, QueueCount, QueueCapacity
    sseParsed,      \* the parser's last event id
    sseSeed,        \* SeedLastEventId
    sseAttempt,     \* ReconnectAttempt
    sseReceiver,    \* what the application's thread is doing
    sseGot,         \* history: ids that Receive returned
    sseQueued       \* history: the last id that was put into the queue

sseVars == <<sseStreams, sseLife, sseOpen, sseCode, sseAccepted, sseTerminal, sseRing,
             sseParsed, sseSeed, sseAttempt, sseReceiver, sseGot, sseQueued>>
sseAnswer == <<sseOpen, sseCode, sseAccepted, sseTerminal>>

SseStreams == 1..SseMaxStreams
OpenPending == [ready |-> FALSE, failed |-> FALSE, status |-> "PENDING"]
SseNoStream == [at |-> "none", next |-> 1, cancelled |-> FALSE, count |-> 0]
EmptyRing == [slots |-> <<>>, head |-> 0, tail |-> 0, count |-> 0]
RingCapacity == Len(sseRing.slots)
SseStarted == {k \in SseStreams : sseStreams[k].at # "none"}
SseLastId == IF sseParsed # 0 THEN sseParsed ELSE sseSeed

----------------------------------------
(* The stream's side                                                       *)

SignalOpen(status) ==
    sseOpen' = IF sseOpen.ready THEN sseOpen
               ELSE [ready |-> TRUE, failed |-> status # "SUCCESS", status |-> status]

StreamMoves(k, at) == sseStreams' = [sseStreams EXCEPT ![k].at = at]

(* A callback that finds the client closed ends the request. *)
CallbackRefused(k) ==
    /\ sseStreams[k].at \in {"connecting", "started", "body"} /\ sseLife # "live"
    /\ StreamMoves(k, "failed")
    /\ UNCHANGED <<sseLife, sseAnswer, sseRing, sseParsed, sseSeed, sseAttempt, sseReceiver,
                   sseGot, sseQueued>>

SseResponseStartCallback(k) ==
    /\ sseStreams[k].at = "connecting" /\ sseLife = "live"
    /\ \E code \in {200, 404, 500} :
          /\ sseCode' = code
          /\ IF code = 200 THEN UNCHANGED sseOpen /\ StreamMoves(k, "started")
             ELSE SignalOpen(IF code = 404 THEN "ACCESS_DENIED" ELSE "UNSUCCESSFUL") /\ StreamMoves(k, "failed")
    /\ UNCHANGED <<sseLife, sseAccepted, sseTerminal, sseRing, sseParsed, sseSeed, sseAttempt,
                   sseReceiver, sseGot, sseQueued>>

(* The Content-Type header; without an acceptable one the open fails.  The    *)
(* status it is judged with is the client's, whichever stream wrote it last.  *)
SseHeaderCallback(k) ==
    /\ sseStreams[k].at = "started" /\ sseLife = "live"
    /\ \E accepted \in BOOLEAN :
          /\ sseAccepted' = accepted
          /\ IF ~accepted THEN SignalOpen("INVALID_NETWORK_RESPONSE") /\ StreamMoves(k, "failed")
             ELSE /\ IF sseCode = 200 THEN SignalOpen("SUCCESS") ELSE UNCHANGED sseOpen
                  /\ StreamMoves(k, "body")
    /\ UNCHANGED <<sseLife, sseCode, sseTerminal, sseRing, sseParsed, sseSeed, sseAttempt,
                   sseReceiver, sseGot, sseQueued>>

(* EnsureEventQueueCapacity: a larger array takes the events in their order. *)
GrownRing ==
    LET wanted == IF RingCapacity = 0 THEN SseDefaultQueue ELSE 2 * RingCapacity
        size == Min({Max({wanted, sseRing.count + 1}), SseMaxQueue})
    IN  [slots |-> [i \in 1..size |->
             IF i <= sseRing.count THEN sseRing.slots[1 + ((sseRing.head + i - 1) % RingCapacity)] ELSE 0],
         head |-> 0, tail |-> sseRing.count, count |-> sseRing.count]

(* An event: DispatchEvent takes its id over before EnqueueEvent stores it.   *)
(* The count that is written back is the one that was read here.              *)
EnqueueEvent(k) ==
    LET ring == IF sseRing.count + 1 <= RingCapacity THEN sseRing ELSE GrownRing
        id == sseStreams[k].next
    IN  /\ sseStreams[k].at = "body" /\ sseLife = "live" /\ ~sseOpen.failed
        /\ id <= SseMaxEvents
        /\ sseParsed' = id
        /\ IF sseRing.count + 1 > SseMaxQueue
           THEN StreamMoves(k, "failed") /\ UNCHANGED <<sseRing, sseQueued>>
           ELSE /\ sseQueued' = id
                /\ sseRing' = [ring EXCEPT !.slots[ring.tail + 1] = id,
                                           !.tail = (@ + 1) % Len(ring.slots)]
                /\ sseStreams' = [sseStreams EXCEPT ![k].at = "counting", ![k].next = id + 1,
                                                    ![k].count = sseRing.count]
        /\ UNCHANGED <<sseLife, sseAnswer, sseSeed, sseAttempt, sseReceiver, sseGot>>

EventIsCounted(k) ==
    /\ sseStreams[k].at = "counting"
    /\ sseRing' = [sseRing EXCEPT !.count = sseStreams[k].count + 1]
    /\ StreamMoves(k, "body")
    /\ UNCHANGED <<sseLife, sseAnswer, sseParsed, sseSeed, sseAttempt, sseReceiver, sseGot, sseQueued>>

(* The last chunk: the only place where the kernel build marks the end. *)
StreamFinishes(k) ==
    /\ sseStreams[k].at = "body" /\ sseLife = "live" /\ ~sseOpen.failed
    /\ sseTerminal' = TRUE
    /\ StreamMoves(k, "finished")
    /\ UNCHANGED <<sseLife, sseOpen, sseCode, sseAccepted, sseRing, sseParsed, sseSeed, sseAttempt,
                   sseReceiver, sseGot, sseQueued>>

(* The request fails, or notices that it was cancelled: nothing is told to    *)
(* the client.                                                                *)
StreamBreaks(k) ==
    /\ sseStreams[k].at \in {"connecting", "started", "body"}
    /\ StreamMoves(k, "failed")
    /\ UNCHANGED <<sseLife, sseAnswer, sseRing, sseParsed, sseSeed, sseAttempt, sseReceiver,
                   sseGot, sseQueued>>

----------------------------------------
(* The application's side                                                  *)

(* Mutant: the new parser starts from what the last one read alone. *)
BuildForgetsSeed ==
    LET k == Cardinality(SseStarted) + 1
    IN  /\ k <= SseMaxStreams
        /\ sseStreams' = [j \in SseStreams |->
               IF j = k THEN [at |-> "connecting", next |-> sseParsed + 1, cancelled |-> FALSE, count |-> 0]
               ELSE IF j < k THEN [sseStreams[j] EXCEPT !.cancelled = TRUE] ELSE sseStreams[j]]
        /\ sseOpen' = OpenPending /\ sseCode' = 0 /\ sseAccepted' = FALSE /\ sseTerminal' = FALSE
        /\ sseParsed' = 0 /\ sseSeed' = sseParsed

(* BuildAndStartStream: cancel the old request, reset, start the new one.  *)
BuildAndStartStream ==
    LET k == Cardinality(SseStarted) + 1
    IN  /\ k <= SseMaxStreams
        /\ sseStreams' = [j \in SseStreams |->
               IF j = k THEN [at |-> "connecting", next |-> SseLastId + 1, cancelled |-> FALSE, count |-> 0]
               ELSE IF j < k THEN [sseStreams[j] EXCEPT !.cancelled = TRUE] ELSE sseStreams[j]]
        /\ sseOpen' = OpenPending /\ sseCode' = 0 /\ sseAccepted' = FALSE /\ sseTerminal' = FALSE
        /\ sseParsed' = 0 /\ sseSeed' = SseLastId

SseClientConnectSync ==
    /\ sseReceiver.at = "start"
    /\ BuildAndStartStream
    /\ sseReceiver' = [at |-> "opening", status |-> "none"]
    /\ UNCHANGED <<sseLife, sseRing, sseAttempt, sseGot, sseQueued>>

ReceiveReturns(status) == sseReceiver' = [at |-> "returned", status |-> status]

(* ShouldReconnect *)
ShouldReconnect(status) ==
    /\ sseLife = "live"
    /\ ~(sseOpen.failed /\ sseCode = 404)
    /\ SseMaxAttempts = 0 \/ sseAttempt < SseMaxAttempts
    /\ status \notin {"ACCESS_DENIED", "INVALID_NETWORK_RESPONSE"}

(* WaitForOpen returns, signalled or timed out; a failed first connect closes *)
(* the client again.                                                          *)
WaitForOpen ==
    /\ sseReceiver.at = "opening"
    /\ \E status \in (IF sseOpen.ready THEN {sseOpen.status} ELSE {"IO_TIMEOUT"}) :
          \/ /\ status = "SUCCESS"
             /\ sseReceiver' = [at |-> "receive", status |-> "none"]
             /\ UNCHANGED sseLife
          \/ /\ status # "SUCCESS" /\ sseAttempt = 0
             /\ ReceiveReturns(status) /\ sseLife' = "freed"
          \/ /\ status # "SUCCESS" /\ sseAttempt > 0 /\ UNCHANGED sseLife
             /\ IF ShouldReconnect(status) THEN sseReceiver' = [at |-> "receive", status |-> "none"]
                ELSE ReceiveReturns(status)
    /\ UNCHANGED <<sseStreams, sseAnswer, sseRing, sseParsed, sseSeed, sseAttempt, sseGot, sseQueued>>

(* DequeueEvent, with the count read here and written back later. *)
DequeueEvent ==
    /\ sseReceiver.at = "receive" /\ sseLife = "live" /\ sseRing.count > 0
    /\ sseGot' = Append(sseGot, sseRing.slots[sseRing.head + 1])
    /\ sseRing' = [sseRing EXCEPT !.slots[sseRing.head + 1] = 0, !.head = (@ + 1) % RingCapacity]
    /\ sseReceiver' = [at |-> "taken", status |-> "none", count |-> sseRing.count]
    /\ UNCHANGED <<sseStreams, sseLife, sseAnswer, sseParsed, sseSeed, sseAttempt, sseQueued>>

DequeueIsCounted ==
    /\ sseReceiver.at = "taken"
    /\ sseRing' = [sseRing EXCEPT !.count = sseReceiver.count - 1]
    /\ sseReceiver' = [at |-> "receive", status |-> "none"]
    /\ UNCHANGED <<sseStreams, sseLife, sseAnswer, sseParsed, sseSeed, sseAttempt, sseGot, sseQueued>>

(* WaitForEventOrTerminal finds the end of the stream: reconnect or fail. *)
StreamEndIsSeen ==
    /\ sseReceiver.at = "receive" /\ sseLife = "live" /\ sseRing.count = 0 /\ sseTerminal
    /\ IF ShouldReconnect("SUCCESS")
       THEN /\ sseAttempt' = sseAttempt + 1
            /\ sseReceiver' = [at |-> "sleep", status |-> "none"]
       ELSE UNCHANGED sseAttempt /\ ReceiveReturns("CONNECTION_DISCONNECTED")
    /\ UNCHANGED <<sseStreams, sseLife, sseAnswer, sseRing, sseParsed, sseSeed, sseGot, sseQueued>>

(* SleepInterruptible ran to its end. *)
Reconnects ==
    /\ sseReceiver.at = "sleep" /\ sseLife = "live"
    /\ BuildAndStartStream
    /\ sseReceiver' = [at |-> "opening", status |-> "none"]
    /\ UNCHANGED <<sseLife, sseRing, sseAttempt, sseGot, sseQueued>>

(* Close was called: waits and sleeps end with CANCELLED. *)
CloseIsSeen ==
    /\ sseReceiver.at \in {"receive", "sleep", "opening"} /\ sseLife # "live"
    /\ ReceiveReturns("CANCELLED")
    /\ UNCHANGED <<sseStreams, sseLife, sseAnswer, sseRing, sseParsed, sseSeed, sseAttempt, sseGot,
                   sseQueued>>

(* SseClientClose: the flag and the events first, then the request is         *)
(* cancelled and the client freed.                                            *)
SseClientClose ==
    /\ sseReceiver.at # "start" /\ sseLife = "live" /\ sseReceiver.at # "opening"
    /\ sseLife' = "closed"
    /\ UNCHANGED <<sseStreams, sseAnswer, sseRing, sseParsed, sseSeed, sseAttempt, sseReceiver,
                   sseGot, sseQueued>>

DestroyClient ==
    /\ sseLife = "closed"
    /\ sseLife' = "freed"
    /\ sseRing' = EmptyRing
    /\ sseStreams' = [k \in SseStreams |-> [sseStreams[k] EXCEPT !.cancelled = TRUE]]
    /\ UNCHANGED <<sseAnswer, sseParsed, sseSeed, sseAttempt, sseReceiver, sseGot, sseQueued>>

SseInit ==
    /\ sseStreams = [k \in SseStreams |-> SseNoStream] /\ sseLife = "live" /\ sseOpen = OpenPending
    /\ sseCode = 0 /\ sseAccepted = FALSE /\ sseTerminal = FALSE /\ sseRing = EmptyRing
    /\ sseParsed = 0 /\ sseSeed = 0 /\ sseAttempt = 0
    /\ sseReceiver = [at |-> "start", status |-> "none"] /\ sseGot = <<>> /\ sseQueued = 0

SseWorker(k) ==
    \/ CallbackRefused(k) \/ SseResponseStartCallback(k) \/ SseHeaderCallback(k)
    \/ EnqueueEvent(k) \/ EventIsCounted(k) \/ StreamFinishes(k) \/ StreamBreaks(k)

SseReceive ==
    \/ SseClientConnectSync \/ WaitForOpen \/ DequeueEvent \/ DequeueIsCounted
    \/ StreamEndIsSeen \/ Reconnects \/ CloseIsSeen

SseNext == (\E k \in SseStreams : SseWorker(k)) \/ SseReceive \/ SseClientClose \/ DestroyClient

SseFairness == WF_sseVars(SseReceive) /\ \A k \in SseStreams : WF_sseVars(SseWorker(k))

SseSpec == SseInit /\ [][SseNext]_sseVars /\ SseFairness

----------------------------------------
(* A new stream asks to go on right after the last event that was queued,  *)
(* however many streams without an event lie between the two.              *)
ReconnectResumes ==
    [][\A k \in SseStreams : sseStreams[k].at = "none" /\ sseStreams'[k].at = "connecting"
          => sseStreams'[k].next = sseQueued + 1]_sseVars

(* What is returned comes in the order of the ids, none twice, none left out. *)
(* Not kept: a dequeue between the two accesses to the count by an enqueue is *)
(* lost from it, and an empty place of the queue is returned as an event.     *)
EventsComeInOrder == \A i \in DOMAIN sseGot : sseGot[i] = i

(* No callback and no wait touches the client after it was freed. *)
ClientOutlivesUse ==
    sseLife = "freed" =>
        /\ \A k \in SseStreams : sseStreams[k].at \in {"none", "finished", "failed"}
        /\ sseReceiver.at \in {"start", "returned"}

(* A stream that broke off makes the waiting Receive reconnect or return. *)
BrokenStreamIsNoticed ==
    (sseReceiver.at = "receive" /\ \A k \in SseStarted : sseStreams[k].at = "failed")
        ~> (sseReceiver.at # "receive")
=============================================================================
