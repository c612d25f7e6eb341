--------------------------- MODULE QuicHandshake ---------------------------
\* A QUIC connection from StartNetwork to the confirmed handshake: the
\* TLS 1.3 client of quic/QuicTls.cpp fed by CRYPTO frames, the packets,
\* keys, acknowledgements and probes of QuicConnectionIo.cpp, Retry and
\* HelloRetryRequest, against an RFC 9000 server (external) over a network
\* that loses, duplicates and reorders packets.
\*
\* A CRYPTO stream is numbered by message, a transcript is the sequence of
\* messages hashed, and a key is the record of what it was derived from.
EXTENDS Naturals, Sequences, FiniteSets, SequencesExt

CONSTANTS
    QhSuites,           \* cipher suites the server may choose
    QhServerUses,       \* what the server does: sets drawn from {"retry", "hrr", "ask"}
    QhCredentials,      \* the caller's client credential: subset of {"none", "small", "large"}
    QhMaxLosses,        \* bounds: packets lost, packets duplicated, probes and
    QhMaxDuplicates,    \* retransmissions of the server
    QhMaxProbes,
    QhMaxResends

ASSUME QhAssumption ==
    /\ QhCredentials \subseteq {"none", "small", "large"}
    /\ QhServerUses \subseteq SUBSET {"retry", "hrr", "ask"}
    /\ {QhMaxLosses, QhMaxDuplicates, QhMaxProbes, QhMaxResends} \subseteq Nat

VARIABLES
    qhClient,           \* QuicConnection and its QuicTls
    qhServer,           \* the server (external)
    qhUp, qhDown,       \* packets in flight
    qhFaults            \* losses and duplications so far

qhVars == <<qhClient, qhServer, qhUp, qhDown, qhFaults>>

QhLevels == {"initial", "handshake", "application"}

QhNoKey == [level |-> "none"]

\* QuicDeriveInitialKeySets: from the destination connection id of the first Initial.
QhInitialKey(cid) == [level |-> "initial", cid |-> cid]

\* QuicInstallReadSecret and QuicInstallWriteSecret: handshake and application keys.
QhSecretKey(level, suite, transcript) == [level |-> level, suite |-> suite, over |-> transcript]

QhEach(x) == [level \in QhLevels |-> x]

----------------------------------------
(* Sending: every function below maps the client to the client; `out' holds *)
(* the packets sent by the current step and `ok' its status.               *)

\* QuicConnection::Initialize and QuicTls::Initialize; connection ids 1 (the random
\* destination) and 2 (the one the Retry gives).
QhNewClient(credential) ==
    [state |-> "Idle", tls |-> "Idle", ok |-> TRUE, out |-> {}, armed |-> FALSE,
     credential |-> credential, cid |-> 1, retry |-> FALSE, hrr |-> FALSE, hellos |-> 0,
     suite |-> "none", transcript |-> <<>>, key |-> QhEach(QhNoKey), discarded |-> FALSE,
     pn |-> QhEach(0), seen |-> QhEach({}), ackPending |-> FALSE, outstanding |-> {},
     crypto |-> QhEach({}), parsed |-> QhEach(0), pendingHello |-> FALSE, requested |-> FALSE,
     params |-> <<>>, applied |-> FALSE, finishedSent |-> FALSE, probes |-> 0]

QhFails(c) == [c EXCEPT !.ok = FALSE]

\* DiscardInitialKeys, with the first Handshake packet.
QhDiscardInitialKeys(c) ==
    [c EXCEPT !.discarded = TRUE, !.key["initial"] = QhNoKey, !.crypto["initial"] = {},
              !.parsed["initial"] = 0]

\* QuicProtectPacket: the packet under the write key of its level.
QhProtects(c, level, frame) ==
    [level |-> level, pn |-> c.pn[level], key |-> c.key[level], cid |-> c.cid,
     token |-> c.retry, frame |-> frame]

\* QuicUnprotectPacket: only with the key that protected it.
QhUnprotects(c, packet) == c.key[packet.level] # QhNoKey /\ c.key[packet.level] = packet.key

\* SendFramePacket and OnPacketSent: one frame per packet.
SendFramePacket(c, level, frame, eliciting) ==
    IF c.key[level] = QhNoKey THEN QhFails(c)
    ELSE LET sent == [c EXCEPT
                 !.out = @ \cup {QhProtects(c, level, frame)},
                 !.pn[level] = @ + 1,
                 !.outstanding = IF eliciting THEN @ \cup {<<level, c.pn[level]>>} ELSE @]
         IN IF level = "handshake" /\ ~c.discarded THEN QhDiscardInitialKeys(sent) ELSE sent

QhCrypto(offset, messages) == [t |-> "crypto", offset |-> offset, messages |-> messages]

\* SendCryptoPacket: the whole output in one packet, or it does not fit the frame buffer.
SendCryptoPacket(c, level, offset, messages, fits) ==
    IF fits THEN SendFramePacket(c, level, QhCrypto(offset, messages), TRUE) ELSE QhFails(c)

QhHello(n) == [t |-> "ClientHello", n |-> n]

\* QuicTls::Start.
QhTlsStart(c) == [c EXCEPT !.tls = "AwaitServerHello", !.hellos = 1]

\* SendInitialClientHello.
SendInitialClientHello(c) == SendCryptoPacket(c, "initial", 0, <<QhHello(1)>>, TRUE)

\* StartNetwork.
QhStartNetwork ==
    SendInitialClientHello(QhTlsStart(
        [qhClient EXCEPT !.state = "Handshaking", !.armed = TRUE,
                         !.key["initial"] = QhInitialKey(qhClient.cid)]))

\* SendAck: the ranges of the space; a packet that asks for no acknowledgement itself.
SendAck(c, level) ==
    SendFramePacket(c, level, [t |-> "ack", seen |-> c.seen[level]], FALSE)

----------------------------------------
(* QuicTls.                                                                *)

\* QuicTls::Fail.
QhTlsFails(c) == [QhFails(c) EXCEPT !.tls = "Failed"]
QhHears(c, tls, message) == [c EXCEPT !.tls = tls, !.transcript = Append(@, message)]

\* ProcessHelloRetryRequest: once; the first hello is replaced by its hash.
ProcessHelloRetryRequest(c, message) ==
    IF c.hrr THEN QhTlsFails(c)
    ELSE [c EXCEPT !.hrr = TRUE, !.pendingHello = TRUE, !.suite = message.suite,
                   !.transcript = <<[t |-> "message_hash", of |-> QhHello(1)], message, QhHello(2)>>]

\* InstallSharedSecret: handshake keys over the transcript up to the ServerHello.
InstallSharedSecret(c) ==
    [c EXCEPT !.tls = "AwaitEncryptedExtensions",
              !.key["handshake"] = QhSecretKey("handshake", c.suite, c.transcript)]

ProcessServerHello(c, message) ==
    IF message.t # "ServerHello" THEN QhTlsFails(c)
    ELSE IF message.hrr THEN ProcessHelloRetryRequest(c, message)
    ELSE LET before == IF c.hrr THEN c.transcript ELSE <<QhHello(1)>>
         IN InstallSharedSecret([c EXCEPT !.suite = message.suite,
                                          !.transcript = Append(before, message)])

\* ProcessEncryptedExtensions: ALPN h3 and the server's transport parameters.
ProcessEncryptedExtensions(c, message) ==
    IF message.t # "EncryptedExtensions" THEN QhTlsFails(c)
    ELSE [QhHears(c, "AwaitCertificate", message) EXCEPT !.params = message.params]

\* SelectClientCredentialSignature.
QhSendsVerify(c) == c.requested /\ c.credential # "none"

\* ProcessCertificate and ValidateCertificate: the server's chain is a valid one.
ProcessCertificate(c, message) == QhHears(c, "AwaitCertificateVerify", message)

\* A Certificate, or a CertificateRequest before it.
ProcessCertificateOrRequest(c, message) ==
    CASE message.t = "CertificateRequest" ->
           [QhHears(c, "AwaitCertificate", message) EXCEPT !.requested = TRUE]
      [] message.t = "Certificate" -> ProcessCertificate(c, message)
      [] OTHER -> QhTlsFails(c)

\* VerifyCertificateSignature: over the transcript so far.
QhVerifyCertificateSignature(c, message) == message.over = c.transcript

ProcessCertificateVerify(c, message) ==
    IF message.t = "CertificateVerify" /\ QhVerifyCertificateSignature(c, message)
    THEN QhHears(c, "AwaitFinished", [t |-> "CertificateVerify"]) ELSE QhTlsFails(c)

\* AppendClientCredentialOutput: the chain and its signature, or an empty Certificate.
AppendClientCredentialOutput(c) ==
    LET certificate == [t |-> "Certificate", chain |-> c.credential]
        hashed == Append(c.transcript, certificate)
    IN IF ~c.requested THEN <<>>
       ELSE IF QhSendsVerify(c) THEN <<certificate, [t |-> "CertificateVerify", over |-> hashed]>>
       ELSE <<certificate>>

QhDigest(message) == [f \in DOMAIN message \ {"over"} |-> message[f]]
QhDigests(messages) == [i \in 1..Len(messages) |-> QhDigest(messages[i])]

\* The client's flight, with Finished over everything before it.
QhFlight(c) ==
    LET credential == AppendClientCredentialOutput(c)
    IN Append(credential, [t |-> "Finished", over |-> c.transcript \o QhDigests(credential)])

\* ProcessFinished: application keys over the transcript up to the server's Finished.
ProcessFinished(c, message) ==
    IF message.t # "Finished" \/ message.over # c.transcript THEN QhTlsFails(c)
    ELSE LET heard == QhHears(c, "Established", [t |-> "Finished"])
         IN [heard EXCEPT !.key["application"] =
                QhSecretKey("application", c.suite, heard.transcript)]

\* QuicTls::ProcessMessage: which message each state expects, and at which level; a ticket
\* is stored in the session cache, whose content no later handshake reads.
ProcessMessage(c, level, message) ==
    CASE c.tls = "AwaitServerHello" /\ level = "initial" -> ProcessServerHello(c, message)
      [] c.tls = "AwaitEncryptedExtensions" /\ level = "handshake" ->
           ProcessEncryptedExtensions(c, message)
      [] c.tls = "AwaitCertificate" /\ level = "handshake" -> ProcessCertificateOrRequest(c, message)
      [] c.tls = "AwaitCertificateVerify" /\ level = "handshake" ->
           ProcessCertificateVerify(c, message)
      [] c.tls = "AwaitFinished" /\ level = "handshake" -> ProcessFinished(c, message)
      [] c.tls = "Established" /\ level = "application" /\ message.t = "NewSessionTicket" -> c
      [] OTHER -> QhTlsFails(c)

\* ProcessBufferedMessages: each once, until one fails.
ProcessBufferedMessages(c, level, messages) ==
    FoldLeft(LAMBDA a, m : IF ~a.ok THEN a
                           ELSE [ProcessMessage(a, level, m) EXCEPT !.parsed[level] = @ + 1],
             c, messages)

\* Any frame processed as it arrives, whatever precedes it in the stream.
DrainOutOfOrder(c, level) ==
    LET waiting == {x \in c.crypto[level] : x[1] >= c.parsed[level]}
    IN IF waiting = {} THEN c
       ELSE LET x == CHOOSE y \in waiting : \A z \in waiting : y[1] >= z[1]
            IN ProcessMessage([c EXCEPT !.parsed[level] = x[1] + 1], level, x[2])

\* DrainCrypto: the messages that follow what was parsed without a gap.
DrainCrypto(c, level) ==
    LET first == c.parsed[level]
        offsets == {x[1] : x \in c.crypto[level]}
        count == CHOOSE n \in 0..Cardinality(offsets) :
                    (\A i \in 0..(n - 1) : first + i \in offsets) /\ first + n \notin offsets
        message(i) == (CHOOSE x \in c.crypto[level] : x[1] = i)[2]
    IN ProcessBufferedMessages(c, level, [j \in 1..count |-> message(first + j - 1)])

\* ReceiveCrypto: into the reassembly of the level.
ReceiveCrypto(c, level, frame) ==
    IF c.tls = "Failed" THEN QhFails(c)
    ELSE DrainCrypto([c EXCEPT !.crypto[level] = @ \cup
             {<<frame.offset + i - 1, frame.messages[i]>> : i \in 1..Len(frame.messages)}], level)

----------------------------------------
(* Receiving a packet.                                                     *)

\* OnAckRangesReceived: acknowledged packets are forgotten, and so are the ones declared
\* lost; what they carried is not sent again.
OnAckRangesReceived(c, level, seen) ==
    LET acknowledged == {<<level, n>> : n \in seen}
        lost == {x \in c.outstanding : x[1] = level /\ \E n \in seen : x[2] + 3 <= n}
    IN IF \E n \in seen : n >= c.pn[level] THEN QhFails(c)
       ELSE [c EXCEPT !.outstanding = @ \ (acknowledged \cup lost)]

\* ConfirmHandshake: the handshake keys go; the connection is established whatever its
\* state was.
QhConfirmHandshake(c) ==
    [c EXCEPT !.state = "Established", !.key["handshake"] = QhNoKey, !.crypto["handshake"] = {},
              !.parsed["handshake"] = 0]

\* DispatchFrame, for the frames of a handshake.
QhDispatchFrame(c, level, frame) ==
    CASE frame.t = "ack" -> OnAckRangesReceived(c, level, frame.seen)
      [] frame.t = "crypto" -> ReceiveCrypto(c, level, frame)
      [] frame.t = "done" -> IF level # "application" \/ c.tls # "Established" THEN QhFails(c)
                             ELSE QhConfirmHandshake(c)

DispatchFrames(c, level, frames) ==
    FoldLeft(LAMBDA a, f : IF a.ok THEN QhDispatchFrame(a, level, f) ELSE a, c, frames)

\* The transport parameters name the first destination connection id, and the source
\* connection id of the Retry if there was one.
QhParametersMatch(c) == c.params = IF c.retry THEN <<1, 2>> ELSE <<1, 0>>

\* HandleTlsProgress: a second ClientHello first; then, once, the parameters; then, once,
\* the client's flight under the handshake keys.
HandleTlsProgress(c) ==
    IF c.pendingHello
    THEN [SendCryptoPacket(c, "initial", c.hellos, <<QhHello(2)>>, TRUE) EXCEPT
             !.pendingHello = FALSE, !.hellos = 2]
    ELSE IF ~c.applied /\ c.params # <<>> /\ ~QhParametersMatch(c) THEN QhFails(c)
    ELSE LET a == [c EXCEPT !.applied = c.params # <<>>]
         IN IF a.tls # "Established" \/ a.finishedSent THEN a
            ELSE [SendCryptoPacket(a, "handshake", 0, QhFlight(a),
                                   ~(a.requested /\ a.credential = "large"))
                  EXCEPT !.finishedSent = TRUE]

\* ValidateRetry: one Retry per attempt.
ValidateRetry(c) == ~c.retry

\* The restart under new Initial keys.
QhReceiveRetry(c, packet) ==
    IF ~ValidateRetry(c) THEN c
    ELSE LET a == [c EXCEPT !.retry = TRUE, !.cid = packet.cid, !.pn["initial"] = 0,
                            !.seen["initial"] = {}, !.outstanding = {},
                            !.key["initial"] = QhInitialKey(packet.cid)]
         IN SendInitialClientHello(a)

\* ValidateFrames: whether the packet asks for an acknowledgement.
QhAckEliciting(frames) == \E i \in DOMAIN frames : frames[i].t # "ack"

\* ProcessPacket: without the key of its level the packet is dropped, so is a duplicate;
\* Initial and Handshake packets are acknowledged at once.
ProcessPacket(c, packet) ==
    IF packet.level = "retry" THEN QhReceiveRetry(c, packet)
    ELSE LET level == packet.level
             heard == [c EXCEPT !.seen[level] = @ \cup {packet.pn}]
             dispatched == DispatchFrames(heard, level, packet.frames)
             progressed == IF dispatched.ok THEN HandleTlsProgress(dispatched) ELSE dispatched
         IN IF ~QhUnprotects(c, packet) \/ packet.pn \in c.seen[level] THEN c
            ELSE IF ~progressed.ok \/ ~QhAckEliciting(packet.frames) THEN progressed
            ELSE IF level = "application" THEN [progressed EXCEPT !.ackPending = TRUE]
            ELSE SendAck(progressed, level)

\* FailConnection: after a CONNECTION_CLOSE.
QhFailConnection(c) == [c EXCEPT !.state = "Failed", !.armed = FALSE, !.ok = TRUE]

\* ProcessReceiveCompletion: a connection that closes takes one more datagram.
QhReceiveCompleted(c) ==
    IF ~c.ok THEN QhFailConnection(c)
    ELSE [c EXCEPT !.armed = c.state \in {"Handshaking", "Established"}]

\* What the step sent; the server keeps no packet for an acknowledgement, so one that
\* holds nothing else is not followed further.
QhSendsUp(c) ==
    /\ qhClient' = [c EXCEPT !.out = {}]
    /\ qhUp' = qhUp \cup {packet \in c.out : packet.frame.t # "ack"}

QhConnect ==
    /\ qhClient.state = "Idle"
    /\ QhSendsUp(QhStartNetwork)
    /\ UNCHANGED <<qhServer, qhDown, qhFaults>>

\* A packet arrives; the network may keep a copy.
QhArrives(packet, copy) ==
    /\ copy => qhFaults.duplicates < QhMaxDuplicates
    /\ qhFaults' = IF copy THEN [qhFaults EXCEPT !.duplicates = @ + 1] ELSE qhFaults

QhReceive(packet, copy) ==
    /\ qhClient.armed
    /\ QhArrives(packet, copy)
    /\ qhDown' = IF copy THEN qhDown ELSE qhDown \ {packet}
    /\ QhSendsUp(QhReceiveCompleted(ProcessPacket(qhClient, packet)))
    /\ UNCHANGED qhServer

\* ProcessDeadlines: the delayed acknowledgement of the application space.
QhAckTimer ==
    /\ qhClient.state = "Established" /\ qhClient.ackPending
    /\ QhSendsUp([SendAck(qhClient, "application") EXCEPT !.ackPending = FALSE])
    /\ UNCHANGED <<qhServer, qhDown, qhFaults>>

\* SendProbe: a PING in the space whose timer fired, nothing if its keys are gone.
SendProbe(c, level) ==
    IF c.key[level] = QhNoKey THEN c ELSE SendFramePacket(c, level, [t |-> "ping"], TRUE)

QhPtoFires(level) ==
    /\ qhClient.state \in {"Handshaking", "Established"} /\ qhClient.probes < QhMaxProbes
    /\ \E x \in qhClient.outstanding : x[1] = level
    /\ QhSendsUp([SendProbe(qhClient, level) EXCEPT !.probes = @ + 1])
    /\ UNCHANGED <<qhServer, qhDown, qhFaults>>

\* Nothing in flight and nothing that would be sent again: the idle time-out is longer
\* than any probe or retransmission of either side.
QhQuiet ==
    /\ qhClient.state \in {"Handshaking", "Established"} /\ qhUp = {} /\ qhDown = {}
    /\ qhClient.probes = QhMaxProbes \/ qhClient.outstanding = {}
    /\ qhServer.resends = QhMaxResends \/ qhServer.state = "listen"

\* EnterClosing, at the caller's request or when the connection was idle too long.
QhEnterClosing ==
    /\ qhClient.state = "Established" \/ QhQuiet
    /\ qhClient' = [qhClient EXCEPT !.state = "Closing"]
    /\ UNCHANGED <<qhServer, qhUp, qhDown, qhFaults>>

\* TransitionToClosed after three probe time-outs.
QhClosed ==
    /\ qhClient.state \in {"Closing", "Failed"}
    /\ qhClient' = [qhClient EXCEPT !.state = "Closed", !.armed = FALSE]
    /\ UNCHANGED <<qhServer, qhUp, qhDown, qhFaults>>

----------------------------------------
(* The server and the network (external).                                  *)

QhNewServer(retry, hrr, ask, suite) ==
    [state |-> "listen", retry |-> retry, hrr |-> hrr, ask |-> ask, suite |-> suite,
     key |-> QhEach(QhNoKey), pn |-> QhEach(0), seen |-> QhEach({}), got |-> {},
     sent |-> QhEach(<<>>), transcript |-> <<>>, done |-> FALSE, resends |-> 0]

\* Packets with the frames given, each with an acknowledgement of the space.
QsPacket(s, level, number, frames) ==
    [level |-> level, pn |-> s.pn[level] + number, key |-> s.key[level],
     frames |-> <<[t |-> "ack", seen |-> s.seen[level]]>> \o frames]

QsSends(s, packets) ==
    /\ qhDown' = qhDown \cup packets
    /\ qhServer' = [s EXCEPT !.pn = [level \in QhLevels |->
                       @[level] + Cardinality({p \in packets : p.level = level})]]

QsHelloRetry(s) ==
    LET message == [t |-> "ServerHello", hrr |-> TRUE, suite |-> s.suite]
        a == [s EXCEPT !.state = "hello2", !.sent["initial"] = <<message>>,
                !.transcript = <<[t |-> "message_hash", of |-> QhHello(1)], message>>]
    IN QsSends(a, {QsPacket(a, "initial", 0, <<QhCrypto(0, a.sent["initial"])>>)})

\* ServerHello, and everything up to Finished in two packets.
QsServerHello(s, hello, cid) ==
    LET message == [t |-> "ServerHello", hrr |-> FALSE, suite |-> s.suite]
        t1 == s.transcript \o <<hello, message>>
        extensions == [t |-> "EncryptedExtensions", params |-> IF cid = 2 THEN <<1, 2>> ELSE <<1, 0>>]
        head == <<extensions>> \o (IF s.ask THEN <<[t |-> "CertificateRequest"]>> ELSE <<>>)
        t2 == t1 \o head \o <<[t |-> "Certificate"]>>
        verify == [t |-> "CertificateVerify", over |-> t2]
        t3 == Append(t2, QhDigest(verify))
        tail == <<[t |-> "Certificate"], verify, [t |-> "Finished", over |-> t3]>>
        t4 == Append(t3, [t |-> "Finished"])
        a == [s EXCEPT !.state = "finished", !.transcript = t4,
                !.sent["initial"] = Append(@, message), !.sent["handshake"] = head \o tail,
                !.key["handshake"] = QhSecretKey("handshake", s.suite, t1),
                !.key["application"] = QhSecretKey("application", s.suite, t4)]
        at == Len(s.sent["initial"])
    IN QsSends(a, {QsPacket(a, "initial", 0, <<QhCrypto(at, <<message>>)>>),
                   QsPacket(a, "handshake", 0, <<QhCrypto(0, head)>>),
                   QsPacket(a, "handshake", 1, <<QhCrypto(Len(head), tail)>>)})

\* The client's flight: every signature and Finished over the server's own transcript.
QsChecks(s, messages) ==
    \A i \in 1..Len(messages) :
        "over" \in DOMAIN messages[i] =>
            messages[i].over = s.transcript \o QhDigests(SubSeq(messages, 1, i - 1))

QsFinished(s, messages) ==
    LET a == [s EXCEPT !.state = "open", !.done = TRUE, !.key["initial"] = QhNoKey]
    IN IF QsChecks(s, messages)
       THEN QsSends(a, {QsPacket(a, "handshake", 0, <<>>),
                        QsPacket(a, "application", 0, <<[t |-> "done"],
                                   QhCrypto(0, <<[t |-> "NewSessionTicket"]>>)>>)})
       ELSE qhServer' = [s EXCEPT !.state = "failed"] /\ UNCHANGED qhDown

QsReceive(packet, copy) ==
    LET level == packet.level
        fresh == level = "initial" /\ qhServer.state = "listen"
        s0 == IF fresh THEN [qhServer EXCEPT !.key["initial"] = packet.key] ELSE qhServer
        s == [s0 EXCEPT !.seen[level] = @ \cup {packet.pn}]
        hello == packet.frame.t = "crypto"
    IN /\ QhArrives(packet, copy)
       /\ qhUp' = IF copy THEN qhUp ELSE qhUp \ {packet}
       /\ CASE fresh /\ hello /\ s.retry /\ ~packet.token ->
                 /\ qhDown' = qhDown \cup {[level |-> "retry", cid |-> 2]} /\ UNCHANGED qhServer
            [] s0.key[level] # packet.key \/ packet.pn \in qhServer.seen[level] \/ (fresh /\ ~hello) ->
                 UNCHANGED <<qhServer, qhDown>>
            [] hello /\ level = "initial" /\ s.state = "listen" /\ s.hrr -> QsHelloRetry(s)
            [] hello /\ level = "initial" /\ (s.state = "listen" \/
                  (s.state = "hello2" /\ packet.frame.offset = 1)) ->
                 QsServerHello(s, packet.frame.messages[1], packet.cid)
            [] hello /\ level = "handshake" /\ s.state = "finished" ->
                 QsFinished(s, packet.frame.messages)
            [] OTHER -> qhServer' = s /\ UNCHANGED qhDown
       /\ UNCHANGED qhClient

\* Its probe time-out: what the peer may still miss, in new packets.
QsResends ==
    LET s == [qhServer EXCEPT !.resends = @ + 1]
        levels == {level \in QhLevels : s.key[level] # QhNoKey /\ s.sent[level] # <<>>}
    IN /\ s.state \in {"hello2", "finished", "open"} /\ qhServer.resends < QhMaxResends
       /\ QsSends(s, IF s.done THEN {QsPacket(s, "application", 0, <<[t |-> "done"]>>)}
                     ELSE {QsPacket(s, level, 0, <<QhCrypto(0, s.sent[level])>>) : level \in levels})
       /\ UNCHANGED <<qhClient, qhUp, qhFaults>>

\* The network loses a packet; both ends have a time-out left for what it carried.
QhLoses ==
    /\ qhFaults.losses < QhMaxLosses /\ qhFaults' = [qhFaults EXCEPT !.losses = @ + 1]
    /\ qhClient.probes < QhMaxProbes /\ qhServer.resends < QhMaxResends
    /\ \/ \E packet \in qhDown : qhDown' = qhDown \ {packet} /\ UNCHANGED qhUp
       \/ \E packet \in qhUp : qhUp' = qhUp \ {packet} /\ UNCHANGED qhDown
    /\ UNCHANGED <<qhClient, qhServer>>

----------------------------------------
QhInit ==
    /\ \E credential \in QhCredentials : qhClient = QhNewClient(credential)
    /\ \E uses \in QhServerUses, suite \in QhSuites :
          qhServer = QhNewServer("retry" \in uses, "hrr" \in uses, "ask" \in uses, suite)
    /\ qhUp = {} /\ qhDown = {} /\ qhFaults = [losses |-> 0, duplicates |-> 0]

QhClientReceives == \E packet \in qhDown, copy \in BOOLEAN : QhReceive(packet, copy)
QhServerReceives == \E packet \in qhUp, copy \in BOOLEAN : QsReceive(packet, copy)
QhTimers == \E level \in QhLevels : QhPtoFires(level)

QhNext ==
    \/ QhConnect \/ QhClientReceives \/ QhAckTimer \/ QhTimers \/ QhEnterClosing \/ QhClosed
    \/ QhServerReceives \/ QsResends \/ QhLoses

QhSpec == QhInit /\ [][QhNext]_qhVars

----------------------------------------
\* Loss, duplication, reordering, Retry and HelloRetryRequest never make the client or a
\* conforming server give up, and once the client reports the connection established both
\* hold the same application keys and the server has checked the client's Finished.
QuicEndsAgree ==
    /\ qhClient.state # "Failed" /\ qhServer.state # "failed"
    /\ qhClient.state = "Established" =>
          qhServer.state = "open" /\ qhClient.key["application"] = qhServer.key["application"]

\* A connection that begins closing never becomes established again: HANDSHAKE_DONE in
\* the datagram still pending must not undo EnterClosing.
QuicClosingIsFinal ==
    [][qhClient.state \in {"Closing", "Failed", "Closed"} => qhClient'.state # "Established"]_qhVars

\* Recovery from loss: a handshake that lost a packet is not left with nothing more to
\* send while both ends could still send.
HandshakeSurvivesLoss == QhQuiet => qhClient.state # "Handshaking"

=============================================================================
