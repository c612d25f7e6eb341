-------------------------- MODULE Tls13Connection --------------------------
\* The TLS 1.3 client of tls/: the handshake of TlsConnect13.cpp, record
\* protection (TlsRecordIo.cpp, TlsRecord.cpp), the key schedule
\* (TlsContext.cpp) and what follows the handshake (TlsPostHandshake.cpp,
\* TlsConnection::Send and Receive), against a server that conforms to
\* RFC 8446 and is external to the code.
\*
\* Cryptography is symbolic.  A transcript is the sequence of messages
\* hashed, a key is the record of all that went into its derivation, and a
\* sealed record opens only under the same key and sequence number.
EXTENDS Naturals, Sequences

CONSTANTS
    Tls13Suites,          \* hashes of the cipher suites the server may choose
    Tls13Usages,          \* how the caller uses the connection, see Usages
    Tls13ServerResumes,   \* does the server accept the tickets it issued?
    Tls13MaxTickets,      \* Tls13MaxTicketCount
    Tls13MaxConnects,     \* bound: connections made one after the other
    Tls13MaxSends,        \* bound: records of application data in each direction
    Tls13MaxEvents        \* bound: post-handshake messages of the server

\* "duplex": one thread sends while another receives (HTTP/2, WebSocket);
\* "turns": one thread, post-handshake client authentication allowed;
\* "duplex-auth": both.
TlsUsages == {"duplex", "turns", "duplex-auth"}

ASSUME Tls13Assumption ==
    /\ Tls13Usages \subseteq TlsUsages
    /\ Tls13ServerResumes \in BOOLEAN
    /\ Tls13MaxTickets \in Nat \ {0}

VARIABLES
    tlsClient,     \* TlsConnection and the local variables of ConnectTls13
    tlsSender,     \* the thread inside Send
    tlsOut,        \* outputBuffer_: the record sealed last
    tlsCache,      \* Tls13SessionCache of the caller, oldest ticket first
    tlsServer,     \* the server (external)
    tlsUp, tlsDown \* records in flight on the TCP connection

tls13Vars == <<tlsClient, tlsSender, tlsOut, tlsCache, tlsServer, tlsUp, tlsDown>>

NoTicket == [id |-> 0]
NoKey == [level |-> "plain"]
NoSeal == [key |-> NoKey, seq |-> 0]

----------------------------------------
(* Key schedule. A secret is named by what it was derived from.            *)

\* TlsTranscriptHash::ReplaceWithMessageHash: after a HelloRetryRequest the first
\* ClientHello is replaced by its hash.
MessageHash(hello) == [t |-> "message_hash", of |-> hello]

\* What of a message the transcript keeps: a binder, a signature or a MAC follows from
\* the messages before it, and is compared where it is checked.
Digest(message) == [f \in DOMAIN message \ {"binder", "over", "key"} |-> message[f]]
Digests(messages) == [i \in 1..Len(messages) |-> Digest(messages[i])]

\* FinishTranscript under the hash of a suite.
TranscriptHash(suite, transcript) == [alg |-> suite, over |-> transcript]

\* DeriveTrafficState: a key and IV from a traffic secret, with sequence number 0.
TrafficState(level, side, psk, share, over) ==
    [key |-> [level |-> level, side |-> side, psk |-> psk, share |-> share,
              over |-> over, gen |-> 0],
     seq |-> 0]

\* DeriveTls13EarlySecret and DeriveTls13ClientEarlyTrafficSecret. The transcript is
\* still the SHA-256 one ConnectTls13 starts with.
EarlyState(ticket, hello) ==
    TrafficState("early", "client", ticket, 0, TranscriptHash("sha256", <<Digest(hello)>>))

\* DeriveTls13HandshakeSecrets.
HandshakeState(side, psk, share, over) == TrafficState("handshake", side, psk, share, over)

\* DeriveTls13ApplicationSecrets.
ApplicationState(side, psk, share, over) == TrafficState("application", side, psk, share, over)

\* UpdateTls13ApplicationTrafficSecret.
UpdatedState(state) == [key |-> [state.key EXCEPT !.gen = @ + 1], seq |-> 0]

\* The resumption secret of a ticket, from a master secret over a transcript.
ResumptionSecret(suite, share, over, nonce) ==
    [suite |-> suite, share |-> share, over |-> over, nonce |-> nonce]

----------------------------------------
(* Records.                                                                *)

PlainRecord(type, messages) == [type |-> type, seal |-> NoSeal, body |-> messages]

\* ProtectAesGcm13WithScratch: seal under the write state and count the record.
Sealed(type, state, messages) == [type |-> type, seal |-> state, body |-> messages]
Advanced(state) == [state EXCEPT !.seq = @ + 1]

\* UnprotectAesGcm13: the tag verifies under the reader's key and sequence number.
Opens(record, state) == record.seal = state

\* ReadRecord: open the record unless it is a ChangeCipherSpec or no keys are
\* installed. The new read state, or "bad" when the tag does not verify.
ReadRecord(record, state) ==
    IF state = NoSeal \/ record.type = "ccs" THEN [ok |-> record.seal = NoSeal, state |-> state]
    ELSE [ok |-> Opens(record, state), state |-> Advanced(state)]

----------------------------------------
(* Client: messages.                                                       *)

\* ComputePskBinder: a MAC under the ticket's secret.
ComputePskBinder(ticket, over) == [secret |-> ticket.secret, hash |-> TranscriptHash(ticket.suite, over)]

\* FindPskBinderTranscriptLength: the hello up to its binders.
WithoutBinder(n, ticket, early) ==
    [t |-> "ClientHello", n |-> n, psk |-> ticket.id, early |-> early]

\* ComputePskBinderForClientHello: over the hello without its binders, after the
\* message hash of the first hello and the HelloRetryRequest when there was one.
BinderForClientHello(n, ticket, early, before) ==
    IF ticket = NoTicket THEN "none"
    ELSE ComputePskBinder(ticket, Append(before, WithoutBinder(n, ticket, early)))

\* EncodeClientHello, without the binder and then with it. OfferEarlyData is not
\* taken back for the second hello.
EncodeClientHello(n, ticket, early, before) ==
    [t |-> "ClientHello", n |-> n, psk |-> ticket.id, early |-> early,
     binder |-> BinderForClientHello(n, ticket, early, before)]

\* SelectTls13Ticket: the newest ticket that has not expired and is bound to the
\* name, protocol and policy in use; i = 0 when there is none.
SelectTls13Ticket(i) == IF i = 0 THEN NoTicket ELSE tlsCache[i]

----------------------------------------
(* Client: the handshake.                                                  *)

HandshakeFails == tlsClient' = [tlsClient EXCEPT !.pc = "failed"]

NewClient(usage) ==
    [pc |-> "idle", usage |-> usage, connects |-> 0, ticket |-> NoTicket, early |-> FALSE,
     suite |-> "sha256", transcript |-> <<>>, first |-> <<>>, retried |-> FALSE,
     buffer |-> <<>>, read |-> NoSeal, write |-> NoSeal, psk |-> "none", earlyAccepted |-> FALSE,
     requested |-> FALSE, credential |-> FALSE, app |-> <<>>, updateRequested |-> FALSE,
     reply |-> <<>>, received |-> 0]

\* Connect and the first flight of ConnectTls13: reset, choose a ticket, encode the
\* hello with its binder, send it, and early data under the early keys.
ConnectTls13(i, early, credential) ==
    LET ticket == SelectTls13Ticket(i)
        offers == early /\ ticket # NoTicket
        hello == EncodeClientHello(1, ticket, offers, <<>>)
        keys == EarlyState(ticket, hello)
    IN /\ tlsClient.pc = "idle" /\ tlsClient.connects < Tls13MaxConnects
       /\ tlsClient' = [NewClient(tlsClient.usage) EXCEPT
             !.pc = "serverHello", !.connects = tlsClient.connects + 1,
             !.ticket = ticket, !.early = offers, !.credential = credential,
             !.suite = IF ticket = NoTicket THEN "sha256" ELSE ticket.suite,
             !.transcript = <<Digest(hello)>>, !.first = <<Digest(hello)>>,
             !.write = IF offers THEN Advanced(keys) ELSE NoSeal]
       /\ tlsUp' = <<PlainRecord("handshake", <<hello>>)>> \o
             (IF offers THEN <<Sealed("data", keys, <<[t |-> "early"]>>)>> ELSE <<>>)
       /\ UNCHANGED <<tlsSender, tlsOut, tlsCache, tlsServer, tlsDown>>

\* ReadHandshakeMessage: the next message of handshakeBuffer_, or of the next record.
\* A ChangeCipherSpec is accepted once, right after the keys are installed
\* (ReadOptionalCompatibilityChangeCipherSpec); any other record but a handshake
\* record, and one whose tag fails, ends the handshake.
NextMessage ==
    IF tlsClient.buffer # <<>> THEN [ok |-> TRUE, state |-> tlsClient.read,
                                     all |-> tlsClient.buffer, rest |-> tlsDown]
    ELSE LET skip == tlsClient.pc = "extensions" /\ tlsDown # <<>> /\ Head(tlsDown).type = "ccs"
             from == IF skip THEN Tail(tlsDown) ELSE tlsDown
             opened == ReadRecord(Head(from), tlsClient.read)
         IN [ok |-> opened.ok /\ Head(from).type = "handshake", state |-> opened.state,
             all |-> Head(from).body, rest |-> Tail(from)]

CanRead ==
    \/ tlsClient.buffer # <<>>
    \/ /\ tlsDown # <<>>
       /\ tlsClient.pc = "extensions" /\ Head(tlsDown).type = "ccs" => Len(tlsDown) > 1

\* One step of ConnectTls13: read a message, and what the code makes of it.
ReadsMessage(pc, Accept(_), After(_, _)) ==
    /\ tlsClient.pc = pc /\ CanRead
    /\ LET n == NextMessage
           message == Head(n.all)
           c == [tlsClient EXCEPT !.buffer = Tail(n.all), !.read = n.state]
       IN /\ tlsDown' = n.rest
          /\ IF n.ok /\ Accept(message) THEN After(c, message)
             ELSE HandshakeFails /\ UNCHANGED tlsUp
    /\ UNCHANGED <<tlsSender, tlsOut, tlsCache, tlsServer>>

\* ValidateSelectedPskForConnection: the selected identity was offered and its suite is
\* the negotiated one.
ValidateSelectedPsk(message) ==
    message.psk # 0 => /\ tlsClient.ticket # NoTicket
                       /\ tlsClient.ticket.suite = message.suite

ParseServerHello(message) == message.t = "ServerHello" /\ message.suite \in Tls13Suites

\* ValidateServerHelloOffer: the key share answers the group offered last, and a
\* HelloRetryRequest asks for another group than the one already offered.
ValidateServerHelloOffer(message) == message.retry => ~tlsClient.retried

AcceptsServerHello(message) ==
    /\ ParseServerHello(message) /\ ValidateServerHelloOffer(message)
    /\ ValidateSelectedPsk(message)
    /\ message.retry => tlsClient.ticket = NoTicket \/ tlsClient.ticket.suite = message.suite

\* A HelloRetryRequest: a new key share, a new binder over the message hash, and the
\* second hello.
ReceiveHelloRetryRequest(c, message) ==
    LET before == <<MessageHash(c.first), message>>
        hello == EncodeClientHello(2, c.ticket, c.early, before)
    IN /\ message.retry
       /\ tlsClient' = [c EXCEPT !.retried = TRUE, !.suite = message.suite,
                                 !.transcript = Append(before, Digest(hello))]
       /\ tlsUp' = Append(tlsUp, PlainRecord("handshake", <<hello>>))

\* The ServerHello: derive the shared secret, rebuild the transcript under the suite's
\* hash, install the handshake keys in both directions.
DeriveHandshakeKeys(c, message) ==
    LET over == Append(c.transcript, message)
        psk == IF message.psk # 0 THEN c.ticket.secret ELSE "none"
        share == IF c.retried THEN 2 ELSE 1
    IN /\ ~message.retry
       /\ tlsClient' = [c EXCEPT
             !.pc = "extensions", !.suite = message.suite, !.transcript = over, !.psk = psk,
             !.read = HandshakeState("server", psk, share, TranscriptHash(message.suite, over)),
             !.write = HandshakeState("client", psk, share, TranscriptHash(message.suite, over))]
       /\ UNCHANGED tlsUp

ReceiveServerHello ==
    ReadsMessage("serverHello", AcceptsServerHello,
          LAMBDA c, m : ReceiveHelloRetryRequest(c, m) \/ DeriveHandshakeKeys(c, m))

ParseEncryptedExtensions(message) == message.t = "EncryptedExtensions"

\* Early data may be accepted only if it was offered and the ticket was selected.
AcceptsExtensions(message) ==
    /\ ParseEncryptedExtensions(message)
    /\ message.early => tlsClient.early /\ tlsClient.psk # "none"

MovesTo(pc, c, message) == [c EXCEPT !.pc = pc, !.transcript = Append(@, Digest(message))]

ReceiveEncryptedExtensions ==
    ReadsMessage("extensions", AcceptsExtensions,
          LAMBDA c, m : /\ tlsClient' = [MovesTo("certificateOrRequest", c, m) EXCEPT
                                            !.earlyAccepted = m.early]
                        /\ UNCHANGED tlsUp)

\* ReadCertificateOrRequest: whatever the key exchange was, the server's Certificate
\* follows, after an optional CertificateRequest.
ParseCertificate(message) == message.t = "Certificate"

\* ValidateTls13Certificate: the verdict of CertificateValidator::ValidateChain.
ValidateTls13Certificate(message) == message.from = "server"

ParseCertificateRequest(message) == message.t = "CertificateRequest"

AcceptsCertificate(message) ==
    \/ ParseCertificate(message) /\ ValidateTls13Certificate(message)
    \/ ParseCertificateRequest(message) /\ ~tlsClient.requested

ReceiveCertificateOrRequest ==
    ReadsMessage("certificateOrRequest", AcceptsCertificate,
          LAMBDA c, m :
            /\ tlsClient' = IF m.t = "Certificate" THEN MovesTo("certificateVerify", c, m)
                            ELSE [MovesTo("certificateOrRequest", c, m) EXCEPT !.requested = TRUE]
            /\ UNCHANGED tlsUp)

ParseCertificateVerify(message) == message.t = "CertificateVerify"

\* The signature is over the transcript up to the Certificate; the message is
\* appended afterwards.
VerifyTls13CertificateVerify(message) ==
    message.over = TranscriptHash(tlsClient.suite, tlsClient.transcript)

AcceptsVerify(message) == ParseCertificateVerify(message) /\ VerifyTls13CertificateVerify(message)

ReceiveCertificateVerify ==
    ReadsMessage("certificateVerify", AcceptsVerify,
          LAMBDA c, m : tlsClient' = MovesTo("finished", c, m) /\ UNCHANGED tlsUp)

\* A MAC under the server's handshake traffic secret.
VerifyFinished(message) ==
    /\ message.t = "Finished"
    /\ message.key = tlsClient.read.key
    /\ message.over = TranscriptHash(tlsClient.suite, tlsClient.transcript)

EncodeCertificate(c) == [t |-> "Certificate", from |-> "client", some |-> c.credential]

\* BuildCertificateVerifyInput, the caller's Sign and EncodeCertificateVerify; sent only
\* with a credential whose signature scheme the server accepts.
EncodeCertificateVerify(c, over) ==
    IF c.credential THEN <<[t |-> "CertificateVerify", over |-> TranscriptHash(c.suite, over)]>> ELSE <<>>

EncodeFinished(c, key, over) == [t |-> "Finished", key |-> key, over |-> TranscriptHash(c.suite, over)]

\* The client's second flight, one message to a record, under the handshake keys:
\* EndOfEarlyData, Certificate, CertificateVerify with a credential, Finished.
ClientFlight(c) ==
    LET end == IF c.earlyAccepted THEN <<[t |-> "EndOfEarlyData"]>> ELSE <<>>
        certificate == IF c.requested THEN <<EncodeCertificate(c)>> ELSE <<>>
        before == c.transcript \o end \o certificate
        verify == IF c.requested THEN EncodeCertificateVerify(c, before) ELSE <<>>
        finished == EncodeFinished(c, c.write.key, before \o Digests(verify))
    IN Append(end \o certificate \o verify, finished)

\* The server's Finished: derive the application secrets and the resumption master
\* secret from the transcript so far, answer with the second flight, install the
\* application keys.
ReceiveFinished ==
    ReadsMessage("finished", VerifyFinished,
          LAMBDA c0, m :
            LET c == MovesTo("open", c0, m)
                flight == ClientFlight(c)
                share == IF c.retried THEN 2 ELSE 1
                over == TranscriptHash(c.suite, c.transcript)
            IN /\ tlsClient' = [c EXCEPT
                     !.app = c.transcript, !.transcript = @ \o Digests(flight),
                     !.read = ApplicationState("server", c.psk, share, over),
                     !.write = ApplicationState("client", c.psk, share, over)]
               /\ tlsUp' = tlsUp \o [i \in 1..Len(flight) |->
                     Sealed("handshake", [c.write EXCEPT !.seq = @ + i - 1], <<flight[i]>>)])

----------------------------------------
(* Client: the open connection.                                            *)

MayDuplex == tlsClient.usage \in {"duplex", "duplex-auth"}
MayAuthenticate == tlsClient.usage \in {"turns", "duplex-auth"}

\* Seal a record into outputBuffer_ under the write state.
SealRecord(type, message) ==
    /\ tlsOut' = Sealed(type, tlsClient.write, <<message>>)
    /\ tlsClient' = [tlsClient EXCEPT !.write = Advanced(@)]

EncodeKeyUpdate == [t |-> "KeyUpdate", request |-> FALSE]

\* Send, per fragment: SendPendingTls13KeyUpdate when the peer asked for one, that is
\* the KeyUpdate record, its transmission and then the new keys; then the record.
TlsSend ==
    /\ tlsClient.pc = "open" /\ tlsSender.pc = "idle" /\ tlsSender.sent < Tls13MaxSends
    /\ MayDuplex \/ tlsClient.reply = <<>>
    /\ IF tlsClient.updateRequested
       THEN /\ tlsOut' = Sealed("handshake", tlsClient.write, <<EncodeKeyUpdate>>)
            /\ tlsClient' = [tlsClient EXCEPT !.updateRequested = FALSE, !.write = Advanced(@)]
            /\ tlsSender' = [tlsSender EXCEPT !.pc = "update"]
       ELSE SealRecord("data", [t |-> "data"]) /\ tlsSender' = [tlsSender EXCEPT !.pc = "data"]
    /\ UNCHANGED <<tlsCache, tlsServer, tlsUp, tlsDown>>

KeyUpdateKeepsKeys ==
    /\ tlsSender.pc = "update"
    /\ tlsUp' = Append(tlsUp, tlsOut)
    /\ tlsSender' = [tlsSender EXCEPT !.pc = "fragment"]
    /\ UNCHANGED <<tlsClient, tlsOut, tlsCache, tlsServer, tlsDown>>

SendPendingTls13KeyUpdate ==
    /\ tlsSender.pc = "update"
    /\ tlsUp' = Append(tlsUp, tlsOut)
    /\ tlsClient' = [tlsClient EXCEPT !.write = UpdatedState(@)]
    /\ tlsSender' = [tlsSender EXCEPT !.pc = "fragment"]
    /\ UNCHANGED <<tlsOut, tlsCache, tlsServer, tlsDown>>

SendFragment ==
    /\ tlsSender.pc = "fragment"
    /\ SealRecord("data", [t |-> "data"])
    /\ tlsSender' = [tlsSender EXCEPT !.pc = "data"]
    /\ UNCHANGED <<tlsCache, tlsServer, tlsUp, tlsDown>>

TlsSendAll ==
    /\ tlsSender.pc = "data"
    /\ tlsUp' = Append(tlsUp, tlsOut)
    /\ tlsSender' = [tlsSender EXCEPT !.pc = "idle", !.sent = @ + 1]
    /\ UNCHANGED <<tlsClient, tlsOut, tlsCache, tlsServer, tlsDown>>

\* StoreTls13Ticket: the secret comes from the resumption master secret, which
\* DeriveTls13ApplicationSecrets took over the transcript up to the server's Finished.
StoreTls13Ticket(ticket) ==
    LET stored == [id |-> ticket.id, suite |-> tlsClient.suite,
                   secret |-> ResumptionSecret(tlsClient.suite, tlsClient.read.key.share,
                                               tlsClient.app, ticket.id)]
    IN tlsCache' = IF Len(tlsCache) < Tls13MaxTickets THEN Append(tlsCache, stored)
                   ELSE Append(Tail(tlsCache), stored)

\* The answer to a post-handshake CertificateRequest, from the thread that receives.
PostHandshakeReply(request) ==
    LET certificate == EncodeCertificate(tlsClient)
        before == tlsClient.transcript \o <<request, certificate>>
        verify == EncodeCertificateVerify(tlsClient, before)
    IN <<certificate>> \o verify \o
       <<EncodeFinished(tlsClient, "application", before \o Digests(verify))>>

ParseNewSessionTicket(message) == message.t = "NewSessionTicket"
ParseKeyUpdate(message) == message.t = "KeyUpdate"

\* Receive and ConsumeTls13PostHandshakeRecord for one record: data is delivered, a
\* ticket is stored, a KeyUpdate moves the read keys and leaves its answer to the
\* sender, a CertificateRequest is answered at once or refused by policy.
TlsReceive ==
    /\ tlsClient.pc = "open" /\ tlsClient.reply = <<>> /\ tlsDown # <<>>
    /\ MayDuplex \/ tlsSender.pc = "idle"
    /\ LET opened == ReadRecord(Head(tlsDown), tlsClient.read)
           message == Head(Head(tlsDown).body)
           c == [tlsClient EXCEPT !.read = opened.state]
       IN \/ ~opened.ok /\ HandshakeFails /\ UNCHANGED tlsCache
          \/ /\ opened.ok /\ message.t = "data"
             /\ tlsClient' = [c EXCEPT !.received = @ + 1] /\ UNCHANGED tlsCache
          \/ /\ opened.ok /\ ParseNewSessionTicket(message)
             /\ StoreTls13Ticket(message) /\ tlsClient' = c
          \/ /\ opened.ok /\ ParseKeyUpdate(message)
             /\ tlsClient' = [c EXCEPT !.read = UpdatedState(@),
                                       !.updateRequested = @ \/ message.request]
             /\ UNCHANGED tlsCache
          \/ /\ opened.ok /\ ParseCertificateRequest(message)
             /\ IF MayAuthenticate
                THEN tlsClient' = [c EXCEPT !.reply = PostHandshakeReply(message),
                                            !.transcript = @ \o <<message>>
                                                          \o Digests(PostHandshakeReply(message))]
                ELSE HandshakeFails
             /\ UNCHANGED tlsCache
    /\ tlsDown' = Tail(tlsDown)
    /\ UNCHANGED <<tlsSender, tlsOut, tlsServer, tlsUp>>

\* SendProtectedRecord13 of the reply: seal into the same outputBuffer_, then send.
SealReply ==
    /\ tlsClient.pc = "open" /\ tlsClient.reply # <<>> /\ Head(tlsClient.reply).t # "sealed"
    /\ tlsOut' = Sealed("handshake", tlsClient.write, <<Head(tlsClient.reply)>>)
    /\ tlsClient' = [tlsClient EXCEPT !.write = Advanced(@),
                                      !.reply = <<[t |-> "sealed"]>> \o Tail(@)]
    /\ UNCHANGED <<tlsSender, tlsCache, tlsServer, tlsUp, tlsDown>>

SendReply ==
    /\ tlsClient.pc = "open" /\ tlsClient.reply # <<>> /\ Head(tlsClient.reply).t = "sealed"
    /\ tlsUp' = Append(tlsUp, tlsOut)
    /\ tlsClient' = [tlsClient EXCEPT !.reply = Tail(@)]
    /\ UNCHANGED <<tlsSender, tlsOut, tlsCache, tlsServer, tlsDown>>

\* The caller is done with the connection: Reset, and the next Connect starts afresh.
TlsReset ==
    /\ tlsClient.pc = "open" /\ tlsSender.pc = "idle" /\ tlsClient.reply = <<>>
    /\ tlsUp = <<>> /\ tlsDown = <<>> /\ tlsServer.pc = "open"
    /\ tlsClient' = [NewClient(tlsClient.usage) EXCEPT !.connects = tlsClient.connects]
    /\ tlsSender' = [pc |-> "idle", sent |-> 0]
    /\ tlsOut' = PlainRecord("none", <<>>)
    /\ tlsServer' = [tlsServer EXCEPT !.pc = "listening", !.transcript = <<>>, !.read = NoSeal,
                                      !.write = NoSeal, !.asked = <<>>, !.sent = 0,
                                      !.events = 0, !.early = FALSE]
    /\ UNCHANGED <<tlsCache, tlsUp, tlsDown>>

----------------------------------------
(* The server (external): RFC 8446, told from what the client exchanges    *)
(* with it.                                                                *)

NewServer(suite) ==
    [pc |-> "listening", suite |-> suite, transcript |-> <<>>, read |-> NoSeal, write |-> NoSeal,
     psk |-> "none", share |-> 1, asked |-> <<>>, early |-> FALSE, failed |-> FALSE,
     tickets |-> <<>>, sent |-> 0, events |-> 0]

ServerFails ==
    /\ tlsServer' = [tlsServer EXCEPT !.pc = "failed", !.failed = TRUE]
    /\ tlsUp' = <<>> /\ UNCHANGED tlsDown

ServerRetries(hello) ==
    LET retry == [t |-> "ServerHello", retry |-> TRUE, suite |-> tlsServer.suite, psk |-> 0]
    IN /\ tlsServer' = [tlsServer EXCEPT !.transcript = <<MessageHash(<<Digest(hello)>>), retry>>,
                                         !.early = hello.early, !.share = 2]
       /\ tlsDown' = Append(tlsDown, PlainRecord("handshake", <<retry>>))
       /\ tlsUp' = Tail(tlsUp)

\* ServerHello, a compatibility ChangeCipherSpec or none, and the encrypted flight in
\* one record or one record per message.
ServerAnswers(hello, ccs, packed, request) ==
    LET id == hello.psk
        resumed == Tls13ServerResumes /\ id \in 1..Len(tlsServer.tickets)
        psk == IF resumed THEN tlsServer.tickets[id] ELSE "none"
        good == [secret |-> psk,
                 hash |-> TranscriptHash(tlsServer.suite, Append(tlsServer.transcript, Digest(hello)))]
        share == IF tlsServer.transcript = <<>> THEN 1 ELSE 2
        sh == [t |-> "ServerHello", retry |-> FALSE, suite |-> tlsServer.suite,
               psk |-> IF resumed THEN id ELSE 0]
        base == tlsServer.transcript \o <<Digest(hello), sh>>
        early == resumed /\ hello.early /\ tlsServer.transcript = <<>>
        keys(side) == HandshakeState(side, psk, share, TranscriptHash(tlsServer.suite, base))
        extensions == [t |-> "EncryptedExtensions", early |-> early]
        certificate == IF resumed THEN <<>> ELSE
            (IF request THEN <<[t |-> "CertificateRequest"]>> ELSE <<>>) \o
            <<[t |-> "Certificate", from |-> "server"]>>
        signed == base \o <<extensions>> \o certificate
        verify == IF resumed THEN <<>>
                  ELSE <<[t |-> "CertificateVerify", over |-> TranscriptHash(tlsServer.suite, signed)]>>
        finished == [t |-> "Finished", key |-> keys("server").key,
                     over |-> TranscriptHash(tlsServer.suite, signed \o Digests(verify))]
        flight == <<extensions>> \o certificate \o verify \o <<finished>>
        over == base \o Digests(flight)
    IN IF resumed /\ hello.binder # good THEN ServerFails ELSE
       /\ tlsServer' = [tlsServer EXCEPT
             !.pc = "flight", !.transcript = over, !.psk = psk, !.share = share,
             !.read = keys("client"), !.asked = IF request /\ ~resumed THEN <<"handshake">> ELSE <<>>,
             !.early = hello.early /\ ~early,
             !.write = ApplicationState("server", psk, share,
                                    TranscriptHash(tlsServer.suite, over))]
       /\ tlsDown' = tlsDown \o <<PlainRecord("handshake", <<sh>>)>>
             \o (IF ccs THEN <<PlainRecord("ccs", <<>>)>> ELSE <<>>)
             \o (IF packed THEN <<Sealed("handshake", keys("server"), flight)>>
                 ELSE [i \in 1..Len(flight) |->
                         Sealed("handshake", [keys("server") EXCEPT !.seq = i - 1], <<flight[i]>>)])
       /\ tlsUp' = Tail(tlsUp)

\* A record that was early data is skipped when early data was not accepted.
ServerSkipsEarlyData ==
    /\ tlsUp # <<>> /\ tlsServer.pc \in {"listening", "flight"} /\ tlsServer.early
    /\ Head(tlsUp).seal.key.level = "early"
    /\ tlsUp' = Tail(tlsUp)
    /\ UNCHANGED <<tlsClient, tlsSender, tlsOut, tlsCache, tlsServer, tlsDown>>

ServerHello ==
    /\ tlsServer.pc = "listening" /\ tlsUp # <<>> /\ Head(tlsUp).seal = NoSeal
    /\ LET hello == Head(Head(tlsUp).body)
       IN \/ tlsServer.transcript = <<>> /\ ServerRetries(hello)
          \/ \E ccs, packed, request \in BOOLEAN : ServerAnswers(hello, ccs, packed, request)
    /\ UNCHANGED <<tlsClient, tlsSender, tlsOut, tlsCache>>

\* The client's flight and, afterwards, its records; Finished and CertificateVerify
\* must be over the server's own transcript.
ServerReads ==
    /\ tlsServer.pc \in {"flight", "open"} /\ tlsUp # <<>>
    /\ Head(tlsUp).seal.key.level # "early"
    /\ LET record == Head(tlsUp)
           message == Head(record.body)
           s == [tlsServer EXCEPT !.read = Advanced(@), !.transcript = Append(@, Digest(message))]
           hash == TranscriptHash(tlsServer.suite, tlsServer.transcript)
           authenticates == message.t \in {"Certificate", "CertificateVerify", "Finished"}
       IN IF ~Opens(record, tlsServer.read) \/ ("over" \in DOMAIN message /\ message.over # hash)
          THEN ServerFails
          ELSE /\ tlsServer' =
                    IF message.t = "Finished" /\ s.pc = "flight"
                    THEN [s EXCEPT !.pc = "open", !.asked = <<>>,
                            !.read = ApplicationState("client", s.psk, s.share,
                                                  s.write.key.over)]
                    ELSE IF message.t = "KeyUpdate"
                    THEN [tlsServer EXCEPT !.read = UpdatedState(@)]
                    ELSE IF authenticates THEN [s EXCEPT !.asked =
                            IF message.t = "Finished" THEN <<>> ELSE @]
                    ELSE [tlsServer EXCEPT !.read = Advanced(@)]
               /\ tlsUp' = Tail(tlsUp) /\ UNCHANGED tlsDown
    /\ UNCHANGED <<tlsClient, tlsSender, tlsOut, tlsCache>>

ServerWrites(message, s) ==
    /\ tlsDown' = Append(tlsDown, Sealed(IF message.t = "data" THEN "data" ELSE "handshake",
                                         tlsServer.write, <<message>>))
    /\ tlsServer' = s
    /\ UNCHANGED <<tlsClient, tlsSender, tlsOut, tlsCache, tlsUp>>

ServerSends ==
    /\ tlsServer.pc \in {"flight", "open"} /\ tlsServer.sent < Tls13MaxSends
    /\ ServerWrites([t |-> "data"], [tlsServer EXCEPT !.sent = @ + 1, !.write = Advanced(@)])

ServerUpdatesKeys(request) ==
    /\ tlsServer.pc = "open" /\ tlsServer.events < Tls13MaxEvents
    /\ ServerWrites([t |-> "KeyUpdate", request |-> request],
                    [tlsServer EXCEPT !.events = @ + 1, !.write = UpdatedState(@)])

ServerIssuesTicket ==
    /\ tlsServer.pc = "open" /\ tlsServer.asked = <<>> /\ tlsServer.events < Tls13MaxEvents
    /\ LET id == Len(tlsServer.tickets) + 1
       IN ServerWrites([t |-> "NewSessionTicket", id |-> id],
            [tlsServer EXCEPT !.events = @ + 1, !.write = Advanced(@),
              !.tickets = Append(@, ResumptionSecret(tlsServer.suite, tlsServer.share,
                                                     tlsServer.transcript, id))])

ServerAsksCertificate ==
    /\ tlsServer.pc = "open" /\ MayAuthenticate /\ tlsServer.events < Tls13MaxEvents
    /\ tlsServer.asked = <<>>
    /\ LET request == [t |-> "CertificateRequest"]
       IN ServerWrites(request, [tlsServer EXCEPT !.events = @ + 1, !.write = Advanced(@),
                                   !.asked = <<"post">>, !.transcript = Append(@, request)])

----------------------------------------
Tls13Init ==
    /\ \E usage \in Tls13Usages : tlsClient = NewClient(usage)
    /\ tlsSender = [pc |-> "idle", sent |-> 0]
    /\ tlsOut = PlainRecord("none", <<>>)
    /\ tlsCache = <<>>
    /\ \E suite \in Tls13Suites : tlsServer = NewServer(suite)
    /\ tlsUp = <<>> /\ tlsDown = <<>>

ClientHandshake ==
    \/ \E i \in 0..Len(tlsCache), early, credential \in BOOLEAN : ConnectTls13(i, early, credential)
    \/ ReceiveServerHello \/ ReceiveEncryptedExtensions \/ ReceiveCertificateOrRequest
    \/ ReceiveCertificateVerify \/ ReceiveFinished

Tls13Next ==
    \/ ClientHandshake
    \/ TlsSend \/ SendPendingTls13KeyUpdate \/ SendFragment \/ TlsSendAll
    \/ TlsReceive \/ SealReply \/ SendReply \/ TlsReset
    \/ ServerHello \/ ServerSkipsEarlyData \/ ServerReads \/ ServerSends
    \/ (\E request \in BOOLEAN : ServerUpdatesKeys(request))
    \/ ServerIssuesTicket \/ ServerAsksCertificate

Tls13Spec == Tls13Init /\ [][Tls13Next]_tls13Vars

----------------------------------------
\* Against a server that conforms, over a transport that delivers, the two ends never
\* disagree: every Finished, CertificateVerify and binder is over the transcript the
\* other end has, and every record opens under the reader's key and sequence number,
\* through HelloRetryRequest, declined tickets, key updates in both directions and
\* post-handshake authentication. So neither end gives the connection up.
BothEndsAgree == tlsClient.pc # "failed" /\ ~tlsServer.failed

=============================================================================
