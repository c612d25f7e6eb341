-------------------------- MODULE Tls12Connection --------------------------
\* The TLS 1.2 client of tls/: the full and the abbreviated handshake of
\* TlsConnect12.cpp, renegotiation at the server's request, the session
\* cache, and record protection with its pending states, against an
\* RFC 5246 server that is external to the code.
\*
\* As in Tls13Connection a transcript is the sequence of messages hashed
\* and a key is the record of what went into it.  One thread uses the
\* connection: Receive runs the renegotiation.
EXTENDS Naturals, Sequences

CONSTANTS
    T12Suites,            \* PRF hashes of the suites the server may choose
    T12Exchanges,         \* key exchanges: subset of {"ecdhe", "rsa"}
    T12ServerAsks,        \* may the server send a CertificateRequest?
    T12ServerTalks,       \* may it send data between HelloRequest and ServerHello?
    T12SessionIds,        \* does it put a session id in the ServerHello of a full handshake? Its choices
    T12MaxSessions,       \* Tls12MaxSessionCount
    T12MaxRenegotiations, \* options.MaxTls12Renegotiations
    T12MaxConnects, T12MaxSends   \* bounds: connections, records of data each way

ASSUME T12Assumption ==
    /\ T12Exchanges \subseteq {"ecdhe", "rsa"}
    /\ {T12ServerAsks, T12ServerTalks} \subseteq BOOLEAN
    /\ T12SessionIds \subseteq BOOLEAN /\ T12SessionIds # {}
    /\ T12MaxSessions \in Nat \ {0} /\ T12MaxRenegotiations \in Nat

VARIABLES
    t12Client,      \* TlsConnection and the local variables of the handshake
    t12Cache,       \* Tls12SessionCache of the caller, oldest session first
    t12Server,      \* the server (external)
    t12Up, t12Down  \* records in flight

t12Vars == <<t12Client, t12Cache, t12Server, t12Up, t12Down>>

T12NoSession == [id |-> 0, sid |-> 0]
T12Clear == [key |-> [side |-> "none"], seq |-> 0]
T12NoData == [alg |-> "none"]
T12NoMaster == [ems |-> T12NoData]

----------------------------------------
(* Keys and records.                                                       *)

T12Hash(suite, transcript) == [alg |-> suite, over |-> transcript]

\* What of a message the transcript keeps; a MAC or signature follows from the rest.
T12Digest(message) == [f \in DOMAIN message \ {"over", "master", "reneg"} |-> message[f]]

\* DeriveExtendedMasterSecret: bound to the transcript up to the ClientKeyExchange.
DeriveExtendedMasterSecret(suite, transcript) == [ems |-> T12Hash(suite, transcript)]

\* DeriveKeyBlock and ConfigureAesGcmStates: one state per direction, sequence number 0.
KeyBlockState(side, master, randoms) ==
    [key |-> [side |-> side, master |-> master, randoms |-> randoms], seq |-> 0]

\* ProtectAesGcm / ProtectAesCbcEncryptThenMac under a write state, or EncodePlaintext.
T12Record(type, state, message) == [type |-> type, seal |-> state, message |-> message]
T12Next1(state) == IF state = T12Clear THEN state ELSE [state EXCEPT !.seq = @ + 1]

\* UnprotectAesGcm / UnprotectAesCbcEncryptThenMac.
T12Opens(record, state) == record.seal = state

\* ComputeVerifyData.
VerifyData(side, master, hash) == [side |-> side, master |-> master, over |-> hash]

----------------------------------------
(* The client.                                                             *)

T12NewClient ==
    [pc |-> "idle", connects |-> 0, suite |-> "sha256", transcript |-> <<>>, read |-> T12Clear,
     write |-> T12Clear, pending |-> T12Clear, session |-> T12NoSession, hello |-> 0,
     randoms |-> <<0, 0>>, exchange |-> "none", master |-> T12NoMaster, newTicket |-> FALSE, ticket |-> 0,
     sessionId |-> 0, requested |-> FALSE, credential |-> FALSE, lastClient |-> T12NoData,
     lastServer |-> T12NoData, renegotiations |-> 0, renegotiating |-> FALSE, sent |-> 0, failedOn |-> "none"]

\* The handshake or the call ends at this message.
T12Fails == /\ t12Client' = [t12Client EXCEPT !.pc = "failed", !.failedOn = Head(t12Down).message.t]
            /\ UNCHANGED <<t12Up, t12Cache>>

\* SendPlainRecord, or SendProtectedRecord once there are keys: messages one per record.
T12Sends(state, messages) ==
    t12Up \o [i \in 1..Len(messages) |->
        T12Record(messages[i].t, IF state = T12Clear THEN state
                                 ELSE [state EXCEPT !.seq = @ + i - 1], messages[i])]
T12Advanced(state, n) == IF state = T12Clear THEN state ELSE [state EXCEPT !.seq = @ + n]

HelloForgetsVerifyData(n, session, last) ==
    [t |-> "ClientHello", n |-> n, session |-> session.id, sid |-> session.sid, reneg |-> T12NoData]

\* EncodeClientHello: the session offered, a ticket with the session id it was stored
\* with, be that empty, and the last verify data in a renegotiation.
T12ClientHello(n, session, last) ==
    [t |-> "ClientHello", n |-> n, session |-> session.id, sid |-> session.sid, reneg |-> last]

\* SelectTls12Session: the newest session that is bound to name, protocol and policy
\* and has not expired; i = 0 when there is none.
SelectTls12Session(i) == IF i = 0 THEN T12NoSession ELSE t12Cache[i]

\* ConnectTls12 up to the ClientHello.
ConnectTls12(i, credential) ==
    LET n == t12Client.hello + 1
        session == SelectTls12Session(i)
        hello == T12ClientHello(n, session, T12NoData)
    IN /\ t12Client.pc = "idle" /\ t12Client.connects < T12MaxConnects
       /\ t12Client' = [T12NewClient EXCEPT
             !.pc = "serverHello", !.connects = t12Client.connects + 1, !.hello = n,
             !.session = session, !.credential = credential,
             !.transcript = <<T12Digest(hello)>>]
       /\ t12Up' = T12Sends(T12Clear, <<hello>>)
       /\ UNCHANGED <<t12Cache, t12Server, t12Down>>

\* ReadHandshakeMessage: the next record, opened under the read state, which moves on.
T12ReadHandshakeMessage ==
    [ok |-> T12Opens(Head(t12Down), t12Client.read), message |-> Head(t12Down).message,
     client |-> [t12Client EXCEPT !.read = T12Next1(@)]]

\* One step of ConnectTls12: a message the step waits for; any other ends the handshake.
T12Reads(pcs, Accepts(_), After(_, _)) ==
    /\ t12Client.pc \in pcs /\ t12Down # <<>>
    /\ LET read == T12ReadHandshakeMessage
       IN IF read.ok /\ Accepts(read.message) THEN After(read.client, read.message) ELSE T12Fails
    /\ t12Down' = Tail(t12Down)
    /\ UNCHANGED t12Server

T12Quiet(c) == t12Client' = c /\ UNCHANGED <<t12Up, t12Cache>>
T12Moves(c, pc, message) == [c EXCEPT !.pc = pc, !.transcript = Append(@, T12Digest(message))]

\* ParseServerHello with its extensions, and ValidateServerHelloOffer: a suite offered.
ParseServerHello12(message) == message.t = "ServerHello"
ValidateServerHelloOffer12(message) == message.suite \in T12Suites

\* The policy checks: extended master secret, and renegotiation_info empty or equal to
\* both last verify data.
AcceptsServerHello12(message) ==
    /\ ParseServerHello12(message) /\ ValidateServerHelloOffer12(message)
    /\ message.reneg = <<t12Client.lastClient, t12Client.lastServer>>

\* Tls12ServerHelloEchoedSessionId: only an echoed session id is taken for resumption, so
\* a ticket offered without one is not seen to be accepted.
EchoedSessionId(c, message) == c.session.sid # 0 /\ message.sid = c.session.sid

\* The ServerHello: with an echoed session the master secret is the cached one and the
\* next records are NewSessionTicket, ChangeCipherSpec and Finished.
ReceiveServerHello12 ==
    T12Reads({"serverHello"}, AcceptsServerHello12,
      LAMBDA c, m :
        LET randoms == <<c.hello, m.random>>
            c1 == [T12Moves(c, "certificate", m) EXCEPT !.suite = m.suite, !.randoms = randoms,
                     !.newTicket = m.ticket, !.sessionId = m.sid, !.exchange = m.exchange]
        IN IF ~c.renegotiating /\ EchoedSessionId(c, m)
           THEN IF c.session.suite # m.suite THEN T12Fails
                ELSE T12Quiet([c1 EXCEPT !.pc = "resumedCcs", !.master = c.session.master,
                         !.pending = KeyBlockState("client", c.session.master, randoms)])
           ELSE T12Quiet(c1))

ParseCertificateList(message) == message.t = "Certificate" /\ message.from = "server"

\* The chain is validated once the stapled response is read.
ReceiveCertificate12 ==
    T12Reads({"certificate"}, ParseCertificateList,
             LAMBDA c, m : T12Quiet(T12Moves(c, "status", m)))

ParseCertificateStatus(message) == message.t = "CertificateStatus"

ReceiveCertificateStatus ==
    /\ t12Down # <<>> /\ ParseCertificateStatus(Head(t12Down).message)
    /\ T12Reads({"status"}, ParseCertificateStatus, LAMBDA c, m : T12Quiet(T12Moves(c, "exchange", m)))

\* VerifyServerKeyExchange: signed over both randoms and the parameters.
VerifyServerKeyExchange(message) == message.signed = t12Client.randoms

ParseServerKeyExchange(message) == message.t = "ServerKeyExchange"

\* Not sent for the RSA key exchange, where the next message is
\* already the CertificateRequest or ServerHelloDone.
ReceiveServerKeyExchange ==
    /\ t12Client.exchange = "ecdhe"
    /\ t12Down # <<>> /\ Head(t12Down).message.t # "CertificateStatus"
    /\ T12Reads({"status", "exchange"},
                LAMBDA m : ParseServerKeyExchange(m) /\ VerifyServerKeyExchange(m),
                LAMBDA c, m : T12Quiet(T12Moves(c, "done", m)))

T12CanFinish(pcs) == t12Client.pc \in pcs /\ (t12Client.pc # "done" => t12Client.exchange = "rsa")

ParseCertificateRequest12(message) == message.t = "CertificateRequest" /\ ~t12Client.requested
MarkServerHelloDone(message) == message.t = "ServerHelloDone"

\* EncodeCertificate: the credential's chain, or an empty list when there is none or no
\* signature scheme in common (SelectClientCredentialSignatureScheme).
EncodeCertificate12(credential) == [t |-> "Certificate", from |-> "client", chain |-> credential]

\* A CertificateRequest: the client's Certificate is encoded, appended to the transcript
\* and sent here, before the ServerHelloDone is read.
AnswerCertificateRequest12(c, m) ==
    LET certificate == EncodeCertificate12(c.credential)
    IN /\ t12Client' = [T12Moves(c, "done", m) EXCEPT
             !.requested = TRUE, !.transcript = Append(@, certificate), !.write = T12Advanced(@, 1)]
       /\ t12Up' = T12Sends(c.write, <<certificate>>)
       /\ UNCHANGED t12Cache

\* GenerateClientKeyExchange and EncodeClientKeyExchange: an ephemeral public key, or the
\* premaster secret under the server's RSA key.
GenerateClientKeyExchange(kind) == [t |-> "ClientKeyExchange", kind |-> kind]

EncodeCertificateVerify12(c, hashed) ==
    [t |-> "CertificateVerify", over |-> T12Hash(c.suite, hashed)]

\* CertificateVerify is signed and the master secret derived over the transcript up to
\* the ClientKeyExchange.
ClientFlight12(c, keyExchange) ==
    LET hashed == Append(c.transcript, keyExchange)
        verify == IF c.requested /\ c.credential
                  THEN <<EncodeCertificateVerify12(c, hashed)>> ELSE <<>>
    IN <<keyExchange>> \o verify

EncodeFinished12(c, master, transcript) ==
    LET verify == VerifyData("client", master, T12Hash(c.suite, transcript))
    IN [t |-> "Finished", from |-> "client", over |-> verify.over, master |-> master]

T12Digests(messages) == [i \in 1..Len(messages) |-> T12Digest(messages[i])]

\* ServerHelloDone: ClientKeyExchange (GenerateClientKeyExchange), CertificateVerify, the
\* ChangeCipherSpec under the current keys, and Finished under the new ones; the read
\* keys wait for the server's ChangeCipherSpec.
AnswerServerHelloDone(c0, m) ==
    LET c == T12Moves(c0, "ccs", m)
        exchange == GenerateClientKeyExchange(c.exchange)
        flight == ClientFlight12(c, exchange)
        master == DeriveExtendedMasterSecret(c.suite, Append(c.transcript, exchange))
        over == c.transcript \o T12Digests(flight)
        finished == EncodeFinished12(c, master, over)
        keys == KeyBlockState("client", master, c.randoms)
    IN /\ t12Client' = [c EXCEPT
             !.master = master, !.transcript = Append(over, T12Digest(finished)),
             !.lastClient = finished.over, !.write = T12Advanced(keys, 1),
             !.pending = KeyBlockState("server", master, c.randoms)]
       /\ t12Up' = T12Sends(c.write, flight \o <<[t |-> "ccs"]>>)
                     \o <<T12Record("Finished", keys, finished)>>
       /\ UNCHANGED t12Cache

\* At most one CertificateRequest, and ServerHelloDone.
ReceiveRequestOrDone ==
    /\ T12CanFinish({"status", "exchange", "done"})
    /\ t12Down # <<>> /\ Head(t12Down).message.t # "CertificateStatus"
    /\ T12Reads({"status", "exchange", "done"},
         LAMBDA m : MarkServerHelloDone(m) \/ ParseCertificateRequest12(m),
         LAMBDA c, m : IF ParseCertificateRequest12(m) THEN AnswerCertificateRequest12(c, m)
                       ELSE AnswerServerHelloDone(c, m))

ParseNewSessionTicket12(message) == message.t = "NewSessionTicket"

\* ConsumeOptionalPlainHandshakeRecord: a NewSessionTicket before the ChangeCipherSpec
\* when the ServerHello announced one.
ReceiveNewSessionTicket12 ==
    /\ t12Down # <<>> /\ ParseNewSessionTicket12(Head(t12Down).message)
    /\ T12Reads({"ccs", "resumedCcs"}, LAMBDA m : t12Client.newTicket,
         LAMBDA c, m : T12Quiet([T12Moves(c, c.pc, m) EXCEPT !.ticket = m.id]))

\* ReadServerChangeCipherSpec: the server's new keys from here on.
ReceiveChangeCipherSpec ==
    /\ t12Down # <<>> /\ ~ParseNewSessionTicket12(Head(t12Down).message)
    /\ T12Reads({"ccs", "resumedCcs"}, LAMBDA m : m.t = "ccs",
         LAMBDA c, m : T12Quiet([c EXCEPT
             !.pc = IF c.pc = "ccs" THEN "finished" ELSE "resumedFinished",
             !.read = KeyBlockState("server", c.master, c.randoms), !.pending = T12Clear]))

\* VerifyFinished.
VerifyFinished12(message) ==
    /\ message.t = "Finished" /\ message.master = t12Client.master
    /\ message.over = T12Hash(t12Client.suite, t12Client.transcript)

\* StoreTls12SessionFromHandshake and StoreTls12SessionInCache: nothing without a session
\* id or ticket, the oldest session makes room.
StoreTls12Session(c) ==
    LET session == [id |-> IF c.ticket # 0 THEN c.ticket ELSE c.sessionId, sid |-> c.sessionId,
                    suite |-> c.suite, master |-> c.master]
    IN t12Cache' = IF c.ticket = 0 /\ c.sessionId = 0 THEN t12Cache
                   ELSE IF Len(t12Cache) < T12MaxSessions THEN Append(t12Cache, session)
                   ELSE Append(Tail(t12Cache), session)

\* The server's Finished ends the full handshake or the renegotiation, which stores no
\* session (FinishTls12RenegotiationAttempt).
ReceiveFinished12 ==
    T12Reads({"finished"}, VerifyFinished12,
      LAMBDA c, m :
        LET c1 == [T12Moves(c, "open", m) EXCEPT !.lastServer = m.over, !.renegotiating = FALSE,
                     !.renegotiations = IF c.renegotiating THEN @ + 1 ELSE @]
        IN /\ t12Client' = c1 /\ UNCHANGED t12Up
           /\ IF c.renegotiating THEN UNCHANGED t12Cache ELSE StoreTls12Session(c1))

\* In the abbreviated handshake the server finishes first; ChangeCipherSpec and Finished
\* answer it.
ReceiveResumedFinished ==
    T12Reads({"resumedFinished"}, VerifyFinished12,
      LAMBDA c0, m :
        LET c == [T12Moves(c0, "open", m) EXCEPT !.lastServer = m.over]
            finished == EncodeFinished12(c, c.master, c.transcript)
            keys == KeyBlockState("client", c.master, c.randoms)
            c1 == [c EXCEPT !.transcript = Append(@, T12Digest(finished)),
                            !.lastClient = finished.over, !.write = T12Advanced(keys, 1)]
        IN /\ t12Client' = c1
           /\ t12Up' = T12Sends(c.write, <<[t |-> "ccs"]>>)
                         \o <<T12Record("Finished", keys, finished)>>
           /\ StoreTls12Session(c1))

----------------------------------------
(* The open connection.                                                    *)

T12Send ==
    /\ t12Client.pc = "open" /\ t12Client.sent < T12MaxSends
    /\ t12Up' = T12Sends(t12Client.write, <<[t |-> "data"]>>)
    /\ t12Client' = [t12Client EXCEPT !.write = T12Advanced(@, 1), !.sent = @ + 1]
    /\ UNCHANGED <<t12Cache, t12Server, t12Down>>

T12ReceiveData ==
    /\ t12Down # <<>> /\ Head(t12Down).message.t # "HelloRequest"
    /\ T12Reads({"open"}, LAMBDA m : m.t = "data", LAMBDA c, m : T12Quiet(c))

\* ConsumeTls12PostHandshakeRecord and RenegotiateTls12: within the limit a HelloRequest
\* starts a handshake inside the current keys, without resumption; beyond it, an error.
RenegotiateTls12 ==
    /\ t12Down # <<>> /\ Head(t12Down).message.t = "HelloRequest"
    /\ T12Reads({"open"}, LAMBDA m : t12Client.renegotiations < T12MaxRenegotiations,
         LAMBDA c, m :
           LET hello == T12ClientHello(c.hello + 1, T12NoSession, c.lastClient)
           IN /\ t12Client' = [c EXCEPT !.pc = "serverHello", !.renegotiating = TRUE,
                    !.hello = @ + 1, !.session = T12NoSession, !.requested = FALSE,
                    !.ticket = 0, !.newTicket = FALSE, !.suite = "sha256",
                    !.transcript = <<T12Digest(hello)>>, !.write = T12Advanced(@, 1)]
              /\ t12Up' = T12Sends(c.write, <<hello>>)
              /\ UNCHANGED t12Cache)

\* The caller is done: the connection is closed and the next Connect starts afresh.
T12Reset ==
    /\ t12Client.pc = "open" /\ t12Server.pc = "open" /\ t12Up = <<>> /\ t12Down = <<>>
    /\ t12Client' = [T12NewClient EXCEPT !.connects = t12Client.connects, !.hello = t12Client.hello]
    /\ t12Server' = [t12Server EXCEPT !.pc = "hello", !.read = T12Clear, !.write = T12Clear,
                       !.last = <<T12NoData, T12NoData>>, !.sent = 0, !.asked = 0]
    /\ UNCHANGED <<t12Cache, t12Up, t12Down>>

----------------------------------------
(* The server (external).                                                  *)

T12NewServer(suite, exchange, status) ==
    [pc |-> "hello", suite |-> suite, exchange |-> exchange, status |-> status, transcript |-> <<>>, read |-> T12Clear, write |-> T12Clear,
     randoms |-> <<0, 0>>, master |-> T12NoMaster, last |-> <<T12NoData, T12NoData>>, random |-> 0, sessions |-> <<>>,
     resuming |-> FALSE, ticket |-> 0, failed |-> FALSE, sent |-> 0, asked |-> 0]

T12ServerFails == t12Server' = [t12Server EXCEPT !.pc = "failed", !.failed = TRUE]
                  /\ t12Up' = <<>> /\ UNCHANGED t12Down

T12ServerSends(state, messages) ==
    t12Down \o [i \in 1..Len(messages) |->
        T12Record(messages[i].t, IF state = T12Clear THEN state
                                 ELSE [state EXCEPT !.seq = @ + i - 1], messages[i])]

\* ServerHello, and for a full handshake everything up to ServerHelloDone; for a known
\* session ChangeCipherSpec and Finished at once.  A server that issues a ticket may leave
\* the session id empty; one that accepts a session echoes what the client sent (RFC 5077).
T12ServerHello(ask, ticket, named) ==
    LET exchange == t12Server.exchange
        hello == t12Up[1].message
        initial == t12Server.last = <<T12NoData, T12NoData>>
        resumed == initial /\ hello.session \in 1..Len(t12Server.sessions)
        random == t12Server.random + 1
        randoms == <<hello.n, random>>
        fresh == Len(t12Server.sessions) + 1
        sh == [t |-> "ServerHello", random |-> random, suite |-> t12Server.suite,
               exchange |-> exchange, ticket |-> ticket,
               sid |-> IF resumed THEN hello.sid ELSE IF named THEN fresh ELSE 0,
               reneg |-> t12Server.last]
        certificate == <<[t |-> "Certificate", from |-> "server"]>>
            \o (IF t12Server.status THEN <<[t |-> "CertificateStatus"]>> ELSE <<>>)
            \o (IF exchange = "ecdhe" THEN <<[t |-> "ServerKeyExchange", signed |-> randoms]>> ELSE <<>>)
            \o (IF ask THEN <<[t |-> "CertificateRequest"]>> ELSE <<>>)
            \o <<[t |-> "ServerHelloDone"]>>
        announce == IF ticket THEN <<[t |-> "NewSessionTicket", id |-> hello.session]>> ELSE <<>>
        base == <<T12Digest(hello), T12Digest(sh)>>
        master == t12Server.sessions[hello.session]
        keys(side) == KeyBlockState(side, master, randoms)
        finished == [t |-> "Finished", from |-> "server", master |-> master,
                     over |-> T12Hash(t12Server.suite, base \o announce)]
    IN /\ t12Server.pc \in {"hello", "open"} /\ t12Up # <<>> /\ hello.t = "ClientHello"
       /\ t12Server.pc = "open" => t12Server.asked > 0
       /\ IF ~T12Opens(t12Up[1], t12Server.read) \/ hello.reneg # t12Server.last[1]
          THEN T12ServerFails
          ELSE /\ t12Up' = Tail(t12Up)
               /\ IF resumed
                  THEN /\ t12Server' = [t12Server EXCEPT
                             !.pc = "ccs", !.resuming = TRUE, !.randoms = randoms,
                             !.random = random, !.master = master,
                             !.transcript = base \o announce \o <<T12Digest(finished)>>,
                             !.last = <<T12NoData, finished.over>>,
                             !.write = T12Advanced(keys("server"), 1)]
                       /\ t12Down' = T12ServerSends(t12Server.write, <<sh>> \o announce \o <<[t |-> "ccs"]>>)
                                      \o <<T12Record("Finished", keys("server"), finished)>>
                  ELSE /\ t12Server' = [t12Server EXCEPT
                             !.pc = "flight", !.resuming = FALSE, !.randoms = randoms,
                             !.random = random, !.read = T12Next1(@),
                             !.ticket = IF ticket THEN fresh ELSE 0,
                             !.transcript = base \o T12Digests(certificate),
                             !.write = T12Advanced(@, Len(certificate) + 1)]
                       /\ t12Down' = T12ServerSends(t12Server.write, <<sh>> \o certificate)
       /\ UNCHANGED <<t12Client, t12Cache>>

\* The client's flight: the ClientKeyExchange fixes the master secret, a signature or
\* Finished must be over the server's own transcript.
T12ServerReads ==
    /\ t12Server.pc \in {"flight", "ccs", "finished"} /\ t12Up # <<>>
    /\ LET message == t12Up[1].message
           hash == T12Hash(t12Server.suite, t12Server.transcript)
           s == [t12Server EXCEPT !.read = T12Next1(@),
                                  !.transcript = Append(@, T12Digest(message))]
           announce == IF s.ticket # 0 THEN <<[t |-> "NewSessionTicket", id |-> s.ticket]>> ELSE <<>>
           over == s.transcript \o announce
           finished == [t |-> "Finished", from |-> "server", master |-> s.master,
                        over |-> T12Hash(s.suite, over)]
           keys == KeyBlockState("server", s.master, s.randoms)
       IN IF \/ ~T12Opens(t12Up[1], t12Server.read)
             \/ "over" \in DOMAIN message /\ message.over # hash
             \/ message.t = "ClientHello"
          THEN T12ServerFails
          ELSE /\ t12Up' = Tail(t12Up)
               /\ IF message.t = "Finished" /\ ~s.resuming
                  THEN /\ t12Server' = [s EXCEPT !.pc = "open", !.asked = 0,
                             !.last = <<message.over, finished.over>>,
                             !.sessions = Append(@, s.master),
                             !.transcript = Append(over, T12Digest(finished)),
                             !.write = T12Advanced(keys, 1)]
                       /\ t12Down' = T12ServerSends(s.write, announce \o <<[t |-> "ccs"]>>)
                                      \o <<T12Record("Finished", keys, finished)>>
                  ELSE /\ UNCHANGED t12Down
                       /\ t12Server' =
                            CASE message.t = "ClientKeyExchange" ->
                                   [s EXCEPT !.master = DeriveExtendedMasterSecret(s.suite, s.transcript)]
                              [] message.t = "ccs" ->
                                   [t12Server EXCEPT !.pc = "finished",
                                      !.read = KeyBlockState("client", s.master, s.randoms)]
                              [] message.t = "Finished" ->
                                   [s EXCEPT !.pc = "open", !.last = <<message.over, @[2]>>]
                              [] OTHER -> s
    /\ UNCHANGED <<t12Client, t12Cache>>

T12ServerReceivesData ==
    /\ t12Server.pc = "open" /\ t12Up # <<>> /\ t12Up[1].message.t = "data"
    /\ IF T12Opens(t12Up[1], t12Server.read)
       THEN /\ t12Server' = [t12Server EXCEPT !.read = T12Next1(@)]
            /\ t12Up' = Tail(t12Up) /\ UNCHANGED t12Down
       ELSE T12ServerFails
    /\ UNCHANGED <<t12Client, t12Cache>>

T12ServerWrites(message) ==
    /\ t12Server.pc = "open"
    /\ t12Down' = T12ServerSends(t12Server.write, <<message>>)
    /\ UNCHANGED <<t12Client, t12Cache, t12Up>>

T12ServerSendsData ==
    /\ t12Server.sent < T12MaxSends /\ (t12Server.asked > 0 => T12ServerTalks)
    /\ T12ServerWrites([t |-> "data"])
    /\ t12Server' = [t12Server EXCEPT !.sent = @ + 1, !.write = T12Advanced(@, 1)]

\* It asks no more often than the client's limit allows.
T12ServerAsksHello ==
    /\ t12Server.asked = 0 /\ t12Client.renegotiations < T12MaxRenegotiations
    /\ t12Client.pc = "open"
    /\ T12ServerWrites([t |-> "HelloRequest"])
    /\ t12Server' = [t12Server EXCEPT !.asked = 1, !.write = T12Advanced(@, 1)]

----------------------------------------
Tls12Init ==
    /\ t12Client = T12NewClient /\ t12Cache = <<>>
    /\ \E suite \in T12Suites, exchange \in T12Exchanges, status \in BOOLEAN :
          t12Server = T12NewServer(suite, exchange, status)
    /\ t12Up = <<>> /\ t12Down = <<>>

Tls12Next ==
    \/ \E i \in 0..Len(t12Cache), credential \in BOOLEAN : ConnectTls12(i, credential)
    \/ ReceiveServerHello12 \/ ReceiveCertificate12 \/ ReceiveCertificateStatus
    \/ ReceiveServerKeyExchange \/ ReceiveRequestOrDone
    \/ ReceiveNewSessionTicket12 \/ ReceiveChangeCipherSpec \/ ReceiveFinished12
    \/ ReceiveResumedFinished \/ T12Send \/ T12ReceiveData \/ RenegotiateTls12 \/ T12Reset
    \/ \E ask, ticket \in BOOLEAN, named \in T12SessionIds :
          (ask => T12ServerAsks) /\ T12ServerHello(ask, ticket, named)
    \/ T12ServerReads \/ T12ServerReceivesData \/ T12ServerSendsData \/ T12ServerAsksHello

Tls12Spec == Tls12Init /\ [][Tls12Next]_t12Vars

----------------------------------------
\* The server accepted a ticket that the client had offered with an empty session id.
AcceptedUnseen == t12Server.resuming /\ t12Client.session.id # 0 /\ t12Client.session.sid = 0

\* Against a server that conforms, the two ends never disagree through full and
\* abbreviated handshakes, tickets and renegotiation: every signature and Finished is
\* over the transcript of the other end, the renegotiation info of each end is the other
\* end's verify data, and every record opens under the reader's key and sequence number.
\* Two things the client does not take end it: a ticket accepted without a session id,
\* and data between a HelloRequest and the ServerHello it asks for.
Tls12EndsAgree ==
    /\ t12Client.pc = "failed" =>
          \/ AcceptedUnseen /\ t12Client.failedOn \in {"NewSessionTicket", "ccs"}
          \/ t12Client.renegotiating /\ t12Client.failedOn = "data"
    /\ ~t12Server.failed

\* A ticket a full handshake stored can be used (ConnectTls12 looks at the session id
\* only, TlsConnect12.cpp:211).  The code does not keep this.
TicketsResume == t12Client.pc = "failed" => ~AcceptedUnseen

\* Data may come while a renegotiation is asked for (RenegotiateTls12 waits for the
\* ServerHello alone, TlsConnect12.cpp:1046).  The code does not keep this.
DataMayPrecedeServerHello == t12Client.pc = "failed" => t12Client.failedOn # "data"

=============================================================================
