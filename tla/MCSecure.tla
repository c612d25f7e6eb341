------------------------------- MODULE MCSecure -------------------------------
(* What runs over QUIC and what secures a connection: HTTP/3 and QPACK, the     *)
(* QUIC transport and its handshake, TLS 1.2 and 1.3, and the judgement on the   *)
(* server's certificates. focus says which of them a behaviour is about; the     *)
(* others rest in an initial state.                                              *)
EXTENDS Http3Exchange, QpackTables, QuicTransport, QuicHandshake, Tls12Connection,
        Tls13Connection, CertificatePath

VARIABLE focus

Protocols == {"http3", "qpack", "quic", "handshake", "tls12", "tls13", "certificates"}

\* All components but f rest.
Others(f) ==
    /\ UNCHANGED focus
    /\ f # "http3" => UNCHANGED h3Vars
    /\ f # "qpack" => UNCHANGED qpVars
    /\ f # "quic" => UNCHANGED qtVars
    /\ f # "handshake" => UNCHANGED qhVars
    /\ f # "tls12" => UNCHANGED t12Vars
    /\ f # "tls13" => UNCHANGED tls13Vars
    /\ f # "certificates" => UNCHANGED cvVars

\* No chain is being judged.
NoChain ==
    /\ cvIn = <<>> /\ cvPc = "parse" /\ cvCerts = <<>> /\ cvLeaf = [pass |-> 0, index |-> 1]
    /\ cvPath = <<>> /\ cvFrames = <<>> /\ cvUsed = {} /\ cvAnchor = <<>> /\ cvIndex = 1
    /\ cvVerdict = "none"

\* A component that may start in several states rests in one of them.
SecureInit ==
    /\ focus \in Protocols
    /\ H3Init
    /\ QpInit /\ (focus # "qpack" => qpEncoder.kind = CHOOSE kind \in QpEncoders : TRUE)
    /\ QtInit /\ (focus # "quic" => qtServer.uses = CHOOSE uses \in QtScenarios : TRUE)
    /\ QhInit
    /\ focus # "handshake" =>
          /\ qhClient = QhNewClient(CHOOSE c \in QhCredentials : TRUE)
          /\ qhServer = QhNewServer(FALSE, FALSE, FALSE, CHOOSE s \in QhSuites : TRUE)
    /\ Tls12Init
    /\ focus # "tls12" => t12Server = T12NewServer(CHOOSE s \in T12Suites : TRUE,
                                                   CHOOSE x \in T12Exchanges : TRUE, TRUE)
    /\ Tls13Init
    /\ focus # "tls13" => /\ tlsClient = NewClient(CHOOSE u \in Tls13Usages : TRUE)
                          /\ tlsServer = NewServer(CHOOSE s \in Tls13Suites : TRUE)
    /\ IF focus = "certificates" THEN CvInit ELSE NoChain

\* Bounds: the network fails once, and one side sends again once.
FailsOnce == /\ qhFaults'.losses + qhFaults'.duplicates <= 1
             /\ qhClient'.probes + qhServer'.resends <= 1

SecureNext ==
    \/ focus = "http3" /\ H3Next /\ Others(focus)
    \/ focus = "qpack" /\ QpNext /\ Others(focus)
    \/ focus = "quic" /\ QtNext /\ Others(focus)
    \/ focus = "handshake" /\ QhNext /\ FailsOnce /\ Others(focus)
    \/ focus = "tls12" /\ Tls12Next /\ Others(focus)
    \/ focus = "tls13" /\ Tls13Next /\ Others(focus)
    \/ focus = "certificates" /\ CvNext /\ Others(focus)

SecureSpec ==
    SecureInit /\ [][SecureNext]_<<focus, h3Vars, qpVars, qtVars, qhVars, t12Vars, tls13Vars, cvVars>>

----------------------------------------
\* Field lists for the tables of QPACK.
QpackStatic == {<<"path", "/">>, <<"path", "x">>}

QpackPairs == {<<"path", "y">>, <<"agent", "x">>}

FieldOf(name, value) == [name |-> name, value |-> value, sensitive |-> FALSE]

QpackSections == {<<FieldOf("path", "y"), FieldOf("agent", "z"), FieldOf("cookie", "c")>>}
==============================================================================
