-------------------------- MODULE WebSocketConnect --------------------------
\* Opening a WebSocket asynchronously: session/WsConnect.cpp runs
\* WsConnection::Connect on a worker while the caller may cancel the
\* operation, take its result and release it.  Connect walks the resolved
\* addresses; at each one it may try again over HTTP/1.1 (Auto) and once
\* more with TLS 1.2 as the highest version, and an HTTP/1.1 opening
\* handshake may be repeated after a challenge the application answered.
EXTENDS Naturals

CONSTANTS WcAddresses,       \* resolved addresses
          WcRetryLimit,      \* MaxHandshakeRetries (0: no challenge callback)
          WcModes            \* transport modes a caller asks for

ASSUME WcConstants == /\ WcAddresses \in Nat /\ WcRetryLimit \in Nat
                      /\ WcModes \subseteq {"Auto", "Http11Only", "Http2Required"}

VARIABLES wcCall,      \* the worker inside CompleteWebSocketConnect
          wcConn,      \* the WsConnection
          wcServer,    \* what the server of the present transport agreed to
          wcContext,   \* AsyncWebSocketConnectContext
          wcCanceled, wcOwner

connectVars == <<wcCall, wcConn, wcServer, wcContext, wcCanceled, wcOwner>>

NoTransport == [socket |-> "none", upgraded |-> FALSE, deflate |-> FALSE]

ConnectInit ==
    /\ wcCall \in [at : {"queued"}, mode : WcModes, address : {0}, attempt : {"none"},
                   retries : {0}, candidate : {FALSE}, status : {"pending"}]
    /\ wcConn = [connected |-> FALSE, deflate |-> FALSE, open |-> FALSE, h2 |-> FALSE]
    /\ wcServer = NoTransport
    /\ wcContext = [websocket |-> FALSE, ended |-> 0, alive |-> TRUE]
    /\ wcCanceled = FALSE
    /\ wcOwner = "nobody"

\* The transport mode of this attempt: the retry is made with Http11Only.
ModeOf(c) == IF c.attempt = "http11" THEN "Http11Only" ELSE c.mode

\* Mutant of EndSessionOperation: without the exchange.
EndsEveryTime(context) == [context EXCEPT !.ended = @ + 1]

\* EndAsyncWebSocketSessionOperation: compare-and-exchange on SessionOperationEnded.
EndSessionOperation(context) ==
    [context EXCEPT !.ended = IF @ = 0 THEN 1 ELSE @]

\* One attempt at one address.
\* The attempt ends: the next kind of attempt at this address, the next
\* address, or the end of Connect (the retry rules of WsConnection::Connect).
AfterAttempt(c, status) ==
    LET last == IF c.attempt = "tls12" THEN c.status ELSE status
    IN  IF status = "success" THEN [c EXCEPT !.at = "connected", !.status = status]
        ELSE IF c.attempt = "first" /\ c.mode = "Auto" /\ status = "not_supported" THEN
             [c EXCEPT !.at = "dial", !.attempt = "http11", !.status = status]
        ELSE IF c.attempt = "first" /\ c.candidate THEN
             [c EXCEPT !.at = "dial", !.attempt = "tls12", !.status = status]
        ELSE IF c.address < WcAddresses THEN
             [c EXCEPT !.at = "dial", !.attempt = "first", !.address = @ + 1,
                       !.candidate = FALSE, !.status = last]
        ELSE [c EXCEPT !.at = "failed", !.status = last]

\* A failure behind CloseTransport: the negotiated extension is left as it is.
FailsOverTransport(status) ==
    /\ wcCall' = AfterAttempt(wcCall, status)
    /\ wcConn' = [wcConn EXCEPT !.open = FALSE, !.h2 = FALSE]
    /\ wcServer' = NoTransport

\* A failure behind Close, which resets the extension too.
FailsOverClose(status) ==
    /\ wcCall' = AfterAttempt(wcCall, status)
    /\ wcConn' = [connected |-> FALSE, deflate |-> FALSE, open |-> FALSE, h2 |-> FALSE]
    /\ wcServer' = NoTransport

\* RunWebSocketConnectAsyncOperation and CompleteWebSocketConnect up to Connect.
Starts ==
    /\ wcCall.at = "queued"
    /\ \/ /\ wcCanceled \* nothing is tried
          /\ wcCall' = [wcCall EXCEPT !.at = "ending", !.status = "cancelled"]
       \/ /\ ~wcCanceled
          /\ wcCall' = [wcCall EXCEPT !.at = "ending", !.status = "failed"]
       \/ /\ ~wcCanceled
          /\ wcCall' = [wcCall EXCEPT !.at = "dial", !.address = 1, !.attempt = "first"]
    /\ UNCHANGED <<wcConn, wcServer, wcContext, wcCanceled, wcOwner>>

\* WskSocketConnect with the cancellation token, and the reset of the close state.
Dials ==
    /\ wcCall.at = "dial"
    /\ \/ /\ wcCall' = AfterAttempt(wcCall, IF wcCanceled THEN "cancelled" ELSE "failed")
          /\ UNCHANGED <<wcConn, wcServer>>
       \/ /\ wcCall' = [wcCall EXCEPT !.at = "tls", !.retries = 0]
          /\ wcConn' = [wcConn EXCEPT !.open = TRUE]
          /\ wcServer' = [NoTransport EXCEPT !.socket = "open"]
    /\ UNCHANGED <<wcContext, wcCanceled, wcOwner>>

\* TlsConnectionConnect: the failure may make TLS 1.2 worth a confirmation;
\* otherwise ALPN decides between HTTP/2 and the opening handshake.
Negotiates ==
    /\ wcCall.at = "tls"
    /\ \/ \E candidate \in BOOLEAN :
            /\ wcCall' = AfterAttempt([wcCall EXCEPT !.candidate = candidate], "failed")
            /\ wcConn' = [wcConn EXCEPT !.open = FALSE, !.h2 = FALSE]
            /\ wcServer' = NoTransport
       \/ /\ ModeOf(wcCall) # "Http11Only"            \* "h2"
          /\ wcCall' = [wcCall EXCEPT !.at = "extended"]
          /\ wcConn' = [wcConn EXCEPT !.h2 = TRUE]
          /\ UNCHANGED wcServer
       \/ /\ ModeOf(wcCall) = "Http2Required"         \* no "h2"
          /\ FailsOverTransport("not_supported")
       \/ /\ ModeOf(wcCall) # "Http2Required"         \* "http/1.1" or none
          /\ wcCall' = [wcCall EXCEPT !.at = "opening"]
          /\ UNCHANGED <<wcConn, wcServer>>
       \/ /\ ModeOf(wcCall) # "Http2Required"         \* some other protocol
          /\ FailsOverTransport("not_supported")
    /\ UNCHANGED <<wcContext, wcCanceled, wcOwner>>

\* Mutant of NegotiatedDeflate: the reset is missing.
KeepsOldDeflate(old, accepted) == old \/ accepted

\* ValidatePerMessageDeflateExtensions: the result is reset, then set by the response.
NegotiatedDeflate(old, accepted) == accepted

\* Extended CONNECT over HTTP/2: BeginRequest, the response headers and
\* ValidateHttp2WebSocketResponse, then the subprotocol and the inflate window.
OpensOverHttp2 ==
    /\ wcCall.at = "extended"
    /\ \/ FailsOverTransport("not_supported")      \* SETTINGS without CONNECT
       \/ FailsOverTransport("failed")
       \/ \E accepted \in BOOLEAN :
            \/ /\ wcCall' = AfterAttempt(wcCall, "failed")    \* out of memory after it
               /\ wcConn' = [wcConn EXCEPT !.open = FALSE, !.h2 = FALSE,
                                !.deflate = NegotiatedDeflate(@, accepted)]
               /\ wcServer' = NoTransport
            \/ /\ wcCall' = AfterAttempt(wcCall, "success")
               /\ wcConn' = [wcConn EXCEPT !.connected = TRUE,
                                !.deflate = NegotiatedDeflate(@, accepted)]
               /\ wcServer' = [wcServer EXCEPT !.upgraded = TRUE, !.deflate = accepted]
    /\ UNCHANGED <<wcContext, wcCanceled, wcOwner>>

\* One round of the HTTP/1.1 opening handshake: the request is sent and
\* ReadHandshakeResponse validates a 101, or meets a challenge.
OpensOverHttp11 ==
    /\ wcCall.at = "opening"
    /\ \/ FailsOverClose(IF wcCanceled THEN "cancelled" ELSE "failed")
       \/ FailsOverClose("not_supported")          \* a challenge nobody answers
       \/ /\ wcCall.retries < WcRetryLimit         \* the callback answers it
          /\ wcCall' = [wcCall EXCEPT !.retries = @ + 1]
          /\ UNCHANGED <<wcConn, wcServer>>
       \/ \E accepted \in BOOLEAN :
            /\ wcCall' = AfterAttempt(wcCall, "success")
            /\ wcConn' = [wcConn EXCEPT !.connected = TRUE,
                             !.deflate = NegotiatedDeflate(@, accepted)]
            /\ wcServer' = [wcServer EXCEPT !.upgraded = TRUE, !.deflate = accepted]
    /\ UNCHANGED <<wcContext, wcCanceled, wcOwner>>

\* The result and its owner.
\* CompleteWebSocketConnect after Connect: the handle is registered and handed
\* to the context, or everything is released.
Registers ==
    /\ wcCall.at \in {"connected", "failed"}
    /\ \/ /\ wcCall.at = "connected"
          /\ wcCall' = [wcCall EXCEPT !.at = "ending"]
          /\ wcContext' = [wcContext EXCEPT !.websocket = TRUE]
          /\ wcOwner' = "context"
          /\ UNCHANGED <<wcConn, wcServer>>
       \/ /\ wcCall' = [wcCall EXCEPT !.at = "ending", !.status = "failed"]
          /\ wcConn' = [connected |-> FALSE, deflate |-> FALSE, open |-> FALSE, h2 |-> FALSE]
          /\ wcServer' = NoTransport
          /\ UNCHANGED <<wcContext, wcOwner>>
    /\ UNCHANGED wcCanceled

\* The end of the worker routine: a cancellation that came late turns the
\* success into STATUS_CANCELLED and leaves the handle in the context.
EndsWork ==
    /\ wcCall.at = "ending"
    /\ wcCall' = [wcCall EXCEPT !.at = "complete",
                    !.status = IF wcCanceled /\ @ = "success" THEN "cancelled" ELSE @]
    /\ wcContext' = EndSessionOperation(wcContext)
    /\ UNCHANGED <<wcConn, wcServer, wcCanceled, wcOwner>>

\* AsyncOperationCancel by the caller.
CancelConnect ==
    /\ ~wcCanceled /\ wcContext.alive /\ wcCall.at # "complete"
    /\ wcCanceled' = TRUE
    /\ UNCHANGED <<wcCall, wcConn, wcServer, wcContext, wcOwner>>

\* TakeAsyncWebSocketConnectResult by the caller of a completed operation.
TakeResult ==
    /\ wcCall.at = "complete" /\ wcCall.status = "success" /\ wcContext.alive
    /\ wcContext.websocket
    /\ wcContext' = [wcContext EXCEPT !.websocket = FALSE]
    /\ wcOwner' = "caller"
    /\ UNCHANGED <<wcCall, wcConn, wcServer, wcCanceled>>

\* CleanupAsyncWebSocketConnectContext with the last reference: a handle that
\* was not taken is closed.
ReleaseContext ==
    /\ wcCall.at = "complete" /\ wcContext.alive
    /\ wcContext' = [EndSessionOperation(wcContext) EXCEPT !.websocket = FALSE, !.alive = FALSE]
    /\ IF wcContext.websocket
       THEN /\ wcOwner' = "closed"
            /\ wcConn' = [connected |-> FALSE, deflate |-> FALSE, open |-> FALSE, h2 |-> FALSE]
            /\ wcServer' = NoTransport
       ELSE UNCHANGED <<wcConn, wcServer, wcOwner>>
    /\ UNCHANGED <<wcCall, wcCanceled>>

ConnectWork == Starts \/ Dials \/ Negotiates \/ OpensOverHttp2 \/ OpensOverHttp11
               \/ Registers \/ EndsWork
ConnectNext == ConnectWork \/ CancelConnect \/ TakeResult \/ ReleaseContext

\* The worker runs and the caller releases the operation in the end.
ConnectFairness == WF_connectVars(ConnectWork) /\ WF_connectVars(ReleaseContext)
ConnectSpec == ConnectInit /\ [][ConnectNext]_connectVars /\ ConnectFairness

\* After every path of retries, a connected WebSocket stands on a transport whose
\* server upgraded it, with exactly the compression that server accepted.
ConnectedAsNegotiated ==
    wcConn.connected => /\ wcServer.upgraded /\ wcConn.open
                        /\ wcConn.deflate = wcServer.deflate

\* However cancellation, the result and the release interleave, a released
\* operation has ended its session operation once and leaks no open socket.
ReleasedOwnsNothing ==
    ~wcContext.alive => wcContext.ended = 1 /\ (wcConn.open => wcOwner = "caller")

(* A connect ends with a connection that is as negotiated or with nothing.   *)
ConnectEndsCleanly == ConnectedAsNegotiated /\ ReleasedOwnsNothing
=============================================================================
