-------------------------------- MODULE MCTcp --------------------------------
(* What runs over one TCP connection: the route to the server, the exchange    *)
(* over HTTP/1.1 with its content codings, an event stream, HTTP/2 with HPACK,  *)
(* and a WebSocket.                                                             *)
(* focus says which of them a behaviour is about; the others rest in an initial *)
(* state.                                                                       *)
EXTENDS TransportRoute, Http1Exchange, ContentDecoding, EventStream, Http2Connection, HpackTables,
        WebSocketIo

CONSTANT WsMaxTraffic   \* bound: sends and frames of the peer together

VARIABLE focus

\* All components but f rest.
Others(f) ==
    /\ UNCHANGED focus
    /\ f # "route" => UNCHANGED trVars
    /\ f # "http1" => UNCHANGED h1Vars
    /\ f # "coding" => UNCHANGED cdVars
    /\ f # "events" => UNCHANGED esVars
    /\ f # "http2" => UNCHANGED http2Vars
    /\ f # "hpack" => UNCHANGED hpVars
    /\ f # "websocket" => UNCHANGED webSocketVars

\* A stream without a line.
EmptyDocument == [bom |-> FALSE, lines |-> <<>>]

\* A component that may start in several states rests in one of them.
TcpInit ==
    /\ focus \in {"route", "http1", "coding", "events", "http2", "hpack", "websocket"}
    /\ focus # "route" => trRoute = CHOOSE r \in TrRoutes : TRUE
    /\ focus # "route" => trServer = CHOOSE s \in TrServers : TRUE
    /\ focus # "http1" => h1Plan = CHOOSE p \in H1Plans : TRUE
    /\ focus # "coding" => cdWorks = TRUE
    /\ focus # "events" => /\ esDocument = EmptyDocument
                           /\ esClient = [memory |-> Max(EsMemory), room |-> Max(EsQueueRooms), events |-> <<>>]
    /\ TrInit /\ H1Init /\ CdInit /\ EsInit /\ HpInit
    /\ Http2Init /\ (focus # "http2" => \A r \in Tunnels : h2Call[r].at = "unused")
    /\ WebSocketInit /\ (focus # "websocket" => wsConn.h2)

\* Bound: a peer that goes away neither gives credit nor changes its settings.
GoesAwayOnly ==
    h2Peer'.goneAway => /\ h2Peer'.grants = 0
                        /\ h2Peer'.settings = <<>> /\ h2Peer'.initial = InitialWindow

TcpNext ==
    \/ focus = "route" /\ TrNext /\ Others(focus)
    \/ focus = "http1" /\ H1Next /\ Others(focus)
    \/ focus = "coding" /\ CdNext /\ Others(focus)
    \/ focus = "events" /\ EsNext /\ Others(focus)
    \/ focus = "http2" /\ Http2Next /\ GoesAwayOnly /\ Others(focus)
    \/ focus = "hpack" /\ HpNext /\ Others(focus)
    \/ focus = "websocket" /\ WebSocketNext /\ wsCount'.sends + wsCount'.frames <= WsMaxTraffic
                           /\ Others(focus)

TcpSpec ==
    TcpInit /\ [][TcpNext]_<<focus, trVars, h1Vars, cdVars, esVars, http2Vars, hpVars,
                             webSocketVars>>

----------------------------------------
\* Routes: https through a proxy, and what differs from it.
ProxiedRoute == [https |-> TRUE, proxied |-> TRUE, auth |-> TRUE, prefer |-> TRUE, alpn |-> "",
                 clear |-> "off", store |-> TRUE, pooled |-> TRUE, min |-> 12, max |-> 13]

SomeRoutes ==
    {ProxiedRoute,
     [ProxiedRoute EXCEPT !.proxied = FALSE, !.alpn = "h2"],
     [ProxiedRoute EXCEPT !.https = FALSE],
     [ProxiedRoute EXCEPT !.https = FALSE, !.proxied = FALSE, !.clear = "prior"],
     [ProxiedRoute EXCEPT !.https = FALSE, !.proxied = FALSE, !.clear = "upgrade"],
     [ProxiedRoute EXCEPT !.alpn = "other"],
     [ProxiedRoute EXCEPT !.pooled = FALSE, !.proxied = FALSE]}

SomeServers == [tls : {{12}, {13}, {12, 13}}, h2 : BOOLEAN]

PlainGet == [method |-> "GET", body |-> FALSE, expect |-> FALSE, callback |-> TRUE,
             aggregate |-> FALSE, coded |-> FALSE, upgrade |-> FALSE]

SomeRequests ==
    {PlainGet,
     [PlainGet EXCEPT !.upgrade = TRUE],
     [PlainGet EXCEPT !.coded = TRUE],
     [PlainGet EXCEPT !.coded = TRUE, !.aggregate = TRUE],
     [PlainGet EXCEPT !.coded = TRUE, !.callback = FALSE],
     [PlainGet EXCEPT !.method = "POST", !.body = TRUE],
     [PlainGet EXCEPT !.method = "POST", !.body = TRUE, !.expect = TRUE]}

\* Accept-Encoding: headers of the application and preferences of the send.
Wish(coding, q) == [coding |-> coding, q |-> q]
Token(token, digits) == [token |-> token, q |-> digits]
OwnHeader(lines) == [own |-> lines, prefs |-> <<>>]
Preferences(wishes) == [own |-> <<>>, prefs |-> wishes]

SomeOffers ==
    {Preferences(<<>>),
     Preferences(<<Wish("gzip", 50), Wish("br", 5), Wish("identity", 0)>>),
     Preferences(<<Wish("any", 0), Wish("compress", 999)>>),
     Preferences(<<Wish("gzip", 0), Wish("any", 500)>>),
     Preferences(<<Wish("gzip", 1000), Wish("gzip", 1)>>),
     OwnHeader(<<<<Token("x-gzip", <<1, 0, 0>>), Token("other", <<0, 5>>)>>,
                 <<Token("*", <<0, 1, 2, 5>>)>>>>),
     OwnHeader(<<<<>>>>),
     OwnHeader(<<<<Token("br", <<>>)>>, <<Token("br", <<0>>)>>>>),
     OwnHeader(<<<<Token("aes128gcm", <<>>), Token("compress", <<>>)>>>>)}

ServerCodings == <<"zstd", "gzip", "other", "br", "compress", "identity">>

\* Bodies, and bodies long enough to let LZW codes grow.
BodyOf(letters) == [i \in DOMAIN letters |-> [b |-> letters[i]]]
ShortBodies == {BodyOf(l) : l \in {<<>>, <<0>>, <<1, 0>>, <<0, 0, 0, 1, 1>>}}
LongBodies == {BodyOf(<<0>> \o l) : l \in [1..7 -> {0, 1}]}

PlainStyle == [gzip |-> {}, zlib |-> TRUE, max |-> 4, clears |-> FALSE, record |-> 4, padding |-> 0]

SomeStyles ==
    {PlainStyle, [PlainStyle EXCEPT !.gzip = {"name", "hcrc"}, !.zlib = FALSE, !.max = 3,
                                    !.record = 5, !.padding = 1]}

Exchange(chain, body, style) == [chain |-> chain, body |-> body, style |-> style]

SomeExchanges ==
    {Exchange(<<"compress">>, body, PlainStyle) : body \in LongBodies} \cup
    {Exchange(chain, body, style) :
        chain \in {<<"gzip">>, <<"deflate">>, <<"aes128gcm">>, <<"compress", "gzip">>,
                   <<"gzip", "br">>, <<"aes128gcm", "deflate", "dcz">>, <<"dcb">>, <<"exi">>,
                   <<"x-compress">>, <<"br">>},
        body \in ShortBodies,
        style \in SomeStyles \cup {[PlainStyle EXCEPT !.gzip = {"extra", "comment"}]}}

\* Event streams: the lines a server writes.
Field(name, space, value, end) == [name |-> <<name>>, colon |-> TRUE, space |-> space, value |-> value, end |-> end]
Blank(end) == [name |-> <<>>, colon |-> FALSE, space |-> <<>>, value |-> <<>>, end |-> end]
Bare(name, end) == [Blank(end) EXCEPT !.name = <<name>>]
Comment(end) == [Blank(end) EXCEPT !.colon = TRUE, !.value = <<"c", ":">>]

SomeStreams(e) ==
    {<<Field("data", <<" ">>, <<"a">>, e), Field("data", <<>>, <<"b">>, e), Blank(e), Field("id", <<" ">>, <<"1">>, e),
       Blank(e), Field("data", <<>>, <<"c">>, "open")>>,
     <<Field("event", <<>>, <<"x">>, e), Comment(e), Field("data", <<" ">>, <<" ", ":">>, "cr"), Bare("data", e), Blank(e),
       Field("id", <<>>, <<"2">>, "cr"), Field("id", <<>>, <<>>, e), Field("data", <<>>, <<"d">>, e), Blank("cr"),
       Bare("data", e), Blank("cr")>>,
     <<Field("retry", <<>>, <<"2", "5">>, e), Field("retry", <<>>, <<"2", "6">>, "cr"), Field("retry", <<>>, <<"1", "x">>, e),
       Field("id", <<>>, <<"3">>, e), Field("data", <<>>, <<"e">>, e), Blank(e), Field("id", <<>>, <<"4", "nul">>, e),
       Field("data", <<>>, <<"f">>, e), Blank(e), Field("data", <<>>, <<"g", "g", "g", "g">>, e),
       Field("data", <<>>, <<"h", "h", "h", "h">>, e), Blank(e)>>}
EventDocuments == {EmptyDocument} \cup UNION {{[bom |-> e = "lf", lines |-> l] : l \in SomeStreams(e)} : e \in {"lf", "crlf"}}

\* Field lists for the tables of HPACK.
HpackStatic == <<<<"path", "/">>, <<"cookie", "">>>>

HpackBlocks == {<<<<"path", "x">>, <<"agent", "y">>>>, <<<<"agent", "y">>, <<"path", "z">>>>,
                <<<<"cookie", "c">>, <<"agent", "long">>>>}
==============================================================================
