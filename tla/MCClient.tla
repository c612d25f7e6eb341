------------------------------ MODULE MCClient ------------------------------
(* What a request meets before it is sent: the response cache, announced       *)
(* alternatives, the cookie jar, the resolver, redirects, and the transport     *)
(* choice of a WebSocket. focus says which of them a behaviour is about; the    *)
(* others rest in an initial state.                                             *)
EXTENDS HttpCache, AltSvcCache, CookieJar, NameResolution, RequestRedirect, WebSocketConnect

CONSTANT RqMaxWork    \* bound: calls made on a request and redirects followed together

VARIABLE focus

\* All components but those of scenario f rest.
Others(f) ==
    /\ UNCHANGED focus
    /\ f \notin {"cache", "variants"} => UNCHANGED cacheVars
    /\ f # "altsvc" => UNCHANGED altVars
    /\ f # "cookies" => UNCHANGED jarVars
    /\ f # "names" => UNCHANGED dnVars
    /\ f # "redirect" => UNCHANGED rqVars
    /\ f # "connect" => UNCHANGED connectVars

ClientInit ==
    /\ focus \in {"cache", "variants", "altsvc", "cookies", "names", "redirect", "connect"}
    /\ CacheInit /\ AltInit /\ JarInit /\ DnInit /\ RqInit
    /\ ConnectInit /\ (focus # "connect" => wcCall.mode = "Auto")

\* Two callers at once on one variant of a resource ...
AtOnce == /\ CacheNext
          /\ \A c \in CacheCallers :
                cacheCall'[c] # CacheIdle =>
                    cacheCall'[c].req.variant = CHOOSE v \in CacheVariants : TRUE

\* ... and one of them, call after call, on several.
OneCaller ==
    LET c == CHOOSE d \in CacheCallers : TRUE
    IN  \/ SendStarts(c) \/ OriginAnswers(c) \/ HttpCacheUpdateNotModified(c)
        \/ SendEnds(c) \/ StoreFails(c)
        \/ HttpCacheClear \/ CacheTick

\* Calls beyond the first URL, and redirects.
RqWork == rqFollowed + rqCalls.setters + rqCalls.urls - 1

ClientNext ==
    \/ focus = "cache" /\ AtOnce /\ Others(focus)
    \/ focus = "variants" /\ OneCaller /\ Others(focus)
    \/ focus = "altsvc" /\ AltNext /\ Others(focus)
    \/ focus = "cookies" /\ JarNext /\ Others(focus)
    \/ focus = "names" /\ DnNextStep /\ Others(focus)
    \/ focus = "redirect" /\ RqNext /\ RqWork' <= RqMaxWork /\ Others(focus)
    \/ focus = "connect" /\ ConnectNext /\ Others(focus)

ClientSpec ==
    ClientInit /\ [][ClientNext]_<<focus, cacheVars, altVars, jarVars, dnVars, rqVars, connectVars>>

----------------------------------------
\* URLs of the application, and where redirects lead.
UrlOf(scheme, host, port, path, query) == [RqUrl(scheme, host, port, path) EXCEPT !.query = query]

SomeUrls == {UrlOf("http", "a", 0, <<"/", "d", "/", "e">>, "q"), UrlOf("https", "A", 0, <<>>, ""),
             UrlOf("https", "b", 0, <<>>, ""),
             [UrlOf("http", "a", 0, <<>>, "") EXCEPT !.fault = "userinfo"]}

Location(kind, url) == [kind |-> kind] @@ url

SomeLocations ==
    {Location("absolute", UrlOf("http", "a", 8080, <<"/">>, "")),
     Location("absolute", UrlOf("https", "b", 0, <<>>, "z")),
     Location("authority", UrlOf("", "u-umlaut", 0, <<"/">>, "")),
     Location("relative", UrlOf("", "", 0, <<"..", "/", "f">>, "")),
     Location("relative", UrlOf("", "", 0, <<"/", "g", "/", "/", "..">>, "")),
     Location("relative", UrlOf("", "", 0, <<>>, "n")),
     Location("other", UrlOf("ftp", "a", 0, <<>>, ""))}

SomeHosts == {<<"shop", "com">>, <<"www", "shop", "com">>, <<"bank", "com">>}
SomeSuffixes == {<<"com">>}
SomeDomains == {<<>>, <<"com">>, <<"shop", "com">>}

SomeTexts == {<<"w", " ", "&">>}
=============================================================================
