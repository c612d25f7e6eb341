-------------------------- MODULE RequestRedirect --------------------------
\* The request object (RequestApi.cpp, EngineRequestStorage.cpp), the
\* message built from it (HttpRoute.cpp, HttpRequest.cpp) and the redirect
\* loop that sends it (HttpSend.cpp, HttpRedirect.cpp, UrlParser.cpp).
\*
\* The application calls the setters in any order, sends, and, when the
\* send is asynchronous, goes on changing or releases its request while
\* the library works on its clone.  The server answers every message with
\* a final response or a redirect.  A path is a sequence of the tokens "/"
\* and segment names, a body a sequence of tokens, a request the fields of
\* Request the properties tell apart.
EXTENDS Integers, Sequences, SequencesExt, FiniteSets, TLC, Lists

CONSTANTS RqUrls,        \* URLs the application uses: records as RqUrl makes them
          RqLocations,   \* Location values the server sends
          RqMethods,     \* methods the application uses
          RqNames,       \* header names the application sets
          RqTexts,       \* texts the application puts into bodies
          RqSetters,     \* the body setters the application uses
          RqTlsNames,    \* TLS server names the application overrides with
          RqStatuses,    \* redirect statuses the server answers with
          RqFlags,       \* combinations of send flags: "trace", "expect", "stay"
          RqProxied,     \* the session sends through a proxy with credentials
          RqNoMemory,    \* allocations may fail
          RqMaxHeaders,  \* MaxHeadersPerRequest
          RqMaxCalls,    \* bound: setter calls
          RqMaxUrls,     \* bound: SetUrl calls on one request
          RqMaxRedirects \* MaxRedirects

ASSUME RqBoundsAssumption ==
    /\ {RqMaxHeaders, RqMaxCalls, RqMaxUrls, RqMaxRedirects} \subseteq Nat
    /\ RqProxied \in BOOLEAN /\ RqNoMemory \in BOOLEAN

\* URLs and Locations have the fields of a URL, and a field of the proxy's
\* credentials is none of the application's.
ASSUME RqInputsAssumption ==
    /\ \A u \in RqUrls : u = [scheme |-> u.scheme, host |-> u.host, port |-> u.port, path |-> u.path,
                              query |-> u.query, fragment |-> u.fragment, fault |-> u.fault]
    /\ \A loc \in RqLocations :
          loc = [kind |-> loc.kind, scheme |-> loc.scheme, host |-> loc.host, port |-> loc.port, path |-> loc.path,
                 query |-> loc.query, fragment |-> loc.fragment, fault |-> loc.fault]
    /\ "proxy-credentials" \notin RqNames

VARIABLES rqReq,      \* the application's request, or RqGone
          rqClone,    \* the clone the library works on, or RqGone
          rqPhase,    \* "idle", "send" (about to build a message), "answer"
          rqAsync,    \* the send in progress is asynchronous
          rqFollowed, \* redirects followed by the send in progress; -1 of none
          rqSendFlags,
          rqSource,   \* what the application's body source has left to give
          rqBuffer,   \* what the buffer behind SetBody holds now
          rqCalls,    \* [setters, urls]: calls made
          rqAsked,    \* history: the body the application asked for
          rqMust,     \* history: what the message on the wire has to be
          rqWire      \* the last message sent

rqVars == <<rqReq, rqClone, rqPhase, rqAsync, rqFollowed, rqSendFlags,
            rqSource, rqBuffer, rqCalls, rqAsked, rqMust, rqWire>>

RqGone == [state |-> "gone"]
RqNothing == [kind |-> "none", text |-> <<>>]
RqUnknown == [kind |-> "unknown", text |-> <<>>]
RqOk(r) == [req |-> r, st |-> "ok"]
RqFails(r, s) == [req |-> r, st |-> s]
RqNoBody == [has |-> FALSE, from |-> "none", items |-> <<>>, known |-> TRUE]

\* URLs.  port 0 is an absent port, query and fragment "" absent ones;
\* fault names what is wrong with the text.
RqUrl(s, h, p, path) == [scheme |-> s, host |-> h, port |-> p, path |-> path,
                         query |-> "", fragment |-> "", fault |-> "none"]

\* Upper-case letters are folded, other alphabets become an xn-- label.
RqNormalizeHost(h) == CASE h = "A" -> "a" [] h = "u-umlaut" -> "xn--u" [] OTHER -> h

RqParsePort(u) == IF u.port # 0 THEN u.port
                  ELSE IF u.scheme = "https" THEN 443 ELSE 80

\* The status of a URL that is refused, "ok" of one that is taken.
RqParseStatus(u) ==
    CASE u.fault \in {"noscheme", "nohost"} -> "INVALID_PARAMETER"
      [] u.scheme \notin {"http", "https"}  -> "NOT_SUPPORTED"
      [] u.fault \in {"userinfo", "colons"} -> "NOT_SUPPORTED"
      [] u.fault = "longpath"               -> "BUFFER_TOO_SMALL"
      [] u.fault # "none"                   -> "INVALID_PARAMETER"
      [] OTHER                              -> "ok"

\* What the request keeps of a URL; a missing path is "/".
RqParseUrl(u) == [scheme   |-> u.scheme,
                  host     |-> RqNormalizeHost(u.host),
                  port     |-> RqParsePort(u),
                  path     |-> IF u.path = <<>> THEN <<"/">> ELSE u.path,
                  query    |-> u.query,
                  fragment |-> u.fragment]

RqOrigin(p) == [scheme |-> p.scheme, host |-> p.host, port |-> p.port]
RqTarget(p) == [path |-> p.path, query |-> p.query]

\* The setters.  Each is the set of its outcomes: a request and a status.
RqCreated == [state    |-> "live",
              url      |-> RqGone,
              method   |-> "GET",
              headers  |-> <<>>,
              trailers |-> <<>>,
              body     |-> RqNoBody,
              mode     |-> "length",
              tls      |-> [at |-> "none", sized |-> ""],
              override |-> FALSE,
              pooled   |-> TRUE,
              family   |-> "any",
              boundary |-> 0]

RqShort(r) == IF RqNoMemory THEN {RqFails(r, "INSUFFICIENT_RESOURCES")} ELSE {}

\* A name that stands in the request's own Host buffer keeps the length of the
\* host it was set for.
RqHttpRequestSetUrl(r, u) ==
    IF RqParseStatus(u) # "ok" THEN {RqFails(r, RqParseStatus(u))}
    ELSE LET p == RqParseUrl(u)
             own == ~r.override /\ r.tls.at = "none" /\ p.scheme = "https"
         IN  {RqOk([r EXCEPT !.url = p,
                             !.tls = IF own THEN [at |-> "host", sized |-> p.host]
                                     ELSE @])} \cup RqShort(r)

RqAddStoredHeader(r, n, v) ==
    IF Len(r.headers) >= RqMaxHeaders THEN {RqFails(r, "INSUFFICIENT_RESOURCES")}
    ELSE {RqOk([r EXCEPT !.headers = Append(@, [name |-> n, value |-> v])])} \cup RqShort(r)

RqForbiddenTrailers == {"content-length", "transfer-encoding", "host", "authorization",
                        "proxy-authorization", "cookie", "set-cookie"}
RqAddStoredTrailer(r, n) ==
    IF n \in RqForbiddenTrailers THEN {RqFails(r, "NOT_SUPPORTED")}
    ELSE IF Len(r.trailers) >= RqMaxHeaders THEN {RqFails(r, "INSUFFICIENT_RESOURCES")}
    ELSE {RqOk([r EXCEPT !.trailers = Append(@, n)])} \cup RqShort(r)

RqRemoveHeaders(r, names) ==
    [r EXCEPT !.headers = EntriesAt(@, {i \in DOMAIN @ : @[i].name \notin names})]
RqRemoveStoredHeaders(r, n) == RqRemoveHeaders(r, {n})

\* The old type is removed before the new one is stored.
RqReplaceContentType(r, v) ==
    RqAddStoredHeader(RqRemoveStoredHeaders(r, "content-type"), "content-type", v)

RqReleaseOwnedBody(r) == [r EXCEPT !.body = RqNoBody]

\* The owned body is built piece by piece; any piece may fail to be stored.
RqAbortOwnedBodyBuild(r) == [r EXCEPT !.body = RqNoBody]
RqBuildOwnedBody(r, items) ==
    {RqOk([r EXCEPT !.body = [has |-> TRUE, from |-> "owned", items |-> items, known |-> TRUE]])}
        \cup RqShort(RqAbortOwnedBodyBuild(r))

\* A finished build goes on to the content type, a failed one is returned.
RqThenType(outs, v) ==
    UNION {IF o.st = "ok" THEN RqReplaceContentType(o.req, v) ELSE {o} : o \in outs}

RqUrlEncoded(c) == CASE c = " " -> <<"+">> [] c = "&" -> <<"%", "2", "6">> [] OTHER -> <<c>>
RqAppendUrlEncodedText(t) == FlattenSeq([i \in DOMAIN t |-> RqUrlEncoded(t[i])])

\* The boundary is numbered by the request's count of multipart bodies.
RqBoundary(n) == "boundary" \o ToString(n)
RqGenerateMultipartBoundary(r) == [r EXCEPT !.boundary = @ + 1]
RqMultipartBody(b, t) == <<"--", b, "name">> \o t \o <<"end-of-part", "--", b, "--">>

RqSetUrlEncodedBody(r, t) ==
    RqThenType(RqBuildOwnedBody(r, <<"name", "=">> \o RqAppendUrlEncodedText(t)), "form")
RqSetMultipart(r, t) ==
    LET g == RqGenerateMultipartBoundary(r)
        b == RqBoundary(g.boundary)
    IN  RqThenType(RqBuildOwnedBody(g, RqMultipartBody(b, t)), b)
RqSetTextBody(r, t) == RqThenType(RqBuildOwnedBody(r, t), "text")
RqSetRawBody(r, t) == RqBuildOwnedBody(r, t)
\* The file cannot be opened, or is shorter than its size said.
RqAppendFile(r, t) ==
    RqBuildOwnedBody(r, t) \cup {RqFails(RqAbortOwnedBodyBuild(r), "NOT_FOUND")}
RqSetFileBody(r, t) == RqThenType(RqAppendFile(r, t), "octets")

\* The caller's buffer is referred to, not copied.
RqSetBody(r) ==
    {RqOk([RqReleaseOwnedBody(r) EXCEPT !.body =
        [has |-> TRUE, from |-> "borrowed", items |-> <<>>, known |-> TRUE]])}
RqSetBodySource(r, t, known) ==
    {RqOk([RqReleaseOwnedBody(r) EXCEPT
        !.body = [has |-> TRUE, from |-> "source", items |-> t, known |-> known],
        !.mode = IF known THEN "length" ELSE "chunked"])}
RqSetBodyMode(r, m) ==
    IF r.body.from = "source" /\ m = "length" /\ ~r.body.known
    THEN {RqFails(r, "INVALID_PARAMETER")} ELSE {RqOk([r EXCEPT !.mode = m])}
RqClearBody(r) == {RqOk(RqRemoveStoredHeaders(RqReleaseOwnedBody(r), "content-type"))}

\* The application's calls.
\* The application's thread is inside HttpSendSync until the send is over.
RqMayCall == /\ rqReq # RqGone
             /\ rqPhase = "idle" \/ rqAsync
             /\ rqCalls.setters < RqMaxCalls

RqIdle == <<rqClone, rqPhase, rqAsync, rqFollowed, rqSendFlags, rqMust, rqWire>>

RqCall(outs) == /\ RqMayCall
                /\ \E o \in outs : rqReq' = o.req
                /\ rqCalls' = [rqCalls EXCEPT !.setters = @ + 1]
                /\ UNCHANGED <<rqSource, rqBuffer, rqAsked, RqIdle>>

\* A body call that fails leaves it open which body the request has.
RqBodyCall(outs, asked) ==
    /\ RqMayCall
    /\ \E o \in outs : /\ rqReq' = o.req
                       /\ rqAsked' = IF o.st = "ok" THEN asked ELSE RqUnknown
    /\ rqCalls' = [rqCalls EXCEPT !.setters = @ + 1]
    /\ UNCHANGED RqIdle

RqHttpRequestCreate == /\ rqReq = RqGone /\ rqPhase = "idle" /\ rqCalls.urls = 0
                       /\ rqReq' = RqCreated /\ rqAsked' = RqNothing
                       /\ UNCHANGED <<rqSource, rqBuffer, rqCalls, RqIdle>>

\* Release waits for a synchronous send; an asynchronous one has its clone.
RqHttpRequestRelease == /\ rqReq # RqGone
                        /\ rqPhase = "idle" \/ rqAsync
                        /\ rqReq' = RqGone
                        /\ UNCHANGED <<rqSource, rqBuffer, rqCalls, rqAsked, RqIdle>>

RqCallSetUrl == /\ rqReq # RqGone /\ rqCalls.urls < RqMaxUrls
                /\ rqPhase = "idle" \/ rqAsync
                /\ \E u \in RqUrls : \E o \in RqHttpRequestSetUrl(rqReq, u) : rqReq' = o.req
                /\ rqCalls' = [rqCalls EXCEPT !.urls = @ + 1]
                /\ UNCHANGED <<rqSource, rqBuffer, rqAsked, RqIdle>>

RqCallSetMethod == \E m \in RqMethods : RqCall({RqOk([rqReq EXCEPT !.method = m])})
RqCallSetHeader == \E n \in RqNames : RqCall(RqAddStoredHeader(rqReq, n, "v"))
\* Range and the conditional headers are stored like any other header.
RqCallGeneratedHeader == \E n \in {"range", "if-none-match"} \cap RqNames :
                             RqCall(RqAddStoredHeader(rqReq, n, "generated"))
RqCallAddTrailer == \E n \in {"x", "cookie"} : RqCall(RqAddStoredTrailer(rqReq, n))
RqCallSetBodyMode == \E m \in {"length", "chunked"} : RqCall(RqSetBodyMode(rqReq, m))
RqCallSetTlsOptions == \E n \in RqTlsNames :
    RqCall({RqOk([rqReq EXCEPT !.tls = [at |-> IF n = "" THEN "none" ELSE "app", sized |-> n],
                               !.override = TRUE])})
RqCallSetConnectionPolicy == RqCall({RqOk([rqReq EXCEPT !.pooled = ~@])})
RqCallSetAddressFamily == RqCall({RqOk([rqReq EXCEPT !.family = "ipv4"])})

RqCallBuildBody == \E t \in RqTexts, s \in RqSetters \cap {"form", "multipart", "text", "raw", "file"} :
    /\ RqBodyCall(CASE s = "form"      -> RqSetUrlEncodedBody(rqReq, t)
                    [] s = "multipart" -> RqSetMultipart(rqReq, t)
                    [] s = "text"      -> RqSetTextBody(rqReq, t)
                    [] s = "raw"       -> RqSetRawBody(rqReq, t)
                    [] s = "file"      -> RqSetFileBody(rqReq, t),
                  [kind |-> s, text |-> t])
    /\ UNCHANGED <<rqSource, rqBuffer>>
RqCallSetBody == /\ "borrow" \in RqSetters
                 /\ \E t \in RqTexts : /\ RqBodyCall(RqSetBody(rqReq), [kind |-> "raw", text |-> t])
                                       /\ rqBuffer' = t
                 /\ UNCHANGED rqSource
RqCallSetBodySource == /\ "source" \in RqSetters
                       /\ \E t \in RqTexts, known \in BOOLEAN :
                             /\ RqBodyCall(RqSetBodySource(rqReq, t, known), [kind |-> "source", text |-> t])
                             /\ rqSource' = t
                       /\ UNCHANGED rqBuffer
RqCallClearBody == RqBodyCall(RqClearBody(rqReq), RqNothing) /\ UNCHANGED <<rqSource, rqBuffer>>

\* The buffer is the application's again once an asynchronous send has begun.
RqReuseBuffer == /\ rqPhase # "idle" /\ rqAsync /\ rqBuffer # <<"scribble">>
                 /\ rqBuffer' = <<"scribble">>
                 /\ rqAsked' = IF rqReq # RqGone /\ rqReq.body.from = "borrowed" THEN RqUnknown ELSE rqAsked
                 /\ UNCHANGED <<rqReq, rqSource, rqCalls, RqIdle>>

\* Sending.
RqItems(r) == IF r.body.from = "borrowed" THEN rqBuffer ELSE r.body.items

\* Defective on purpose: the clone refers to the caller's buffer.
RqShareBody(r) == [r EXCEPT !.boundary = 0]

\* CloneRequestForAsync: everything the clone needs is copied, except what a
\* body source gives, and a name in the Host buffer is measured anew.
RqCloneRequest(r) ==
    [r EXCEPT !.boundary = 0,
              !.tls  = CASE @.at = "host" -> [at |-> "host", sized |-> r.url.host]
                         [] @.at = "app"  -> [at |-> "owned", sized |-> @.sized]
                         [] OTHER         -> @,
              !.body = IF @.from \in {"source", "none"} THEN @
                       ELSE [has |-> TRUE, from |-> "owned", items |-> RqItems(r), known |-> TRUE]]

RqExpected(asked, r) ==
    [first  |-> RqOrigin(r.url), origin |-> RqOrigin(r.url), target |-> RqTarget(r.url),
     method |-> r.method, body |-> asked, secure |-> r.url.scheme = "https"]

RqHttpSend(async) ==
    /\ rqPhase = "idle" /\ rqReq # RqGone /\ rqReq.url # RqGone /\ rqFollowed = -1
    /\ rqAsync' = async
    /\ rqClone' = IF async THEN RqCloneRequest(rqReq) ELSE RqGone
    /\ rqPhase' = "send" /\ rqFollowed' = 0
    /\ rqSendFlags' \in RqFlags
    /\ rqMust' = RqExpected(rqAsked, rqReq)
    /\ UNCHANGED <<rqReq, rqSource, rqBuffer, rqCalls, rqAsked, rqWire>>

RqCurrent == IF rqClone # RqGone THEN rqClone ELSE rqReq
RqFinish == rqPhase' = "idle" /\ rqClone' = RqGone /\ rqAsync' = FALSE

RqHas(r, n) == \E i \in DOMAIN r.headers : r.headers[i].name = n
RqChunked(r) == r.mode = "chunked" /\ r.body.has
RqTraceSensitive == {"authorization", "cookie", "proxy-authorization"}

RqBad(r, names) == \E n \in names : RqHas(r, n)

\* What BuildHttpRequestOptions refuses, in its order.
RqOptionsStatus(r) ==
    LET trace == r.method = "TRACE"
    IN CASE trace /\ "trace" \notin rqSendFlags                 -> "NOT_SUPPORTED"
         [] trace /\ (r.body.has \/ r.trailers # <<>>)          -> "INVALID_PARAMETER"
         [] trace /\ (RqProxied \/ RqBad(r, RqTraceSensitive))  -> "NOT_SUPPORTED"
         [] RqBad(r, {"transfer-encoding", "te"})               -> "NOT_SUPPORTED"
         [] RqHas(r, "trailer") /\ r.mode # "chunked"           -> "NOT_SUPPORTED"
         [] r.body.has /\ RqHas(r, "expect")                    -> "NOT_SUPPORTED"
         [] RqBad(r, {"host", "content-length", "connection"})  -> "INVALID_PARAMETER"
         [] OTHER                                               -> "ok"

\* What the builder refuses after that: trailers need chunked framing.
RqValidateBuildOptions(r) ==
    IF ~RqChunked(r) /\ (r.trailers # <<>> \/ RqHas(r, "trailer")) THEN "NOT_SUPPORTED" ELSE "ok"

\* A source of announced length that gives less fails the send.
RqSourceStatus(r) == IF r.body.from = "source" /\ r.mode = "length" /\ Len(rqSource) < Len(r.body.items)
                     THEN "INVALID_PARAMETER" ELSE "ok"

RqAbsoluteForm(r) == RqProxied /\ r.url.scheme = "http"

\* The names of the header fields, in the order they are written.
RqFieldNames(r) ==
    [i \in DOMAIN r.headers |-> r.headers[i].name]
        \o (IF RqHas(r, "accept-encoding") THEN <<>> ELSE <<"accept-encoding">>)
        \o (IF r.body.has /\ "expect" \in rqSendFlags THEN <<"expect">> ELSE <<>>)
        \o (IF RqAbsoluteForm(r) THEN <<"proxy-credentials">> ELSE <<>>)

\* The host the TLS session is opened for; "torn" when the length of another
\* host's name is applied to this one (hosts stand for names of different lengths).
RqTlsServerName(r) == CASE r.tls.at = "none" -> r.url.host
                        [] r.tls.at = "host" -> IF r.tls.sized = r.url.host THEN r.url.host ELSE "torn"
                        [] OTHER             -> r.tls.sized

RqTypes(r) == {r.headers[i].value : i \in {j \in DOMAIN r.headers : r.headers[j].name = "content-type"}}

RqWireBody(r) == CASE ~r.body.has            -> <<>>
                   [] r.body.from = "source" -> rqSource
                   [] OTHER                  -> RqItems(r)

RqBuildRequest(r) ==
    [origin   |-> RqOrigin(r.url),
     target   |-> RqTarget(r.url),
     to       |-> IF RqAbsoluteForm(r) THEN "proxy" ELSE "origin",
     name     |-> IF r.url.scheme = "https" THEN RqTlsServerName(r) ELSE "",
     chosen   |-> r.override,
     method   |-> r.method,
     fields   |-> RqFieldNames(r),
     types    |-> RqTypes(r),
     framing  |-> IF ~r.body.has THEN "none" ELSE r.mode,
     body     |-> RqWireBody(r),
     trailers |-> r.trailers]

\* SendSingleHttpRequest: the message is built and sent, or the send is over.
RqSendSingle ==
    /\ rqPhase = "send"
    /\ LET r == RqCurrent
       IN  IF {RqOptionsStatus(r), RqValidateBuildOptions(r), RqSourceStatus(r)} # {"ok"}
           THEN RqFinish /\ UNCHANGED <<rqWire, rqSource>>
           ELSE /\ rqWire' = RqBuildRequest(r)
                /\ rqSource' = IF r.body.from = "source" THEN <<>> ELSE rqSource
                /\ rqPhase' = "answer"
                /\ UNCHANGED <<rqClone, rqAsync>>
    /\ UNCHANGED <<rqReq, rqFollowed, rqSendFlags, rqBuffer, rqCalls, rqAsked, rqMust>>

\* Redirects.
\* Drops the last segment of what has been written, its "/" kept.
RqRemovePreviousSegment(out) ==
    LET end == IF Len(out) > 1 /\ Last(out) = "/" THEN Len(out) - 1 ELSE Len(out)
        slashes == {i \in 1 .. end : out[i] = "/"}
    IN  IF out = <<>> THEN out
        ELSE IF slashes = {} THEN <<"/">>
        ELSE SubSeq(out, 1, CHOOSE i \in slashes : \A j \in slashes : j <= i)

\* "." and ".." take the "/" behind them along.
RqDotStep(acc, t) ==
    CASE t = "/" /\ acc.skip -> [acc EXCEPT !.skip = FALSE]
      [] t = "."             -> [acc EXCEPT !.skip = TRUE]
      [] t = ".."            -> [out |-> RqRemovePreviousSegment(acc.out), skip |-> TRUE]
      [] OTHER               -> [out |-> Append(acc.out, t), skip |-> FALSE]

RqRemoveDotSegments(path) ==
    LET out == FoldLeft(RqDotStep, [out |-> <<>>, skip |-> FALSE], path).out
    IN  IF out = <<>> THEN <<"/">> ELSE out

RqDirectory(path) ==
    LET slashes == {i \in DOMAIN path : path[i] = "/"}
    IN  IF slashes = {} THEN <<"/">>
        ELSE SubSeq(path, 1, CHOOSE i \in slashes : \A j \in slashes : j <= i)

RqRedirectPath(base, loc) ==
    RqRemoveDotSegments(CASE loc.path = <<>>    -> base.path
                          [] loc.path[1] = "/"  -> loc.path
                          [] OTHER              -> RqDirectory(base.path) \o loc.path)

\* A Location is [kind, ...] with the fields of a URL; the URL it leads to.
RqBuildRedirectUrl(r, loc) ==
    CASE loc.kind = "absolute" ->
           [loc EXCEPT !.fragment = IF @ = "" THEN r.url.fragment ELSE @]
      [] loc.kind = "authority" -> [loc EXCEPT !.scheme = r.url.scheme]
      [] OTHER ->
           [loc EXCEPT !.scheme = r.url.scheme, !.host = r.url.host, !.port = r.url.port,
                       !.path = RqRedirectPath(r.url, loc),
                       !.query = IF loc.query = "" /\ loc.path = <<>> THEN r.url.query ELSE @,
                       !.fragment = IF @ = "" THEN r.url.fragment ELSE @]

RqIsHttpsDowngrade(r, u) == r.url.scheme = "https" /\ u.scheme = "http"

\* Defective on purpose: another port of the same host counts as its origin.
RqIsOtherHost(old, new) == old.host # new.host

RqIsCrossOrigin(old, new) ==
    old.port # new.port \/ old.scheme # new.scheme \/ old.host # new.host

RqSensitive == {"authorization", "cookie", "proxy-authorization"}
RqRemoveSensitive(r) == RqRemoveHeaders(r, RqSensitive)

RqRewritesToGet(status, method) ==
    \/ status = 303 /\ method # "HEAD"
    \/ status \in {301, 302} /\ method = "POST"

\* The request after its origin has changed: the TLS name follows it, the
\* credentials stay behind.
RqLeaveOrigin(r) ==
    RqRemoveSensitive([r EXCEPT !.tls = IF r.url.scheme = "https"
                                        THEN [at |-> "host", sized |-> r.url.host] ELSE @])

\* With a new URL the request may lose its body, and an origin of its own.
RqRewritten(r, status) ==
    IF RqRewritesToGet(status, r.method) THEN RqClearBody([r EXCEPT !.method = "GET"])
    ELSE {RqOk(r)}
RqMoved(old, r, status) ==
    LET matched == old.tls.at = "none" \/ RqTlsServerName(old) = old.url.host
    IN  IF ~RqIsCrossOrigin(RqOrigin(old.url), RqOrigin(r.url)) THEN RqRewritten(r, status)
        ELSE IF old.override /\ ~matched THEN {RqFails(r, "NOT_SUPPORTED")}
        ELSE RqRewritten(RqLeaveOrigin(r), status)

\* ApplyRedirectToRequest: the set of its outcomes.
RqApplyRedirect(r, status, loc) ==
    LET u == RqBuildRedirectUrl(r, loc)
    IN  CASE loc.kind = "empty" -> {RqFails(r, "INVALID_PARAMETER")}
          [] loc.kind = "other" -> {RqFails(r, "NOT_SUPPORTED")}
          [] RqIsHttpsDowngrade(r, u) -> {RqFails(r, "NOT_SUPPORTED")}
          [] OTHER -> UNION {IF o.st # "ok" THEN {o} ELSE RqMoved(r, o.req, status) :
                                o \in RqHttpRequestSetUrl(r, u)}

\* The same, as RFC 3986 and the documentation's table put it: a path is a
\* list of segments, "." and ".." reduce it, and at the end they leave an
\* empty segment.
RefSegments(path) ==
    LET RefAdd(acc, t) == IF t = "/" THEN Append(acc, "") ELSE [acc EXCEPT ![Len(acc)] = t]
    IN  FoldLeft(RefAdd, <<>>, path)
RefReduce(segs) ==
    LET RefStep(acc, s) == CASE s = "."  -> acc
                             [] s = ".." -> IF acc = <<>> THEN acc ELSE Front(acc)
                             [] OTHER    -> Append(acc, s)
        out == FoldLeft(RefStep, <<>>, segs)
    IN  IF segs # <<>> /\ Last(segs) \in {".", ".."} THEN Append(out, "") ELSE out
RefPath(segs) == FlattenSeq([i \in DOMAIN segs |-> IF segs[i] = "" THEN <<"/">> ELSE <<"/", segs[i]>>])
RefResolvePath(base, loc) ==
    LET dir == Front(RefSegments(base.path))
        ref == IF loc.path = <<>> THEN RefSegments(base.path)
               ELSE IF loc.path[1] = "/" THEN RefSegments(loc.path)
               ELSE dir \o RefSegments(<<"/">> \o loc.path)
    IN  RefPath(RefReduce(ref))
RefResolve(must, loc) ==
    CASE loc.kind = "absolute"  -> RqParseUrl(loc)
      [] loc.kind = "authority" -> RqParseUrl([loc EXCEPT !.scheme = must.origin.scheme])
      [] OTHER -> [scheme |-> must.origin.scheme, host |-> must.origin.host, port |-> must.origin.port,
                   path |-> RefResolvePath(must.target, loc), fragment |-> "",
                   query |-> IF loc.path = <<>> /\ loc.query = "" THEN must.target.query ELSE loc.query]
RefRedirected(must, status, loc) ==
    LET to == RefResolve(must, loc)
        get == (status = 303 /\ must.method # "HEAD") \/ (status \in {301, 302} /\ must.method = "POST")
    IN  [must EXCEPT !.origin = RqOrigin(to), !.target = RqTarget(to),
                     !.method = IF get THEN "GET" ELSE @, !.body = IF get THEN RqNothing ELSE @,
                     !.secure = @ \/ to.scheme = "https"]

\* What a server makes of a body of a kind, from the tokens and the type.
RefDecode(kind, m) ==
    LET RefUnescape(acc, c) ==
          CASE acc.esc = 1 -> [acc EXCEPT !.esc = 2]
            [] acc.esc = 2 -> [out |-> Append(acc.out, "&"), esc |-> 0]
            [] c = "%"     -> [acc EXCEPT !.esc = 1]
            [] OTHER       -> [acc EXCEPT !.out = Append(@, IF c = "+" THEN " " ELSE c)]
    IN CASE kind = "form" -> IF m.types = {"form"} THEN FoldLeft(RefUnescape, [out |-> <<>>, esc |-> 0],
                                                               SubSeq(m.body, 3, Len(m.body))).out ELSE <<"?">>
         [] kind = "multipart" -> IF m.types = {m.body[2]} THEN SubSeq(m.body, 4, Len(m.body) - 4) ELSE <<"?">>
         [] kind = "text" -> IF m.types = {"text"} THEN m.body ELSE <<"?">>
         [] kind = "file" -> IF m.types = {"octets"} THEN m.body ELSE <<"?">>
         [] OTHER -> m.body

\* The body of the message, as its receiver reads it, is the one asked for.
RqBodyIs(asked, m) ==
    CASE asked.kind = "unknown" -> TRUE
      [] asked.kind = "none"    -> m.framing = "none" /\ m.types = {}
      [] OTHER                  -> m.framing # "none" /\ RefDecode(asked.kind, m) = asked.text

\* A final response, or one that is handed to the application as it is.
RqAnswered == /\ rqPhase = "answer"
              /\ RqFinish
              /\ UNCHANGED <<rqReq, rqFollowed, rqSendFlags, rqSource, rqBuffer, rqCalls, rqAsked, rqMust, rqWire>>

\* The loop of HttpSendSyncImpl: the first redirect clones the request; a
\* Location that cannot be used ends the send with the redirect as its answer.
RqRedirected ==
    /\ rqPhase = "answer"
    /\ "stay" \notin rqSendFlags /\ rqFollowed < RqMaxRedirects
    /\ \E status \in RqStatuses, loc \in RqLocations :
          /\ \E o \in RqApplyRedirect(IF rqFollowed = 0 THEN RqCloneRequest(RqCurrent) ELSE RqCurrent, status, loc) :
                IF o.st = "ok"
                THEN rqClone' = o.req /\ rqPhase' = "send" /\ UNCHANGED rqAsync
                ELSE RqFinish
          /\ rqMust' = RefRedirected(rqMust, status, loc)
    /\ rqFollowed' = rqFollowed + 1
    /\ UNCHANGED <<rqReq, rqSendFlags, rqSource, rqBuffer, rqCalls, rqAsked, rqWire>>

RqInit == /\ rqReq = RqGone /\ rqClone = RqGone
          /\ rqPhase = "idle" /\ rqAsync = FALSE /\ rqFollowed = -1 /\ rqSendFlags = {}
          /\ rqSource = <<>> /\ rqBuffer = <<>>
          /\ rqCalls = [setters |-> 0, urls |-> 0]
          /\ rqAsked = RqNothing /\ rqMust = RqGone /\ rqWire = RqGone

RqNext == \/ RqHttpRequestCreate \/ RqHttpRequestRelease
          \/ RqCallSetUrl \/ RqCallSetMethod \/ RqCallSetHeader \/ RqCallGeneratedHeader
          \/ RqCallAddTrailer \/ RqCallSetBodyMode \/ RqCallSetTlsOptions
          \/ RqCallSetConnectionPolicy \/ RqCallSetAddressFamily
          \/ RqCallBuildBody \/ RqCallSetBody \/ RqCallSetBodySource \/ RqCallClearBody
          \/ RqReuseBuffer
          \/ \E async \in BOOLEAN : RqHttpSend(async)
          \/ RqSendSingle \/ RqAnswered \/ RqRedirected

RqSpec == RqInit /\ [][RqNext]_rqVars

\* Whatever the application did to its request and wherever it has been
\* redirected, credentials (Authorization, Cookie, Proxy-Authorization)
\* are only sent to the origin the application set them for, a request
\* that has been under TLS never continues in clear text, the TLS session
\* is opened for the host the message is for unless the application chose
\* the name, and the proxy's credentials only go to the proxy
\* (ApplyRedirectToRequest, BuildHttpRequestOptions).  (EmptyNameIsTheHost
\* is about the name of a request whose URL was set more than once.)
CredentialsStayWithOrigin ==
    rqPhase = "answer" =>
        LET names == {rqWire.fields[i] : i \in DOMAIN rqWire.fields}
        IN  /\ names \cap RqSensitive # {} => rqWire.origin = rqMust.first
            /\ rqMust.secure => rqWire.origin.scheme = "https"
            /\ /\ rqWire.origin.scheme = "https" /\ ~rqWire.chosen
               /\ rqAsync \/ rqFollowed > 0 \/ rqCalls.urls = 1
               => rqWire.name = rqWire.origin.host
            /\ "proxy-credentials" \in names => rqWire.to = "proxy"

\* "ServerName ...; empty derives from URL host"
\* (docsite/api/tls-options.en.md).  Not so in a synchronous send after a
\* second HttpRequestSetUrl: ServerName points into the Host buffer, which
\* has been written again, and ServerNameLength is that of the old host.
\* A clone measures the name anew.
EmptyNameIsTheHost ==
    rqPhase = "answer" /\ rqWire.origin.scheme = "https" /\ ~rqWire.chosen
        => rqWire.name = rqWire.origin.host

\* Every message of a send goes where the chain of redirects leads (as RFC
\* 3986 resolves each Location against the URL before it), with the method
\* and the body that were asked for when the send began, as the server
\* decodes them, and without a body once the method has become GET:
\* neither later calls on the request, nor a reused buffer, nor a body
\* built and given up before changes it.  (A body that comes from a source
\* can be read once: SourceBodyIsKept is about that.)
HopsFollowTheRedirects ==
    rqPhase = "answer" => /\ rqWire.origin = rqMust.origin
                          /\ rqWire.target = rqMust.target
                          /\ rqWire.method = rqMust.method
                          /\ rqMust.body.kind # "source" \/ rqFollowed = 0
                                => RqBodyIs(rqMust.body, rqWire)

\* A 307 or 308 keeps method and body (docsite/http1.en.md), whichever way
\* the application gave the body.  The code reads the source again, which
\* has nothing left, and sends an empty chunked body.
SourceBodyIsKept ==
    rqPhase = "answer" /\ rqMust.body.kind = "source" => RqBodyIs(rqMust.body, rqWire)
=============================================================================
