----------------------------- MODULE CookieJar -----------------------------
\* The cookie jar of a session (session/CookieJar.cpp), the domain and
\* path rules (session/CookieDomain.cpp) and the sends that use it
\* (PrepareRequest and SendCore of http_api/Http.cpp).  The Cookie header
\* is built before the send and Set-Cookie lines are stored after it, each
\* under the jar's lock, so sends of several threads interleave.
\*
\* A host is the sequence of its labels, outermost last; a path is the
\* sequence of its segments.
EXTENDS Integers, Sequences, FiniteSets, SequencesExt, FiniteSetsExt

CONSTANTS
    JarThreads,         \* threads that send requests of one session
    JarHosts,           \* hosts requests are sent to
    PublicSuffixes,     \* kPublicSuffixes
    JarNames,           \* cookie names
    JarDomains,         \* what servers say in Domain; <<>> is no attribute
    JarMaxValue,        \* CookieJarMaxValueBytes
    JarMaxCookies,      \* CookieJarMaxCookies
    JarMaxBytes,        \* CookieJarMaxTotalBytes
    JarMaxClock         \* bound: the clock

(* No host has the name of a public suffix ("impossible for real hosts").     *)
ASSUME JarConstants ==
    /\ JarMaxCookies \in Nat \ {0} /\ JarMaxBytes \in Nat \ {0} /\ JarMaxClock \in Nat
    /\ JarMaxValue \in Nat
    /\ JarHosts \subseteq Seq(STRING) \ {<<>>} /\ JarDomains \subseteq Seq(STRING)
    /\ PublicSuffixes \subseteq Seq(STRING) \ JarHosts

VARIABLES
    jar,        \* CookieJar::Items
    jarBytes,   \* CookieJar::TotalBytes
    jarNow,     \* the clock
    jarCall,    \* what each thread is doing
    jarSent     \* history: the last Cookie header and where it went

jarVars == <<jar, jarBytes, jarNow, jarCall, jarSent>>

JarUrls == [https : BOOLEAN, host : JarHosts, path : {<<"a", "b">>}]
JarIdle == [at |-> "idle"]
NothingSent == [cookies |-> {}, url |-> [https |-> FALSE, host |-> <<>>, path |-> <<>>]]
SessionCookie == JarMaxClock + 3

----------------------------------------
(* CookieDomain                                                            *)

CookieIsPublicSuffix(domain) == domain \in PublicSuffixes

LastLabels(host, n) == SubSeq(host, Len(host) - n + 1, Len(host))

(* The longest public suffix and one more label; <<>> for a public suffix. *)
CookieRegistrableDomain(host) ==
    LET listed == {n \in 1 .. Len(host) - 1 : CookieIsPublicSuffix(LastLabels(host, n))}
        count == IF listed = {} THEN Min({2, Len(host)}) ELSE 1 + Max(listed)
    IN  IF CookieIsPublicSuffix(host) THEN <<>> ELSE LastLabels(host, count)

CookieDomainMatch(domain, host) ==
    domain # <<>> /\ Len(domain) <= Len(host) /\ LastLabels(host, Len(domain)) = domain

(* Mutant: a domain is refused only when the host does not end in it. *)
ValidateDomainSuffixOnly(host, domain) == domain = <<>> \/ CookieDomainMatch(domain, host)

CookieValidateDomainAttribute(host, domain) ==
    \/ domain = <<>>
    \/ /\ CookieDomainMatch(domain, host)
       /\ CookieIsPublicSuffix(domain) => domain = host

CookiePathMatch(path, requestPath) == IsPrefix(path, requestPath)

CookieDefaultPath(requestPath) == IF Len(requestPath) <= 1 THEN <<>> ELSE Front(requestPath)

----------------------------------------
(* CookieJar                                                               *)

CookieBytes(c) == 1 + c.length

JarTotal(items) == Cardinality(UNION {{i} \X (1 .. CookieBytes(items[i])) : i \in DOMAIN items})

SameCookie(c, d) == c.name = d.name /\ c.domain = d.domain /\ c.path = d.path

(* Mutant: the cookie that is replaced stays charged. *)
SetLockedKeepsCharge(c) ==
    LET old == {i \in DOMAIN jar : SameCookie(jar[i], c)}
    IN  IF old # {}
        THEN /\ jar' = [jar EXCEPT ![Min(old)] = c]
             /\ jarBytes' = jarBytes + CookieBytes(c)
        ELSE IF Len(jar) < JarMaxCookies /\ jarBytes + CookieBytes(c) <= JarMaxBytes
        THEN jar' = Append(jar, c) /\ jarBytes' = jarBytes + CookieBytes(c)
        ELSE UNCHANGED <<jar, jarBytes>>

(* A cookie replaces the one of the same name, domain and path; when it makes *)
(* the jar too large both are gone.  A new one is refused by a full jar.       *)
CookieJarSetLocked(c) ==
    LET old == {i \in DOMAIN jar : SameCookie(jar[i], c)}
    IN  IF old # {}
        THEN LET i == Min(old)
                 bytes == jarBytes - CookieBytes(jar[i]) + CookieBytes(c)
             IN  IF bytes > JarMaxBytes
                 THEN jar' = RemoveAt(jar, i) /\ jarBytes' = JarTotal(RemoveAt(jar, i))
                 ELSE jar' = [jar EXCEPT ![i] = c] /\ jarBytes' = bytes
        ELSE IF Len(jar) < JarMaxCookies /\ jarBytes + CookieBytes(c) <= JarMaxBytes
        THEN jar' = Append(jar, c) /\ jarBytes' = jarBytes + CookieBytes(c)
        ELSE UNCHANGED <<jar, jarBytes>>

(* What a Set-Cookie line may say; age 0 deletes, SessionCookie has no Max-Age. *)
SetCookieLines ==
    [name : JarNames, length : 0 .. JarMaxValue, domain : JarDomains,
     kind : {"lax", "secure", "none", "none secure"}, age : {0, 1, SessionCookie}]

(* The cookie CookieJarStoreFromSetCookie makes of a line. *)
NewCookie(line, url) ==
    [name |-> line.name, length |-> line.length, kind |-> line.kind,
     hostOnly |-> line.domain = <<>>, storedFor |-> url.host,
     domain |-> IF line.domain = <<>> THEN url.host ELSE line.domain,
     path |-> CookieDefaultPath(url.path),
     expires |-> IF line.age = SessionCookie THEN SessionCookie ELSE jarNow + line.age]

CookieJarStoreFromSetCookie(line, url) ==
    IF CookieValidateDomainAttribute(url.host, line.domain) /\ line.kind # "none"
    THEN CookieJarSetLocked(NewCookie(line, url))
    ELSE UNCHANGED <<jar, jarBytes>>

(* Whether CookieJarBuildHeader puts a cookie into the request's header. *)
SendsCookie(c, url) ==
    /\ c.expires > jarNow
    /\ c.kind \in {"secure", "none secure"} => url.https
    /\ IF c.hostOnly THEN c.domain = url.host ELSE CookieDomainMatch(c.domain, url.host)
    /\ CookiePathMatch(c.path, url.path)
    /\ c.kind # "none secure" =>
          /\ CookieRegistrableDomain(c.domain) # <<>>
          /\ CookieRegistrableDomain(c.domain) = CookieRegistrableDomain(url.host)

CookieJarBuildHeader(url) == {jar[i] : i \in {k \in DOMAIN jar : SendsCookie(jar[k], url)}}

----------------------------------------
(* One send                                                                *)

PrepareRequest(t) ==
    /\ jarCall[t].at = "idle"
    /\ \E url \in JarUrls :
          /\ jarSent' = [cookies |-> CookieJarBuildHeader(url), url |-> url]
          /\ jarCall' = [jarCall EXCEPT ![t] = [at |-> "sent", url |-> url]]
    /\ UNCHANGED <<jar, jarBytes, jarNow>>

(* The response is back: its Set-Cookie line, if any, goes into the jar.  *)
SendCore(t) ==
    /\ jarCall[t].at = "sent"
    /\ \/ UNCHANGED <<jar, jarBytes>>
       \/ \E line \in SetCookieLines :
             CookieJarStoreFromSetCookie(line, jarCall[t].url)
    /\ jarCall' = [jarCall EXCEPT ![t] = JarIdle]
    /\ jarSent' = NothingSent
    /\ UNCHANGED jarNow

CookieJarClear ==
    /\ jar # <<>>
    /\ jar' = <<>> /\ jarBytes' = 0
    /\ jarSent' = NothingSent
    /\ UNCHANGED <<jarNow, jarCall>>

JarTick ==
    /\ jarNow < JarMaxClock
    /\ jarNow' = jarNow + 1
    /\ jarSent' = NothingSent
    /\ UNCHANGED <<jar, jarBytes, jarCall>>

JarInit ==
    /\ jar = <<>> /\ jarBytes = 0 /\ jarNow = 0
    /\ jarCall = [t \in JarThreads |-> JarIdle] /\ jarSent = NothingSent

JarNext ==
    \/ \E t \in JarThreads : PrepareRequest(t) \/ SendCore(t)
    \/ CookieJarClear
    \/ JarTick

JarSpec == JarInit /\ [][JarNext]_jarVars

----------------------------------------
(* The bytes charged are those of the cookies held, after any sequence of   *)
(* new, replaced, refused and rolled back cookies, and stay within the      *)
(* limits.                                                                  *)
JarBytesAreExact ==
    /\ jarBytes = JarTotal(jar) /\ jarBytes <= JarMaxBytes /\ Len(jar) <= JarMaxCookies
    /\ \A i, j \in DOMAIN jar : i # j => ~SameCookie(jar[i], jar[j])

(* A domain that the table does not know for a suffix although it is above    *)
(* one, or has one label. It is accepted, and its hosts are not of one site.   *)
MissingSuffix(domain) ==
    /\ ~CookieIsPublicSuffix(domain)
    /\ Len(domain) = 1 \/ \E p \in PublicSuffixes : p # domain /\ CookieDomainMatch(domain, p)

(* A cookie goes only to hosts of the site of the request it was stored     *)
(* for, unless its domain is missing in the table, and a host-only one to   *)
(* that host alone.                                                         *)
CookieStaysOnItsSite ==
    \A c \in jarSent.cookies :
        /\ ~MissingSuffix(c.domain) =>
              CookieRegistrableDomain(c.storedFor) = CookieRegistrableDomain(jarSent.url.host)
        /\ c.hostOnly => c.storedFor = jarSent.url.host

(* The same of every domain: it fails when, say, co.uk is listed and uk is     *)
(* not, for Domain=uk is then accepted from a host under co.uk.                *)
EveryDomainIsOneSite ==
    \A c \in jarSent.cookies :
        CookieRegistrableDomain(c.storedFor) = CookieRegistrableDomain(jarSent.url.host)

(* The jar knows what it holds, and gives a cookie to its own site only.     *)
JarIsSound == JarBytesAreExact /\ CookieStaysOnItsSite
=============================================================================
