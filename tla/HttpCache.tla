----------------------------- MODULE HttpCache -----------------------------
\* The in-memory response cache (session/HttpCache.cpp), the RFC 9111
\* rules it applies (http1/HttpCachePolicy.cpp) and the part of the send
\* loop that uses it (HttpSendSyncImpl): look the request up, go to the
\* origin, then refresh, invalidate or store.  The cache's lock is held
\* within each of the three and released between them, so several callers
\* interleave there and the answers of the origin arrive in any order.
\*
\* A resource is CacheLength bytes long; a byte says of which resource,
\* variant and version it is, and at which position of it.  An entry's body
\* maps the offsets of a buffer to bytes, or to Unwritten where a partial
\* response left the buffer as it was allocated.  An entity tag names one version.
EXTENDS Integers, Sequences, FiniteSets, SequencesExt, FiniteSetsExt, Lists

CONSTANTS
    CacheCallers,       \* threads that send requests through one cache
    CacheUrls,          \* resources of the origin
    CacheVariants,      \* values of the request header that responses vary on
    CacheLength,        \* length of every resource, in bytes
    CacheMaxEntries,    \* HttpCacheOptions.MaxEntries
    CacheMaxBytes,      \* HttpCacheOptions.MaxBytes
    CacheMaxRanges,     \* HttpCacheMaxPartialRanges
    CacheLifetime,      \* max-age of the origin's responses
    CacheMaxVersion,    \* bound: how often a resource changes
    CacheMaxClock,      \* bound: how long the model runs
    CacheDirectives,    \* request directives and send flags that are used
    CacheReplies,       \* response directives that the origin uses
    CacheForms          \* forms of the origin's partial responses

ASSUME CacheConstants ==
    /\ CacheLength \in Nat \ {0} /\ CacheMaxEntries \in Nat \ {0}
    /\ CacheMaxBytes \in Nat \ {0} /\ CacheMaxRanges \in Nat \ {0}
    /\ CacheLifetime \in Nat /\ CacheMaxVersion \in Nat /\ CacheMaxClock \in Nat
    /\ CacheDirectives \subseteq
           {"default", "no-cache", "no-store", "max-stale", "bypass", "only-if-cached"}
    /\ CacheReplies \subseteq {"max-age", "no-cache", "no-store", "no-validator"}
    /\ CacheForms \subseteq {"placed", "unplaced", "parts"}

VARIABLES
    cacheList,      \* the LRU list, most recently used first
    cacheCount,     \* HttpCache::EntryCount
    cacheUsed,      \* HttpCache::BytesUsed
    cacheNow,       \* the clock
    originVersion,  \* current version of each resource
    originReplaced, \* when each version stopped being current
    cacheCall,      \* what each caller is doing
    cacheAnswer     \* what the last step gave its caller, if anything

cacheVars == <<cacheList, cacheCount, cacheUsed, cacheNow, originVersion,
               originReplaced, cacheCall, cacheAnswer>>
cacheStore == <<cacheList, cacheCount, cacheUsed>>
cacheOrigin == <<originVersion, originReplaced>>

Unwritten == <<"unwritten">>
NoTag == <<>>
NoRange == [suffix |-> FALSE, first |-> 1, last |-> 0]
SeveralRanges == [suffix |-> TRUE, first |-> 1, last |-> 0]
Never == CacheMaxClock + CacheLifetime + 1
Positions == 0..CacheLength - 1
Offsets == 0..CacheLength

(* Byte ranges: one byte, from the last byte to beyond the end, a suffix. *)
ByteRanges ==
    {[suffix |-> FALSE, first |-> p, last |-> IF p = CacheLength - 1 THEN CacheLength ELSE p] :
        p \in Positions}
    \cup {[suffix |-> TRUE, first |-> 0, last |-> CacheLength]}

AllRanges == {NoRange, SeveralRanges} \cup ByteRanges

(* ParseSingleByteRange: of several ranges the cache takes no notice.  *)
HasRange(req) == req.range \in ByteRanges

Requests ==
    [method : {"GET"}, url : CacheUrls, variant : CacheVariants,
     range : AllRanges, directive : CacheDirectives]
    \cup [method : {"POST"}, url : CacheUrls, variant : CacheVariants,
          range : {NoRange}, directive : {"default"}]

CacheIdle == [at |-> "idle"]
NoAnswer == [status |-> 0, source |-> "none", body |-> <<>>, url |-> "none"]

----------------------------------------
(* HttpCachePolicy                                                         *)

(* The positions a range asks of a body of the given length. *)
Concrete(range, length) ==
    IF range.suffix THEN length - Min({range.last, length})..length - 1
    ELSE range.first..Min({range.last, length - 1})

IsMethodSafeForCache(req) == req.method = "GET"

ResponseMayBeStored(req, resp) ==
    /\ req.directive # "no-store" /\ resp.control # "no-store"
    /\ resp.status \in {200, 206}

(* Mutant: the time a response spent on its way is not counted. *)
CurrentAgeSecondsNoDate(e) == Max({0, cacheNow - e.storedAt})

CurrentAgeSeconds(e) ==
    Max({0, e.storedAt - e.date}) + Max({0, cacheNow - e.storedAt})

FreshnessLifetimeSeconds(e) == IF e.control = "no-cache" THEN 0 ELSE CacheLifetime

(* Whether CanUseStoredResponse asks for validation. *)
RequiresValidation(req, e) ==
    \/ req.directive = "no-cache"
    \/ e.control = "no-cache"
    \/ /\ CurrentAgeSeconds(e) >= FreshnessLifetimeSeconds(e)
       /\ req.directive # "max-stale"

----------------------------------------
(* HttpCache                                                               *)

(* An entry is charged for itself and for every byte of its body.            *)
Charge(e) == {-1} \cup DOMAIN e.body

SumCharges(list) == Cardinality(UNION {{i} \X Charge(list[i]) : i \in DOMAIN list})

(* Key and Vary: one entry answers one method, resource and variant. *)
Matches(e, req) ==
    e.method = req.method /\ e.url = req.url /\ e.vary = req.variant

(* Mutant: only the first byte of the range is looked for. *)
RangeCoveredAtStart(e, asked) ==
    IF ~e.partial THEN asked \subseteq DOMAIN e.body
    ELSE Min(asked) \in UNION {e.ranges[i] : i \in DOMAIN e.ranges}

RangeCovered(e, asked) ==
    IF ~e.partial THEN asked \subseteq DOMAIN e.body
    ELSE asked \subseteq UNION {e.ranges[i] : i \in DOMAIN e.ranges}

BodyLength(e) == Cardinality(DOMAIN e.body)

RequestedRangeCovered(e, range) ==
    /\ Concrete(range, BodyLength(e)) # {}
    /\ RangeCovered(e, Concrete(range, BodyLength(e)))

SameValidator(e, resp) == e.etag # NoTag /\ e.etag = resp.etag

MoveToHead(list, i) == <<list[i]>> \o EntriesAt(list, DOMAIN list \ {i})

(* The first entry that satisfies P, or 0. *)
FirstEntry(P(_)) ==
    LET hits == {i \in 1..Len(cacheList) : P(cacheList[i])}
    IN  IF hits = {} THEN 0 ELSE Min(hits)

(* EvictToLimits drops entries at the tail until both limits hold. *)
Kept(list, used) ==
    LET fits(n) == /\ n <= CacheMaxEntries
                   /\ used - SumCharges(SubSeq(list, n + 1, Len(list))) <= CacheMaxBytes
    IN  Max({n \in 0..Len(list) : n = 0 \/ fits(n)})

(* Mutant: one entry is dropped, and only when there are too many. *)
EvictOldest(list, used) ==
    /\ cacheList' = IF Len(list) > CacheMaxEntries THEN Front(list) ELSE list
    /\ cacheCount' = Len(cacheList')
    /\ cacheUsed' = SumCharges(cacheList')

EvictToLimits(list, used) ==
    LET n == Kept(list, used)
    IN  /\ cacheList' = SubSeq(list, 1, n)
        /\ cacheCount' = n
        /\ cacheUsed' = used - SumCharges(SubSeq(list, n + 1, Len(list)))

(* A part goes to its place if the response says how long the whole is.  *)
Placed(resp) == resp.status = 206 /\ resp.form = "placed"

(* Any other body is taken for a whole one, and kept as it comes. *)
AsReceived(body) ==
    LET first == Min(DOMAIN body)
    IN  [k \in {p - first : p \in DOMAIN body} |-> body[first + k]]

NewEntry(req, resp) ==
    [method |-> req.method, url |-> req.url, vary |-> req.variant, etag |-> resp.etag,
     control |-> resp.control, date |-> resp.date, storedAt |-> cacheNow,
     status |-> resp.status, partial |-> Placed(resp),
     ranges |-> IF Placed(resp) THEN <<DOMAIN resp.body>> ELSE <<>>,
     body |-> IF Placed(resp)
              THEN [p \in Positions |-> IF p \in DOMAIN resp.body THEN resp.body[p] ELSE Unwritten]
              ELSE AsReceived(resp.body)]

TooLong(resp) ==
    (IF Placed(resp) THEN CacheLength ELSE Cardinality(DOMAIN resp.body)) > CacheMaxBytes

(* An entry the new partial response is combined with. *)
Combines(e, req, resp) ==
    /\ Matches(e, req) /\ e.partial /\ Placed(resp) /\ SameValidator(e, resp)
    /\ Len(e.ranges) < CacheMaxRanges

Combined(e, resp) ==
    [e EXCEPT !.ranges = Append(@, DOMAIN resp.body),
              !.body = [p \in Positions |->
                           IF p \in DOMAIN resp.body THEN resp.body[p] ELSE @[p]]]

(* HttpCacheStoreResponse: the scan ends at the first entry the response is  *)
(* combined with; what matches before it is removed.                         *)
HttpCacheStoreResponse(req, resp) ==
    LET i == FirstEntry(LAMBDA e : Combines(e, req, resp))
        gone == {k \in DOMAIN cacheList : Matches(cacheList[k], req) /\ (i > 0 => k < i)}
        used == cacheUsed - SumCharges(EntriesAt(cacheList, gone))
        kept == EntriesAt(cacheList, DOMAIN cacheList \ (gone \cup {i}))
    IN  IF TooLong(resp)
        THEN UNCHANGED cacheStore
        ELSE IF i > 0
        THEN /\ cacheList' = <<Combined(cacheList[i], resp)>> \o kept
             /\ cacheCount' = cacheCount - Cardinality(gone)
             /\ cacheUsed' = used
        ELSE LET new == <<NewEntry(req, resp)>>
             IN  EvictToLimits(new \o kept, used + SumCharges(new))

HttpCacheInvalidateForRequest(req) ==
    LET same == {k \in DOMAIN cacheList : cacheList[k].url = req.url}
    IN  /\ cacheList' = EntriesAt(cacheList, DOMAIN cacheList \ same)
        /\ cacheCount' = cacheCount - Cardinality(same)
        /\ cacheUsed' = cacheUsed - SumCharges(EntriesAt(cacheList, same))

(* The parts of the body an answer from the cache carries. *)
Snapshot(e, req) ==
    IF HasRange(req) THEN [p \in Concrete(req.range, BodyLength(e)) |-> e.body[p]] ELSE e.body

(* An entry that holds a part and passes for the whole; what an answer is    *)
(* made of says so.                                                          *)
Misfiled(e) == e.status = 206 /\ ~e.partial
SourceOf(e, source) ==
    IF ~Misfiled(e) THEN source ELSE IF source = "cache" THEN "misfiled" ELSE "misfiled validated"

----------------------------------------
(* One send                                                                *)

(* The send returns; stale marks an answer its caller allowed to be old. *)
Finish(c, req, status, source, body) ==
    /\ cacheCall' = [cacheCall EXCEPT ![c] = CacheIdle]
    /\ cacheAnswer' = [status |-> status, source |-> source, body |-> body, url |-> req.url,
                       variant |-> req.variant, stale |-> req.directive = "max-stale"]

(* From here on the request's directive matters only where it forbids storing. *)
Asks(c, req, etag) ==
    /\ cacheCall' = [cacheCall EXCEPT ![c] =
           [at |-> "sent", ifNoneMatch |-> etag,
            req |-> [req EXCEPT !.directive = IF @ = "no-store" THEN @ ELSE "default"]]]
    /\ cacheAnswer' = NoAnswer

(* The first entry that may answer the request, if the cache is asked at all. *)
UsableEntry(req) ==
    IF req.directive \in {"no-store", "bypass"} \/ ~IsMethodSafeForCache(req) THEN 0
    ELSE FirstEntry(LAMBDA e : /\ Matches(e, req)
                               /\ HasRange(req) => RequestedRangeCovered(e, req.range))

(* HttpCacheLookup and what the send does with its result. *)
HttpCacheLookup(c, req) ==
    LET i == UsableEntry(req)
    IN  \/ /\ i = 0
           /\ IF req.directive = "only-if-cached" THEN Finish(c, req, 504, "cache", <<>>)
              ELSE Asks(c, req, NoTag)
           /\ UNCHANGED cacheList
        \/ /\ i > 0
           /\ LET e == cacheList[i]
                  served == ~RequiresValidation(req, e) /\ (HasRange(req) \/ ~e.partial)
              IN  IF served
                  THEN /\ cacheList' = MoveToHead(cacheList, i)
                       /\ Finish(c, req, IF HasRange(req) THEN 206 ELSE e.status,
                                 SourceOf(e, "cache"), Snapshot(e, req))
                  ELSE /\ UNCHANGED cacheList
                       /\ IF req.directive = "only-if-cached"
                          THEN Finish(c, req, 504, "cache", <<>>)
                          ELSE Asks(c, req, e.etag)

SendStarts(c) ==
    /\ cacheCall[c].at = "idle"
    /\ \E req \in Requests : HttpCacheLookup(c, req)
    /\ UNCHANGED <<cacheCount, cacheUsed, cacheNow, cacheOrigin>>

(* The origin: the answer holds the version that is current when it is made, *)
(* a part says how long the whole is or not, and of several parts the body   *)
(* is delimiters and bytes that are not at their places.                     *)
OriginAnswers(c) ==
    /\ cacheCall[c].at = "sent"
    /\ LET call == cacheCall[c]
           req == call.req
           v == originVersion[req.url]
           body == [p \in Positions |-> <<req.url, req.variant, v, p>>]
           parts == [p \in Offsets |-> <<req.url, req.variant, v, CacheLength>>]
           asked == Concrete(req.range, CacheLength)
           reply(status, control, bytes, form) ==
               [status |-> status, control |-> control, date |-> cacheNow, body |-> bytes,
                form |-> form,
                etag |-> IF control = "no-validator" THEN NoTag ELSE <<req.url, req.variant, v>>]
           answers(r) == cacheCall' = [cacheCall EXCEPT ![c] =
                             [at |-> "answered", req |-> req, resp |-> r]]
       IN  \/ /\ req.method = "GET" /\ call.ifNoneMatch = <<req.url, req.variant, v>>
              /\ answers(reply(304, "max-age", <<>>, "whole"))
              /\ UNCHANGED cacheOrigin
           \/ /\ req.method = "GET"
              /\ call.ifNoneMatch # <<req.url, req.variant, v>>
              /\ \E control \in CacheReplies :
                    \/ answers(reply(200, control, body, "whole"))
                    \/ /\ HasRange(req) /\ asked # {}
                       /\ \E form \in CacheForms \ {"parts"} :
                             answers(reply(206, control, [p \in asked |-> body[p]], form))
                    \/ /\ req.range = SeveralRanges /\ "parts" \in CacheForms
                       /\ answers(reply(206, control, parts, "parts"))
              /\ UNCHANGED cacheOrigin
           \/ /\ req.method = "POST" /\ v < CacheMaxVersion
              /\ originVersion' = [originVersion EXCEPT ![req.url] = v + 1]
              /\ originReplaced' = [originReplaced EXCEPT ![<<req.url, v>>] = cacheNow]
              /\ answers(reply(200, "no-store", body, "whole"))
           \/ /\ answers(reply(500, "no-store", <<>>, "whole"))
              /\ UNCHANGED cacheOrigin
    /\ cacheAnswer' = NoAnswer
    /\ UNCHANGED <<cacheStore, cacheNow>>

(* HttpCacheUpdateNotModified refreshes the first whole entry that matches. *)
HttpCacheUpdateNotModified(c) ==
    LET call == cacheCall[c]
        i == FirstEntry(LAMBDA e : Matches(e, call.req) /\ ~e.partial)
    IN  /\ cacheCall[c].at = "answered" /\ call.resp.status = 304
        /\ IF i = 0
           THEN /\ UNCHANGED cacheList
                /\ Finish(c, call.req, 304, "origin", <<>>)
           ELSE /\ cacheList' = MoveToHead([cacheList EXCEPT ![i].storedAt = cacheNow], i)
                /\ Finish(c, call.req, cacheList[i].status,
                          SourceOf(cacheList[i], "validated"), cacheList[i].body)
        /\ UNCHANGED <<cacheCount, cacheUsed, cacheNow, cacheOrigin>>

(* Any other response: invalidate after a change, otherwise store. *)
SendEnds(c) ==
    LET call == cacheCall[c]
        resp == call.resp
    IN  /\ cacheCall[c].at = "answered" /\ resp.status # 304
        /\ IF ~IsMethodSafeForCache(call.req) /\ resp.status < 400
           THEN HttpCacheInvalidateForRequest(call.req)
           ELSE IF ResponseMayBeStored(call.req, resp)
           THEN HttpCacheStoreResponse(call.req, resp)
           ELSE UNCHANGED cacheStore
        /\ Finish(c, call.req, resp.status, "origin", resp.body)
        /\ UNCHANGED <<cacheNow, cacheOrigin>>

(* No memory for the new entry: the send fails although the origin answered. *)
StoreFails(c) ==
    /\ cacheCall[c].at = "answered" /\ cacheCall[c].resp.status \in {200, 206}
    /\ IsMethodSafeForCache(cacheCall[c].req)
    /\ ResponseMayBeStored(cacheCall[c].req, cacheCall[c].resp)
    /\ Finish(c, cacheCall[c].req, 0, "failed", <<>>)
    /\ UNCHANGED <<cacheStore, cacheNow, cacheOrigin>>

HttpCacheClear ==
    /\ cacheList # <<>>
    /\ cacheList' = <<>> /\ cacheCount' = 0 /\ cacheUsed' = 0
    /\ cacheAnswer' = NoAnswer
    /\ UNCHANGED <<cacheNow, cacheOrigin, cacheCall>>

CacheTick ==
    /\ cacheNow < CacheMaxClock
    /\ cacheNow' = cacheNow + 1
    /\ cacheAnswer' = NoAnswer
    /\ UNCHANGED <<cacheStore, cacheOrigin, cacheCall>>

CacheInit ==
    /\ cacheList = <<>> /\ cacheCount = 0 /\ cacheUsed = 0 /\ cacheNow = 0
    /\ originVersion = [u \in CacheUrls |-> 0]
    /\ originReplaced = [uv \in CacheUrls \X (0..CacheMaxVersion) |-> Never]
    /\ cacheCall = [c \in CacheCallers |-> CacheIdle]
    /\ cacheAnswer = NoAnswer

CacheNext ==
    \/ \E c \in CacheCallers :
          \/ SendStarts(c) \/ OriginAnswers(c) \/ HttpCacheUpdateNotModified(c)
          \/ SendEnds(c) \/ StoreFails(c)
    \/ HttpCacheClear
    \/ CacheTick

CacheSpec == CacheInit /\ [][CacheNext]_cacheVars

----------------------------------------
(* Properties                                                              *)

(* Whatever a caller is given, whole or in part, combined from several      *)
(* partial responses or not, is bytes of one version of the resource and    *)
(* variant it asked for, never bytes of a buffer that was not written; what *)
(* comes out of the cache is at its place, and a 200 is the whole resource. *)
(* The place is not claimed of a misfiled entry (PartIsNeverTheWhole).      *)
ServedBytesAreOneVersion ==
    /\ \E v \in 0..CacheMaxVersion : \A p \in DOMAIN cacheAnswer.body : \E q \in Offsets :
          /\ cacheAnswer.body[p] = <<cacheAnswer.url, cacheAnswer.variant, v, q>>
          /\ cacheAnswer.source \in {"cache", "validated"} => q = p
    /\ cacheAnswer.status = 200 => DOMAIN cacheAnswer.body = Positions

(* No answer is made of a part that the cache has taken for the whole.      *)
(* The code does not keep this: a 206 whose Content-Range has no complete   *)
(* length, or none because its body is multipart, is stored as whole.       *)
PartIsNeverTheWhole == cacheAnswer.source \notin {"misfiled", "misfiled validated"}

(* What the cache serves without asking the origin was still the current    *)
(* version less than the response's lifetime ago, whatever the time the     *)
(* response spent on its way and however often the entry was revalidated;   *)
(* only a caller that said max-stale may get an older one.                  *)
FreshAnswersWereCurrent ==
    (cacheAnswer.source \in {"cache", "misfiled"} /\ ~cacheAnswer.stale) =>
        \A p \in DOMAIN cacheAnswer.body :
            cacheAnswer.body[p] # Unwritten =>
                originReplaced[<<cacheAnswer.url, cacheAnswer.body[p][3]>>]
                    > cacheNow - CacheLifetime

(* The entry count and the bytes charged are those of the list, and no      *)
(* operation leaves the cache above either limit.                           *)
CacheWithinLimits ==
    /\ cacheCount = Len(cacheList) /\ cacheCount <= CacheMaxEntries
    /\ cacheUsed = SumCharges(cacheList) /\ cacheUsed <= CacheMaxBytes

(* A caller that put no condition into its request is never shown the 304   *)
(* that answers the condition the cache added.                              *)
NotModifiedIsForTheCache ==
    cacheAnswer.status # 304

(* What the cache serves is right, current as far as it may tell, and kept  *)
(* within the limits its owner set.                                         *)
CacheIsSound ==
    ServedBytesAreOneVersion /\ FreshAnswersWereCurrent /\ CacheWithinLimits
=============================================================================
