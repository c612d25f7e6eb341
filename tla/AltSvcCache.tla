---------------------------- MODULE AltSvcCache ----------------------------
\* The Alt-Svc cache of a session (session/AltSvcCache.cpp) and the
\* requests that use it (SendSingleHttpRequest, SendAutoHttp3Request and
\* LearnAltSvcFromResponse of session/HttpSend.cpp).  A request takes a
\* snapshot of a candidate, tries HTTP/3 without the lock and reports the
\* outcome under the lock again; meanwhile the entry may have expired,
\* been cleared, replaced by another origin's or learned anew.
EXTENDS Integers, Sequences, FiniteSets, FiniteSetsExt

CONSTANTS
    AltRequests,        \* threads that send requests
    AltOrigins,         \* cache keys: origin, TLS identity and address family
    AltHosts,           \* alternative endpoints an origin may advertise
    AltNone,            \* no origin
    AltCapacity,        \* number of entries of the cache
    AltMaxAge,          \* lifetime of an advertisement
    AltInitialBackoff,  \* AltSvcInitialBackoffMilliseconds
    AltMaxBackoff,      \* AltSvcMaximumBackoffMilliseconds
    AltMaxClock,        \* bound: the clock
    AltMaxStores        \* bound: how many generations are made

ASSUME AltConstants ==
    /\ AltCapacity \in Nat \ {0} /\ AltMaxAge \in Nat \ {0}
    /\ AltInitialBackoff \in Nat \ {0} /\ AltMaxBackoff \in Nat
    /\ AltInitialBackoff <= AltMaxBackoff
    /\ AltMaxClock \in Nat /\ AltMaxStores \in Nat /\ AltNone \notin AltOrigins

VARIABLES
    altEntries,     \* AltSvcCache::Entries, one record for each slot
    altCount,       \* AltSvcCache::Count
    altNextGen,     \* AltSvcCache::NextGeneration
    altNow,         \* the clock
    altCall,        \* what each request is doing
    altFailed,      \* history: attempts that failed, as <<generation, candidate>>
    altResting      \* history: when the last network failure's backoff ends

altVars == <<altEntries, altCount, altNextGen, altNow, altCall, altFailed, altResting>>

AltSlots == 1..AltCapacity
AltFree == [key |-> AltNone, gen |-> 0, updated |-> 0, cands |-> <<>>]
AltIdle == [at |-> "idle"]
Working == [failures |-> 0, until |-> 0, disabled |-> FALSE]

(* The slot that holds an origin's entry, or 0. *)
FindEntry(key) ==
    LET hits == {i \in AltSlots : altEntries[i].key = key} IN IF hits = {} THEN 0 ELSE Min(hits)

SelectReplacementEntry ==
    LET free == {i \in AltSlots : altEntries[i].key = AltNone}
    IN  IF free # {} THEN Min(free)
        ELSE Min({i \in AltSlots : \A j \in AltSlots : altEntries[i].updated <= altEntries[j].updated})

RemoveEntry(i) ==
    IF i = 0 THEN UNCHANGED <<altEntries, altCount>>
    ELSE /\ altEntries' = [altEntries EXCEPT ![i] = AltFree]
         /\ altCount' = IF altCount # 0 THEN altCount - 1 ELSE altCount

(* What ParseAltSvcValue makes of a header: the h3 candidates, in wire order. *)
ParseAltSvcValue(hosts) ==
    [n \in DOMAIN hosts |-> [host |-> hosts[n], expires |-> altNow + AltMaxAge, broken |-> Working]]

Advertisements == {<<h>> : h \in AltHosts} \cup {s \in AltHosts \X AltHosts : s[1] # s[2]}

AltSvcCacheStoreResponse(key, hosts) ==
    LET found == FindEntry(key)
        i == IF found = 0 THEN SelectReplacementEntry ELSE found
    IN  /\ altNextGen <= AltMaxStores
        /\ altEntries' = [altEntries EXCEPT ![i] =
               [key |-> key, gen |-> altNextGen, updated |-> altNow,
                cands |-> ParseAltSvcValue(hosts)]]
        /\ altCount' = IF altEntries[i].key = AltNone THEN altCount + 1 ELSE altCount
        /\ altNextGen' = altNextGen + 1

(* LearnAltSvcFromResponse: no header, "clear" (or no usable candidate), or   *)
(* candidates; a header that cannot be parsed changes nothing.                *)
LearnAltSvcFromResponse(key) ==
    \/ UNCHANGED <<altEntries, altCount, altNextGen>>
    \/ RemoveEntry(FindEntry(key)) /\ UNCHANGED altNextGen
    \/ \E hosts \in Advertisements : AltSvcCacheStoreResponse(key, hosts)

Live(e) == {n \in DOMAIN e.cands : e.cands[n].expires > altNow}

Eligible(e) ==
    {n \in Live(e) : ~e.cands[n].broken.disabled /\ e.cands[n].broken.until <= altNow}

(* AltSvcCacheLookup, and the attempt that starts with its snapshot. *)
AltSvcCacheLookup(r, key) ==
    LET i == FindEntry(key)
        e == altEntries[i]
    IN  IF i # 0 /\ Eligible(e) # {}
        THEN /\ altCall' = [altCall EXCEPT ![r] =
                    [at |-> "h3", key |-> key, gen |-> e.gen, index |-> Min(Eligible(e)),
                     host |-> e.cands[Min(Eligible(e))].host]]
             /\ UNCHANGED <<altEntries, altCount>>
        ELSE /\ altCall' = [altCall EXCEPT ![r] = [at |-> "tcp", key |-> key]]
             /\ IF i # 0 /\ Live(e) = {} THEN RemoveEntry(i) ELSE UNCHANGED <<altEntries, altCount>>

RequestStarts(r) ==
    /\ altCall[r].at = "idle"
    /\ \E key \in AltOrigins : AltSvcCacheLookup(r, key)
    /\ UNCHANGED <<altNextGen, altNow, altFailed, altResting>>

(* Mutant: the report is applied to whatever entry the origin has by now. *)
ReportedToAny(call) ==
    LET i == FindEntry(call.key)
    IN  IF i # 0 /\ call.index \in DOMAIN altEntries[i].cands THEN i ELSE 0

(* The entry and candidate that a report is about, if they are still there. *)
Reported(call) ==
    LET i == FindEntry(call.key)
    IN  IF i # 0 /\ altEntries[i].gen = call.gen /\ call.index \in DOMAIN altEntries[i].cands
        THEN i ELSE 0

Backoff(failures) ==
    Min({AltMaxBackoff, AltInitialBackoff * 2 ^ (IF failures > 1 THEN failures - 1 ELSE 0)})

(* A candidate after a failure of the given kind. *)
Broken(cand, kind) ==
    IF kind = "network"
    THEN LET n == cand.broken.failures + 1
         IN  [cand EXCEPT !.broken.failures = n,
                          !.broken.until = Min({altNow + Backoff(n), cand.expires})]
    ELSE [cand EXCEPT !.broken.disabled = TRUE]

(* AltSvcCacheMarkFailure, for any status but those ShouldIgnoreFailure names. *)
AltSvcCacheMarkFailure(call, kind) ==
    LET i == Reported(call)
    IN  altEntries' = IF i = 0 THEN altEntries
                      ELSE [altEntries EXCEPT ![i].cands[call.index] = Broken(@, kind)]

AltSvcCacheMarkSuccess(call) ==
    LET i == Reported(call)
    IN  IF i = 0 THEN altEntries ELSE [altEntries EXCEPT ![i].cands[call.index].broken = Working]

(* The attempt succeeds: the report comes first, then the response is learned *)
(* from, under the lock a second time.                                        *)
Http3Succeeds(r) ==
    /\ altCall[r].at = "h3"
    /\ altEntries' = AltSvcCacheMarkSuccess(altCall[r])
    /\ altCall' = [altCall EXCEPT ![r] = [at |-> "learn", key |-> altCall[r].key]]
    /\ altResting' = [altResting EXCEPT ![<<altCall[r].key, altCall[r].host>>] = 0]
    /\ UNCHANGED <<altCount, altNextGen, altNow, altFailed>>

(* It fails: sent requests end with the status, unsent ones go on over TCP. *)
Http3Fails(r) ==
    /\ altCall[r].at = "h3"
    /\ \E kind \in {"network", "protocol"} :
          /\ AltSvcCacheMarkFailure(altCall[r], kind)
          /\ altResting' = IF kind # "network" THEN altResting
                           ELSE [altResting EXCEPT ![<<altCall[r].key, altCall[r].host>>] =
                                     altNow + AltInitialBackoff]
    /\ altFailed' = altFailed \cup {<<altCall[r].gen, altCall[r].index>>}
    /\ \E unsent \in BOOLEAN : altCall' = [altCall EXCEPT ![r] =
           IF unsent THEN [at |-> "tcp", key |-> altCall[r].key] ELSE AltIdle]
    /\ UNCHANGED <<altCount, altNextGen, altNow>>

(* Cancelled, or out of memory: the candidate is not blamed. *)
Http3GivenUp(r) ==
    /\ altCall[r].at = "h3"
    /\ \E cancelled \in BOOLEAN : altCall' = [altCall EXCEPT ![r] =
           IF cancelled THEN AltIdle ELSE [at |-> "tcp", key |-> altCall[r].key]]
    /\ UNCHANGED <<altEntries, altCount, altNextGen, altNow, altFailed, altResting>>

(* The response arrived, over HTTP/3 or over TCP. *)
ResponseIsLearned(r) ==
    /\ altCall[r].at \in {"learn", "tcp"}
    /\ LearnAltSvcFromResponse(altCall[r].key)
    /\ altCall' = [altCall EXCEPT ![r] = AltIdle]
    /\ UNCHANGED <<altNow, altFailed, altResting>>

TcpFails(r) ==
    /\ altCall[r].at = "tcp"
    /\ altCall' = [altCall EXCEPT ![r] = AltIdle]
    /\ UNCHANGED <<altEntries, altCount, altNextGen, altNow, altFailed, altResting>>

AltSvcCacheNetworkChanged ==
    /\ altEntries' = [i \in AltSlots |-> [altEntries[i] EXCEPT !.cands =
           [n \in DOMAIN @ |-> [@[n] EXCEPT !.broken = Working]]]]
    /\ altResting' = [p \in DOMAIN altResting |-> 0]
    /\ UNCHANGED <<altCount, altNextGen, altNow, altCall, altFailed>>

AltTick ==
    /\ altNow < AltMaxClock
    /\ altNow' = altNow + 1
    /\ UNCHANGED <<altEntries, altCount, altNextGen, altCall, altFailed, altResting>>

AltInit ==
    /\ altEntries = [i \in AltSlots |-> AltFree] /\ altCount = 0 /\ altNextGen = 1
    /\ altNow = 0 /\ altCall = [r \in AltRequests |-> AltIdle]
    /\ altFailed = {} /\ altResting = [p \in AltOrigins \X AltHosts |-> 0]

AltNext ==
    \/ \E r \in AltRequests :
          \/ RequestStarts(r) \/ Http3Succeeds(r) \/ Http3Fails(r) \/ Http3GivenUp(r)
          \/ ResponseIsLearned(r) \/ TcpFails(r)
    \/ AltSvcCacheNetworkChanged
    \/ AltTick

AltSpec == AltInit /\ [][AltNext]_altVars

----------------------------------------
(* A candidate is held back only by the failure of an attempt that was made *)
(* on this very advertisement: the late report of an attempt made on an     *)
(* earlier entry of the origin never blocks what was learned since.         *)
BrokenByItsOwnAttempt ==
    \A i \in AltSlots : \A n \in DOMAIN altEntries[i].cands :
        altEntries[i].cands[n].broken # Working => <<altEntries[i].gen, n>> \in altFailed

(* An origin has at most one entry, an entry has one generation, and the    *)
(* count the capacity is judged by is the number of slots in use.           *)
AltSvcCountIsExact ==
    /\ altCount = Cardinality({i \in AltSlots : altEntries[i].key # AltNone})
    /\ \A i, j \in AltSlots : (i # j /\ altEntries[i].key # AltNone) =>
          altEntries[i].key # altEntries[j].key /\ altEntries[i].gen # altEntries[j].gen

(* After a network failure an endpoint is not tried again for the origin    *)
(* before the backoff is over, unless it worked or the network changed.     *)
FailedAlternativeRests ==
    [][\A r \in AltRequests : (altCall[r].at = "idle" /\ altCall'[r].at = "h3") =>
          altResting[<<altCall'[r].key, altCall'[r].host>>] <= altNow]_altVars

(* An alternative rests only for a failure of its own, and the cache counts  *)
(* the entries it has.                                                       *)
AlternativesAreSound == BrokenByItsOwnAttempt /\ AltSvcCountIsExact
=============================================================================
