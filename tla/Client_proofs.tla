--------------------------- MODULE Client_proofs ---------------------------
\* What a request meets before it is sent is sound, for any callers,
\* names, origins, resources and any size of the caches: the Alt-Svc cache
\* (AlternativesAreSound), the resolver (ResolutionsAreSound), the
\* transport choice of a WebSocket (ConnectEndsCleanly), the response
\* cache (CacheIsSound), the cookie jar (JarIsSound) and redirects
\* (CredentialsStayWithOrigin). Each has an inductive invariant of its own.
EXTENDS HttpCache, AltSvcCache, NameResolution, WebSocketConnect, CookieJar, RequestRedirect,
        FiniteSetTheorems, FunctionTheorems, NaturalsInduction, WellFoundedInduction, TLAPS

----------------------------------------
(* Numbers *)

\* A set of natural numbers that is not empty has a least element.
LEMMA LeastNatural ==
    ASSUME NEW S \in SUBSET Nat, S # {}
    PROVE  \E s \in S : \A t \in S : s <= t
<1>1. PICK x \in S : \A y \in S : ~(<<y, x>> \in OpToRel(<, Nat))
  BY NatLessThanWellFounded, WFMin
<1>2. \A y \in S : <<y, x>> \in OpToRel(<, Nat) <=> y < x
  BY SMT DEF OpToRel
<1>3. \A y \in S : y \in Nat
  OBVIOUS
<1>4. \A y \in S : ~(y < x)
  BY <1>1, <1>2
<1>5. \A y \in S : x <= y
  BY <1>3, <1>4
<1> QED  BY <1>5

LEMMA MinIsMember ==
    ASSUME NEW S \in SUBSET Nat, S # {}
    PROVE  Min(S) \in S
BY LeastNatural DEF Min

----------------------------------------
\* The Alt-Svc cache. A late report finds its entry by origin and
\* generation. That it never blames another advertisement rests on the
\* generations: an entry in use has one that no other entry has and no
\* later one will get (AltEntryOK).

IsCandidate(c) == c = [host |-> c.host, expires |-> c.expires, broken |-> c.broken]

IsEntry(e) ==
    /\ e = [key |-> e.key, gen |-> e.gen, updated |-> e.updated, cands |-> e.cands]
    /\ e.gen \in Nat /\ e.updated \in Nat
    /\ e.cands = [n \in DOMAIN e.cands |-> e.cands[n]]
    /\ \A n \in DOMAIN e.cands : IsCandidate(e.cands[n])

\* A candidate is held back by an attempt on this entry only.
OwnFailures(e, failed) ==
    \A n \in DOMAIN e.cands : e.cands[n].broken # Working => <<e.gen, n>> \in failed

AltEntryOK(e, next, failed) ==
    IsEntry(e) /\ OwnFailures(e, failed) /\ e.gen < next /\ (e.key = AltNone <=> e.gen = 0)

InUse == {i \in AltSlots : altEntries[i].key # AltNone}

AltEntriesOK ==
    /\ altEntries = [i \in AltSlots |-> altEntries[i]]
    /\ altNextGen \in Nat /\ altNextGen > 0 /\ altNow \in Nat
    /\ \A i \in AltSlots : AltEntryOK(altEntries[i], altNextGen, altFailed)
    /\ \A i, j \in AltSlots : i # j /\ altEntries[i].key # AltNone =>
          altEntries[i].key # altEntries[j].key /\ altEntries[i].gen # altEntries[j].gen

AltCountOK == altCount = Cardinality(InUse)

AltCallsOK ==
    /\ altCall = [r \in AltRequests |-> altCall[r]]
    /\ \A r \in AltRequests : altCall[r].at # "idle" => altCall[r].key \in AltOrigins

AltInv == AltEntriesOK /\ AltCountOK /\ AltCallsOK

----------------------------------------
(* Lemmas *)

LEMMA SlotsAreNatural == AltSlots \subseteq Nat /\ 0 \notin AltSlots /\ AltSlots # {}
BY AltConstants DEF AltSlots

\* FindEntry finds the entry of an origin if there is one.
LEMMA FindEntryFinds ==
    ASSUME NEW key
    PROVE  /\ FindEntry(key) = 0 => \A i \in AltSlots : altEntries[i].key # key
           /\ FindEntry(key) # 0 => FindEntry(key) \in AltSlots /\ altEntries[FindEntry(key)].key = key
<1>1. PICK hits : hits = {i \in AltSlots : altEntries[i].key = key}
  OBVIOUS
<1>2. FindEntry(key) = IF hits = {} THEN 0 ELSE Min(hits)
  BY <1>1 DEF FindEntry
<1>3. hits # {} => Min(hits) \in hits
  BY <1>1, SlotsAreNatural, MinIsMember
<1> QED  BY <1>1, <1>2, <1>3, SlotsAreNatural

\* SelectReplacementEntry selects a slot.
LEMMA ReplacementIsSlot ==
    ASSUME AltEntriesOK
    PROVE  SelectReplacementEntry \in AltSlots
<1>1. PICK free : free = {i \in AltSlots : altEntries[i].key = AltNone}
  OBVIOUS
<1>2. PICK oldest : oldest = {i \in AltSlots : \A j \in AltSlots : altEntries[i].updated <= altEntries[j].updated}
  OBVIOUS
<1>3. SelectReplacementEntry = IF free # {} THEN Min(free) ELSE Min(oldest)
  BY <1>1, <1>2 DEF SelectReplacementEntry
<1>4. free # {} => Min(free) \in AltSlots
  BY <1>1, SlotsAreNatural, MinIsMember
<1>5. oldest # {}
  <2>1. PICK times : times = {altEntries[i].updated : i \in AltSlots}
    OBVIOUS
  <2>a. \A i \in AltSlots : altEntries[i].updated \in Nat
    BY DEF AltEntriesOK, AltEntryOK, IsEntry
  <2>b. PICK i : i \in AltSlots
    BY SlotsAreNatural
  <2>2. times \subseteq Nat /\ altEntries[i].updated \in times
    BY <2>1, <2>a, <2>b
  <2>3. PICK t \in times : \A u \in times : t <= u
    BY <2>2, LeastNatural
  <2> QED  BY <1>2, <2>1, <2>3
<1>6. Min(oldest) \in AltSlots
  BY <1>2, <1>5, SlotsAreNatural, MinIsMember
<1> QED  BY <1>3, <1>4, <1>6

LEMMA FiniteInUse == IsFiniteSet(InUse) /\ Cardinality(InUse) \in Nat
<1>1. IsFiniteSet(AltSlots)
  BY AltConstants, FS_Interval DEF AltSlots
<1>2. IsFiniteSet(InUse)
  BY <1>1, FS_Subset DEF InUse
<1> QED  BY <1>2, FS_CardinalityType

----------------------------------------
(* The cache *)

\* An entry is removed: nobody else's changes.
LEMMA RemoveKeeps ==
    ASSUME AltEntriesOK, AltCountOK, NEW key, key # AltNone, RemoveEntry(FindEntry(key)),
           UNCHANGED <<altNextGen, altNow, altFailed>>
    PROVE  AltEntriesOK' /\ AltCountOK'
<1>1. PICK i : i = FindEntry(key)
  OBVIOUS
<1>2. CASE i = 0
  BY <1>1, <1>2 DEF RemoveEntry, AltEntriesOK, AltCountOK, InUse
<1>3. CASE i # 0
  <2>1. i \in AltSlots /\ altEntries[i].key # AltNone
    BY <1>1, <1>3, FindEntryFinds
  <2>2. /\ altEntries' = [altEntries EXCEPT ![i] = AltFree]
        /\ altCount' = IF altCount # 0 THEN altCount - 1 ELSE altCount
    BY <1>1, <1>3 DEF RemoveEntry
  <2>3. /\ altEntries' = [j \in AltSlots |-> altEntries'[j]]
        /\ \A j \in AltSlots : altEntries'[j] = IF j = i THEN AltFree ELSE altEntries[j]
    BY <2>1, <2>2 DEF AltEntriesOK
  <2>4. AltFree.key = AltNone /\ AltFree.gen = 0 /\ AltEntryOK(AltFree, altNextGen, altFailed)
    BY DEF AltFree, AltEntryOK, IsEntry, OwnFailures, AltEntriesOK
  <2>a. \A j, l \in AltSlots : j # l /\ altEntries'[j].key # AltNone =>
           altEntries'[j].key # altEntries'[l].key /\ altEntries'[j].gen # altEntries'[l].gen
    <3>1. ASSUME NEW j \in AltSlots, altEntries[j].key # AltNone PROVE altEntries[j].gen # 0
      BY <3>1 DEF AltEntriesOK, AltEntryOK
    <3> QED  BY <2>3, <2>4, <3>1 DEF AltEntriesOK
  <2>b. \A j \in AltSlots : AltEntryOK(altEntries'[j], altNextGen, altFailed)
    BY <2>3, <2>4 DEF AltEntriesOK
  <2>5. AltEntriesOK'
    BY <2>3, <2>a, <2>b DEF AltEntriesOK
  <2>6. InUse' = InUse \ {i} /\ i \in InUse
    BY <2>1, <2>3, <2>4 DEF InUse
  <2>7. altCount # 0
    BY <2>6, FiniteInUse, FS_EmptySet DEF AltCountOK
  <2>8. AltCountOK'
    BY <2>2, <2>6, <2>7, FiniteInUse, FS_RemoveElement DEF AltCountOK
  <2> QED  BY <2>5, <2>8
<1> QED  BY <1>2, <1>3

\* An advertisement is stored: under a generation of its own, in the entry of
\* its origin or in one that is given up.
LEMMA AltStoreKeeps ==
    ASSUME AltEntriesOK, AltCountOK, NEW key, key # AltNone, NEW hosts,
           AltSvcCacheStoreResponse(key, hosts), UNCHANGED <<altNow, altFailed>>
    PROVE  AltEntriesOK' /\ AltCountOK'
<1>1. PICK i : i = IF FindEntry(key) = 0 THEN SelectReplacementEntry ELSE FindEntry(key)
  OBVIOUS
<1>2. PICK e : e = [key |-> key, gen |-> altNextGen, updated |-> altNow, cands |-> ParseAltSvcValue(hosts)]
  OBVIOUS
<1>3. /\ altEntries' = [altEntries EXCEPT ![i] = e] /\ altNextGen' = altNextGen + 1
      /\ altCount' = IF altEntries[i].key = AltNone THEN altCount + 1 ELSE altCount
  BY <1>1, <1>2 DEF AltSvcCacheStoreResponse
<1>4. i \in AltSlots /\ \A j \in AltSlots : j # i => altEntries[j].key # key
  BY <1>1, FindEntryFinds, ReplacementIsSlot DEF AltEntriesOK
<1>5. /\ altEntries' = [j \in AltSlots |-> altEntries'[j]]
      /\ \A j \in AltSlots : altEntries'[j] = IF j = i THEN e ELSE altEntries[j]
  BY <1>3, <1>4 DEF AltEntriesOK
<1>6. e.key = key /\ e.gen = altNextGen /\ AltEntryOK(e, altNextGen', altFailed')
  <2>1. /\ e.key = key /\ e.gen = altNextGen /\ e.updated = altNow
        /\ e.cands = ParseAltSvcValue(hosts)
        /\ e = [key |-> e.key, gen |-> e.gen, updated |-> e.updated, cands |-> e.cands]
    BY <1>2
  <2>2. /\ e.cands = [n \in DOMAIN e.cands |-> e.cands[n]]
        /\ \A n \in DOMAIN e.cands : IsCandidate(e.cands[n]) /\ e.cands[n].broken = Working
    BY <2>1 DEF ParseAltSvcValue, IsCandidate
  <2> QED  BY <1>3, <2>1, <2>2 DEF AltEntryOK, IsEntry, OwnFailures, AltEntriesOK
<1>a. \A j \in AltSlots : altEntries[j].gen \in Nat /\ altEntries[j].gen < altNextGen
  BY DEF AltEntriesOK, AltEntryOK, IsEntry
<1>7. \A j \in AltSlots : AltEntryOK(altEntries'[j], altNextGen', altFailed')
  <2>1. ASSUME NEW j \in AltSlots, j # i PROVE AltEntryOK(altEntries[j], altNextGen', altFailed')
    <3>1. altEntries[j].gen < altNextGen' /\ AltEntryOK(altEntries[j], altNextGen, altFailed)
      BY <1>3, <1>a DEF AltEntriesOK
    <3> QED  BY <3>1 DEF AltEntryOK
  <2> QED  BY <1>5, <1>6, <2>1
<1>8. \A j, l \in AltSlots : j # l /\ altEntries'[j].key # AltNone =>
         altEntries'[j].key # altEntries'[l].key /\ altEntries'[j].gen # altEntries'[l].gen
  <2>1. ASSUME NEW j \in AltSlots PROVE altEntries[j].gen # altNextGen
    BY <1>a DEF AltEntriesOK
  <2> QED  BY <1>4, <1>5, <1>6, <2>1 DEF AltEntriesOK
<1>9. AltEntriesOK'
  BY <1>3, <1>5, <1>7, <1>8 DEF AltEntriesOK
<1>10. InUse' = InUse \cup {i} /\ (i \in InUse <=> altEntries[i].key # AltNone)
  BY <1>4, <1>5, <1>6 DEF InUse
<1>11. AltCountOK'
  BY <1>3, <1>10, FiniteInUse, FS_AddElement DEF AltCountOK
<1> QED  BY <1>9, <1>11

\* One candidate of one entry changes; it is held back by the attempt reported, or not at all.
LEMMA ReportKeeps ==
    ASSUME AltEntriesOK, AltCountOK, NEW i \in AltSlots, NEW n \in DOMAIN altEntries[i].cands, NEW cand,
           IsCandidate(cand), altEntries' = [altEntries EXCEPT ![i].cands[n] = cand],
           UNCHANGED <<altCount, altNextGen, altNow>>, altFailed \subseteq altFailed',
           cand.broken # Working => <<altEntries[i].gen, n>> \in altFailed'
    PROVE  AltEntriesOK' /\ AltCountOK'
<1>1. PICK e : e = altEntries[i]
  OBVIOUS
<1>2. PICK f : f = [e EXCEPT !.cands[n] = cand]
  OBVIOUS
<1>3. AltEntryOK(e, altNextGen, altFailed)
  BY <1>1 DEF AltEntriesOK
<1>4. PICK list : list = [e.cands EXCEPT ![n] = cand]
  OBVIOUS
<1>5. /\ DOMAIN list = DOMAIN e.cands /\ list = [m \in DOMAIN list |-> list[m]]
      /\ \A m \in DOMAIN e.cands : list[m] = IF m = n THEN cand ELSE e.cands[m]
  BY <1>1, <1>3, <1>4 DEF AltEntryOK, IsEntry
<1>6. /\ f = [key |-> f.key, gen |-> f.gen, updated |-> f.updated, cands |-> f.cands]
      /\ f.key = e.key /\ f.gen = e.gen /\ f.updated = e.updated /\ f.cands = list
  BY <1>2, <1>3, <1>4 DEF AltEntryOK, IsEntry
<1>7. IsEntry(f)
  BY <1>3, <1>5, <1>6 DEF AltEntryOK, IsEntry
<1>8. OwnFailures(f, altFailed')
  BY <1>1, <1>3, <1>5, <1>6 DEF AltEntryOK, OwnFailures
<1>9. AltEntryOK(f, altNextGen', altFailed')
  BY <1>3, <1>6, <1>7, <1>8 DEF AltEntryOK
<1>10. /\ altEntries' = [j \in AltSlots |-> altEntries'[j]]
       /\ \A j \in AltSlots : altEntries'[j] = IF j = i THEN f ELSE altEntries[j]
  BY <1>1, <1>2 DEF AltEntriesOK
<1>11. ASSUME NEW j \in AltSlots, j # i PROVE AltEntryOK(altEntries[j], altNextGen', altFailed')
  BY DEF AltEntriesOK, AltEntryOK, OwnFailures
<1>12. \A j \in AltSlots : AltEntryOK(altEntries'[j], altNextGen', altFailed')
  BY <1>9, <1>10, <1>11
<1>13. \A j \in AltSlots : altEntries'[j].key = altEntries[j].key /\ altEntries'[j].gen = altEntries[j].gen
  BY <1>1, <1>6, <1>10
<1>14. AltEntriesOK'
  BY <1>10, <1>12, <1>13 DEF AltEntriesOK
<1>15. InUse' = InUse
  BY <1>13 DEF InUse
<1> QED  BY <1>14, <1>15 DEF AltCountOK

\* A report finds the candidate it is about.
LEMMA ReportedFinds ==
    ASSUME NEW c, Reported(c) # 0
    PROVE  /\ Reported(c) \in AltSlots /\ altEntries[Reported(c)].gen = c.gen
           /\ c.index \in DOMAIN altEntries[Reported(c)].cands
BY FindEntryFinds DEF Reported

LEMMA BrokenIsCandidate ==
    ASSUME NEW c, IsCandidate(c), NEW kind
    PROVE  IsCandidate(Broken(c, kind))
<1>1. PICK n : n = c.broken.failures + 1
  OBVIOUS
<1>2. PICK until : until = Min({altNow + Backoff(n), c.expires})
  OBVIOUS
<1>3. CASE kind = "network"
  <2>1. PICK b : b = [c.broken EXCEPT !.failures = n]
    OBVIOUS
  <2>2. PICK d : d = [c EXCEPT !.broken.failures = n, !.broken.until = until]
    OBVIOUS
  <2>3. IsCandidate(d)
    BY <2>2 DEF IsCandidate
  <2> QED  BY <1>1, <1>2, <1>3, <2>2, <2>3 DEF Broken
<1>4. CASE kind # "network"
  <2>1. PICK d : d = [c EXCEPT !.broken.disabled = TRUE]
    OBVIOUS
  <2>2. IsCandidate(d)
    BY <2>1 DEF IsCandidate
  <2> QED  BY <1>4, <2>1, <2>2 DEF Broken
<1> QED  BY <1>3, <1>4

----------------------------------------
(* The actions *)

\* An origin is never the key of a free slot, and the callers have one.
LEMMA CallersKey ==
    ASSUME AltCallsOK, NEW r \in AltRequests, altCall[r].at # "idle"
    PROVE  altCall[r].key \in AltOrigins /\ altCall[r].key # AltNone
BY AltConstants DEF AltCallsOK

\* A call goes on with its key, or ends.
LEMMA CallKeeps ==
    ASSUME AltCallsOK, NEW r \in AltRequests, NEW c, altCall' = [altCall EXCEPT ![r] = c],
           c.at # "idle" => c.key \in AltOrigins
    PROVE  AltCallsOK'
<1>1. /\ altCall' = [s \in AltRequests |-> altCall'[s]]
      /\ \A s \in AltRequests : altCall'[s] = IF s = r THEN c ELSE altCall[s]
  BY DEF AltCallsOK
<1> QED  BY <1>1 DEF AltCallsOK

LEMMA EntriesStay ==
    ASSUME AltEntriesOK, AltCountOK, UNCHANGED <<altEntries, altCount, altNextGen, altNow, altFailed>>
    PROVE  AltEntriesOK' /\ AltCountOK'
BY DEF AltEntriesOK, AltCountOK, InUse

\* AltSvcCacheLookup: an entry whose candidates have all expired is removed.
LEMMA RequestStartsKeeps ==
    ASSUME AltInv, NEW r \in AltRequests, RequestStarts(r)
    PROVE  AltInv'
<1>1. PICK key \in AltOrigins : AltSvcCacheLookup(r, key)
  BY DEF RequestStarts
<1>2. key # AltNone /\ UNCHANGED <<altNextGen, altNow, altFailed>>
  BY AltConstants DEF RequestStarts
<1>3. PICK i : i = FindEntry(key)
  OBVIOUS
<1>4. CASE i # 0 /\ Eligible(altEntries[i]) # {}
  <2>1. PICK c : c = [at |-> "h3", key |-> key, gen |-> altEntries[i].gen,
                      index |-> Min(Eligible(altEntries[i])),
                      host |-> altEntries[i].cands[Min(Eligible(altEntries[i]))].host]
    OBVIOUS
  <2>2. altCall' = [altCall EXCEPT ![r] = c] /\ UNCHANGED <<altEntries, altCount>>
    BY <1>1, <1>3, <1>4, <2>1 DEF AltSvcCacheLookup
  <2>3. c.key \in AltOrigins
    BY <2>1
  <2>4. AltCallsOK'
    BY <2>2, <2>3, CallKeeps DEF AltInv
  <2> QED  BY <1>2, <2>2, <2>4, EntriesStay DEF AltInv
<1>5. CASE ~(i # 0 /\ Eligible(altEntries[i]) # {})
  <2>1. PICK c : c = [at |-> "tcp", key |-> key]
    OBVIOUS
  <2>2. /\ altCall' = [altCall EXCEPT ![r] = c]
        /\ RemoveEntry(i) \/ UNCHANGED <<altEntries, altCount>>
    BY <1>1, <1>3, <1>5, <2>1 DEF AltSvcCacheLookup
  <2>3. c.key \in AltOrigins
    BY <2>1
  <2>4. AltCallsOK'
    BY <2>2, <2>3, CallKeeps DEF AltInv
  <2>5. AltEntriesOK' /\ AltCountOK'
    BY <1>2, <1>3, <2>2, RemoveKeeps, EntriesStay DEF AltInv
  <2> QED  BY <2>4, <2>5 DEF AltInv
<1> QED  BY <1>4, <1>5

\* AltSvcCacheMarkSuccess: the candidate reported, if it is still there, works.
LEMMA Http3SucceedsKeeps ==
    ASSUME AltInv, NEW r \in AltRequests, Http3Succeeds(r)
    PROVE  AltInv'
<1>1. PICK call : call = altCall[r]
  OBVIOUS
<1>2. /\ call.at = "h3" /\ altEntries' = AltSvcCacheMarkSuccess(call)
      /\ altCall' = [altCall EXCEPT ![r] = [at |-> "learn", key |-> call.key]]
      /\ UNCHANGED <<altCount, altNextGen, altNow, altFailed>>
  BY <1>1 DEF Http3Succeeds
<1>3. AltCallsOK'
  <2>1. PICK c : c = [at |-> "learn", key |-> call.key]
    OBVIOUS
  <2>2. c.key \in AltOrigins
    BY <1>1, <1>2, <2>1, CallersKey DEF AltInv
  <2> QED  BY <1>2, <2>1, <2>2, CallKeeps DEF AltInv
<1>4. PICK i : i = Reported(call)
  OBVIOUS
<1>5. CASE i = 0
  BY <1>2, <1>3, <1>4, <1>5, EntriesStay DEF AltSvcCacheMarkSuccess, AltInv
<1>6. CASE i # 0
  <2>1. i \in AltSlots /\ call.index \in DOMAIN altEntries[i].cands
    BY <1>4, <1>6, ReportedFinds
  <2>2. PICK old : old = altEntries[i].cands[call.index]
    OBVIOUS
  <2>3. PICK cand : cand = [old EXCEPT !.broken = Working]
    OBVIOUS
  <2>4. IsCandidate(old)
    BY <2>1, <2>2 DEF AltInv, AltEntriesOK, AltEntryOK, IsEntry
  <2>5. IsCandidate(cand) /\ cand.broken = Working
    BY <2>3, <2>4 DEF IsCandidate
  <2>6. altEntries' = [altEntries EXCEPT ![i].cands[call.index].broken = Working]
    BY <1>2, <1>4, <1>6 DEF AltSvcCacheMarkSuccess
  <2>7. altEntries' = [altEntries EXCEPT ![i].cands[call.index] = cand]
    BY <2>2, <2>3, <2>6
  <2>8. AltEntriesOK' /\ AltCountOK'
    BY <1>2, <2>1, <2>5, <2>7, ReportKeeps DEF AltInv
  <2> QED  BY <1>3, <2>8 DEF AltInv
<1> QED  BY <1>5, <1>6

\* AltSvcCacheMarkFailure: the candidate of the entry the attempt was made on.
LEMMA Http3FailsKeeps ==
    ASSUME AltInv, NEW r \in AltRequests, Http3Fails(r)
    PROVE  AltInv'
<1>1. PICK call : call = altCall[r]
  OBVIOUS
<1>2. PICK kind \in {"network", "protocol"}, unsent \in BOOLEAN :
      /\ AltSvcCacheMarkFailure(call, kind)
      /\ altCall' = [altCall EXCEPT ![r] = IF unsent THEN [at |-> "tcp", key |-> call.key] ELSE AltIdle]
  BY <1>1 DEF Http3Fails
<1>3. /\ call.at = "h3" /\ altFailed' = altFailed \cup {<<call.gen, call.index>>}
      /\ UNCHANGED <<altCount, altNextGen, altNow>>
  BY <1>1 DEF Http3Fails
<1>4. AltCallsOK'
  <2>1. PICK c : c = IF unsent THEN [at |-> "tcp", key |-> call.key] ELSE AltIdle
    OBVIOUS
  <2>2. c.at # "idle" => c.key \in AltOrigins
    BY <1>1, <1>3, <2>1, CallersKey DEF AltInv, AltIdle
  <2> QED  BY <1>2, <2>1, <2>2, CallKeeps DEF AltInv
<1>5. PICK i : i = Reported(call)
  OBVIOUS
<1>6. CASE i = 0
  <2>1. altEntries' = altEntries
    BY <1>2, <1>5, <1>6 DEF AltSvcCacheMarkFailure
  <2>2. ASSUME NEW j \in AltSlots PROVE AltEntryOK(altEntries[j], altNextGen', altFailed')
    BY <1>3 DEF AltInv, AltEntriesOK, AltEntryOK, OwnFailures
  <2>3. AltEntriesOK'
    BY <1>3, <2>1, <2>2 DEF AltInv, AltEntriesOK
  <2>4. AltCountOK'
    BY <1>3, <2>1 DEF AltInv, AltCountOK, InUse
  <2> QED  BY <1>4, <2>3, <2>4 DEF AltInv
<1>7. CASE i # 0
  <2>1. /\ i \in AltSlots /\ call.index \in DOMAIN altEntries[i].cands
        /\ altEntries[i].gen = call.gen
    BY <1>5, <1>7, ReportedFinds
  <2>2. PICK old : old = altEntries[i].cands[call.index]
    OBVIOUS
  <2>3. PICK cand : cand = Broken(old, kind)
    OBVIOUS
  <2>4. IsCandidate(cand)
    BY <2>1, <2>2, <2>3, BrokenIsCandidate DEF AltInv, AltEntriesOK, AltEntryOK, IsEntry
  <2>5. altEntries' = [altEntries EXCEPT ![i].cands[call.index] = Broken(@, kind)]
    BY <1>2, <1>5, <1>7 DEF AltSvcCacheMarkFailure
  <2>6. altEntries' = [altEntries EXCEPT ![i].cands[call.index] = cand]
    BY <2>2, <2>3, <2>5
  <2>7. altFailed \subseteq altFailed' /\ <<altEntries[i].gen, call.index>> \in altFailed'
    BY <1>3, <2>1
  <2>8. AltEntriesOK' /\ AltCountOK'
    BY <1>3, <2>1, <2>4, <2>6, <2>7, ReportKeeps DEF AltInv
  <2> QED  BY <1>4, <2>8 DEF AltInv
<1> QED  BY <1>6, <1>7

LEMMA Http3GivenUpKeeps ==
    ASSUME AltInv, NEW r \in AltRequests, Http3GivenUp(r)
    PROVE  AltInv'
<1>1. PICK cancelled \in BOOLEAN : altCall' = [altCall EXCEPT ![r] =
           IF cancelled THEN AltIdle ELSE [at |-> "tcp", key |-> altCall[r].key]]
  BY DEF Http3GivenUp
<1>2. PICK c : c = IF cancelled THEN AltIdle ELSE [at |-> "tcp", key |-> altCall[r].key]
  OBVIOUS
<1>3. c.at # "idle" => c.key \in AltOrigins
  BY <1>2, CallersKey DEF AltInv, AltIdle, Http3GivenUp
<1>4. AltCallsOK'
  BY <1>1, <1>2, <1>3, CallKeeps DEF AltInv
<1>5. AltEntriesOK' /\ AltCountOK'
  BY EntriesStay DEF AltInv, Http3GivenUp
<1> QED  BY <1>4, <1>5 DEF AltInv

\* LearnAltSvcFromResponse: nothing, a removal, or a new advertisement.
LEMMA ResponseIsLearnedKeeps ==
    ASSUME AltInv, NEW r \in AltRequests, ResponseIsLearned(r)
    PROVE  AltInv'
<1>1. PICK key : key = altCall[r].key
  OBVIOUS
<1>2. /\ altCall[r].at # "idle" /\ LearnAltSvcFromResponse(key)
      /\ altCall' = [altCall EXCEPT ![r] = AltIdle] /\ UNCHANGED <<altNow, altFailed>>
  BY <1>1 DEF ResponseIsLearned
<1>3. key # AltNone
  BY <1>1, <1>2, CallersKey DEF AltInv
<1>4. AltIdle.at = "idle"
  BY DEF AltIdle
<1>5. AltCallsOK'
  BY <1>2, <1>4, CallKeeps DEF AltInv
<1>6. CASE UNCHANGED <<altEntries, altCount, altNextGen>>
  BY <1>2, <1>5, <1>6, EntriesStay DEF AltInv
<1>7. CASE RemoveEntry(FindEntry(key)) /\ UNCHANGED altNextGen
  BY <1>2, <1>3, <1>5, <1>7, RemoveKeeps DEF AltInv
<1>8. CASE \E hosts \in Advertisements : AltSvcCacheStoreResponse(key, hosts)
  BY <1>2, <1>3, <1>5, <1>8, AltStoreKeeps DEF AltInv
<1> QED  BY <1>2, <1>6, <1>7, <1>8 DEF LearnAltSvcFromResponse

LEMMA TcpFailsKeeps ==
    ASSUME AltInv, NEW r \in AltRequests, TcpFails(r)
    PROVE  AltInv'
<1>1. AltIdle.at = "idle"
  BY DEF AltIdle
<1>2. AltCallsOK'
  BY <1>1, CallKeeps DEF AltInv, TcpFails
<1> QED  BY <1>2, EntriesStay DEF AltInv, TcpFails

\* AltSvcCacheNetworkChanged: every candidate works again.
LEMMA NetworkChangedKeeps ==
    ASSUME AltInv, AltSvcCacheNetworkChanged
    PROVE  AltInv'
<1>1. UNCHANGED <<altCount, altNextGen, altNow, altCall, altFailed>>
  BY DEF AltSvcCacheNetworkChanged
<1>2. altEntries' = [j \in AltSlots |-> altEntries'[j]]
  BY DEF AltSvcCacheNetworkChanged
<1>3. ASSUME NEW j \in AltSlots
      PROVE  /\ AltEntryOK(altEntries'[j], altNextGen, altFailed)
             /\ altEntries'[j].key = altEntries[j].key /\ altEntries'[j].gen = altEntries[j].gen
  <2>1. PICK e : e = altEntries[j]
    OBVIOUS
  <2>2. AltEntryOK(e, altNextGen, altFailed)
    BY <2>1 DEF AltInv, AltEntriesOK
  <2>3. PICK list : list = [n \in DOMAIN e.cands |-> [e.cands[n] EXCEPT !.broken = Working]]
    OBVIOUS
  <2>4. PICK f : f = [e EXCEPT !.cands = list]
    OBVIOUS
  <2>5. altEntries'[j] = f
    BY <2>1, <2>3, <2>4 DEF AltSvcCacheNetworkChanged
  <2>6. /\ f = [key |-> f.key, gen |-> f.gen, updated |-> f.updated, cands |-> f.cands]
        /\ f.key = e.key /\ f.gen = e.gen /\ f.updated = e.updated /\ f.cands = list
    BY <2>2, <2>4 DEF AltEntryOK, IsEntry
  <2>7. ASSUME NEW n \in DOMAIN list PROVE IsCandidate(list[n]) /\ list[n].broken = Working
    <3>1. IsCandidate(e.cands[n])
      BY <2>2, <2>3 DEF AltEntryOK, IsEntry
    <3> QED  BY <2>3, <3>1 DEF IsCandidate
  <2>8. list = [n \in DOMAIN list |-> list[n]]
    BY <2>3
  <2>9. AltEntryOK(f, altNextGen, altFailed)
    BY <2>2, <2>6, <2>7, <2>8 DEF AltEntryOK, IsEntry, OwnFailures
  <2> QED  BY <2>1, <2>5, <2>6, <2>9
<1>4. AltEntriesOK'
  BY <1>1, <1>2, <1>3 DEF AltInv, AltEntriesOK
<1>5. InUse' = InUse
  BY <1>3 DEF InUse
<1> QED  BY <1>1, <1>4, <1>5 DEF AltInv, AltCountOK, AltCallsOK

LEMMA AltTickKeeps ==
    ASSUME AltInv, AltTick
    PROVE  AltInv'
<1>1. altNow' \in Nat
  BY DEF AltInv, AltEntriesOK, AltTick
<1>2. AltEntriesOK'
  BY <1>1 DEF AltInv, AltEntriesOK, AltTick
<1> QED  BY <1>2 DEF AltInv, AltTick, AltCountOK, InUse, AltCallsOK

----------------------------------------
(* The invariant *)

LEMMA AltInitHolds ==
    ASSUME AltInit
    PROVE  AltInv
<1>1. /\ altEntries = [i \in AltSlots |-> AltFree] /\ altCount = 0 /\ altNextGen = 1 /\ altNow = 0
      /\ altCall = [r \in AltRequests |-> AltIdle] /\ altFailed = {}
  BY DEF AltInit
<1>2. AltFree.key = AltNone /\ AltFree.gen = 0 /\ AltEntryOK(AltFree, altNextGen, altFailed)
  BY <1>1 DEF AltFree, AltEntryOK, IsEntry, OwnFailures
<1>3. AltEntriesOK
  BY <1>1, <1>2 DEF AltEntriesOK
<1>4. InUse = {}
  BY <1>1, <1>2 DEF InUse
<1>5. AltCountOK
  BY <1>1, <1>4, FS_EmptySet DEF AltCountOK
<1>6. AltCallsOK
  BY <1>1 DEF AltCallsOK, AltIdle
<1> QED  BY <1>3, <1>5, <1>6 DEF AltInv

LEMMA AltNextKeeps ==
    ASSUME AltInv, [AltNext]_altVars
    PROVE  AltInv'
<1>1. CASE \E r \in AltRequests :
              \/ RequestStarts(r) \/ Http3Succeeds(r) \/ Http3Fails(r) \/ Http3GivenUp(r)
              \/ ResponseIsLearned(r) \/ TcpFails(r)
  BY <1>1, RequestStartsKeeps, Http3SucceedsKeeps, Http3FailsKeeps, Http3GivenUpKeeps,
     ResponseIsLearnedKeeps, TcpFailsKeeps
<1>2. CASE AltSvcCacheNetworkChanged
  BY <1>2, NetworkChangedKeeps
<1>3. CASE AltTick
  BY <1>3, AltTickKeeps
<1>4. CASE UNCHANGED altVars
  BY <1>4, EntriesStay DEF altVars, AltInv, AltCallsOK
<1> QED  BY <1>1, <1>2, <1>3, <1>4 DEF AltNext

LEMMA AltInvSays ==
    ASSUME AltInv
    PROVE  AlternativesAreSound
<1>1. BrokenByItsOwnAttempt
  BY DEF AltInv, AltEntriesOK, AltEntryOK, OwnFailures, BrokenByItsOwnAttempt
<1>2. AltSvcCountIsExact
  BY DEF AltInv, AltEntriesOK, AltCountOK, InUse, AltSvcCountIsExact
<1> QED  BY <1>1, <1>2 DEF AlternativesAreSound

\* An alternative is held back only for the failure of an attempt made on its
\* own advertisement, an origin has at most one entry, entries have generations
\* of their own, and the count the capacity is judged by is the number of
\* entries (AltSvcCacheMarkFailure, AltSvcCacheStoreResponse, RemoveEntry).
THEOREM AlternativesSound == AltSpec => []AlternativesAreSound
<1>1. AltInit => AltInv
  BY AltInitHolds
<1>2. AltInv /\ [AltNext]_altVars => AltInv'
  BY AltNextKeeps
<1>3. AltInv => AlternativesAreSound
  BY AltInvSays
<1> QED  BY <1>1, <1>2, <1>3, PTL DEF AltSpec

----------------------------------------
\* The resolver. Questions: the count of a context is its caller plus its
\* completion (RefsOK), so it is freed once and the names live while the
\* provider reads them. Answers: what is in the cache under a family is of
\* that family and was read when it was stored (EntryOK), and what a
\* caller has gathered over several questions fits into its capacity
\* (CallOK).

----------------------------------------
(* Answers *)

Address == [name : DnNames, family : {"Ipv4", "Ipv6"}, at : Nat]

\* Different addresses of the name n, as a ResolveAll collects them.
Addresses(s, n) == s \in Seq(Address) /\ IsInjective(s) /\ \A i \in DOMAIN s : s[i].name = n

OfFamily(s, f) == \A i \in DOMAIN s : s[i].family = f

\* Every address was read at most a cache life before t.
Recent(s, t) == \A i \in DOMAIN s : t - s[i].at <= DnTtl

\* What answers a question for one family, or for any, at time t.
Answers(s, n, f, t) == Addresses(s, n) /\ (f # "Any" => OfFamily(s, f) /\ Recent(s, t))

EntryOK(e) ==
    /\ Addresses(e.addresses, e.name) /\ e.addresses # << >>
    /\ e.family # "Any" => /\ OfFamily(e.addresses, e.family)
                           /\ \A i \in DOMAIN e.addresses : e.addresses[i].at = e.cachedAt

CacheOK ==
    /\ dnCache = [s \in 1..DnSlots |-> dnCache[s]]
    /\ \A s \in 1..DnSlots : dnCache[s].valid => EntryOK(dnCache[s])

IsCall(k) ==
    k = [at |-> k.at, name |-> k.name, want |-> k.want, family |-> k.family,
         capacity |-> k.capacity, got |-> k.got, found |-> k.found, first |-> k.first,
         question |-> k.question, asked |-> k.asked, status |-> k.status]

Asking == {"lookup", "ask", "waiting"}

\* What a call has gathered: addresses of Ipv4 while it asks for Ipv6.
GatheredOK(k, now) ==
    /\ IsCall(k) /\ k.at \in Asking \cup {"family", "done"}
    /\ k.name \in DnNames /\ k.want \in DnFamilies /\ k.family \in DnFamilies
    /\ k.capacity \in Nat /\ k.asked \in Nat /\ k.asked <= now
    /\ k.want # "Any" => k.family = k.want
    /\ k.got # << >> => k.family = "Ipv6" /\ k.want = "Any"
    /\ Addresses(k.got, k.name) /\ OfFamily(k.got, "Ipv4")
    /\ k.first = "SUCCESS" => k.got # << >>
    /\ Len(k.got) <= k.capacity /\ k.capacity > 0

\* A call that asks has room; one between two families has what it found for
\* the first; one that is done has its answer.
StageOK(k) ==
    /\ k.at \in Asking => Len(k.got) < k.capacity
    /\ k.at = "family" => /\ k.want = "Any" /\ k.family # "Any"
                          /\ Addresses(k.found, k.name) /\ OfFamily(k.found, k.family)
                          /\ Len(k.found) <= k.capacity - Len(k.got)
                          /\ k.status = "SUCCESS" => k.found # << >>
    /\ k.at = "done" /\ k.status = "SUCCESS" =>
          Answers(k.found, k.name, k.want, k.asked) /\ Len(k.found) \in 1..k.capacity

CallOK(k, now) == k = DnIdle \/ (GatheredOK(k, now) /\ StageOK(k))

CallsOK ==
    /\ dnCall = [c \in DnCallers |-> dnCall[c]] /\ dnClock \in Nat
    /\ \A c \in DnCallers : CallOK(dnCall[c], dnClock)

----------------------------------------
(* Questions *)

IsQuestion(r) ==
    r = [refs |-> r.refs, inFlight |-> r.inFlight, names |-> r.names, reply |-> r.reply,
         freed |-> r.freed]

AsksFor(c, q) == dnCall[c].at = "waiting" /\ dnCall[c].question = q
Waited(q) == \E c \in DnCallers : AsksFor(c, q)

\* The context of question q has a reference of its caller and one of its completion.
RefsOK(q) ==
    /\ dnRequest[q].refs = (IF Waited(q) THEN 1 ELSE 0) + (IF dnRequest[q].inFlight THEN 1 ELSE 0)
    /\ dnRequest[q].refs > 0 => dnRequest[q].names = "held" /\ dnRequest[q].freed = 0
    /\ dnRequest[q].freed \in {0, 1}

Outstanding == {q \in DnQuestions : dnRequest[q].refs > 0}

QuestionsOK ==
    /\ dnRequest = [q \in DnQuestions |-> dnRequest[q]]
    /\ \A q \in DnQuestions : IsQuestion(dnRequest[q]) /\ RefsOK(q)
    /\ \A c \in DnCallers : dnCall[c].at = "waiting" => dnCall[c].question \in DnQuestions
    /\ \A q \in DnQuestions, c, d \in DnCallers : AsksFor(c, q) /\ AsksFor(d, q) => c = d
    /\ dnCount = Cardinality(Outstanding)

DnInv == CacheOK /\ CallsOK /\ QuestionsOK

----------------------------------------
(* Lemmas on sequences of addresses *)

\* What of s fits into m places.
Cut(s, m) == SubSeq(s, 1, IF Len(s) < m THEN Len(s) ELSE m)

\* The beginning of a list of addresses is one.
LEMMA Beginning ==
    ASSUME NEW n, NEW s, Addresses(s, n), NEW m \in Nat,
           NEW p, p = Cut(s, m)
    PROVE  /\ Addresses(p, n) /\ Len(p) <= m /\ Len(p) <= Len(s)
           /\ \A i \in DOMAIN p : i \in DOMAIN s /\ p[i] = s[i]
           /\ s # << >> /\ m > 0 => p # << >>
<1>a. PICK e : e = IF Len(s) < m THEN Len(s) ELSE m
  OBVIOUS
<1>1. /\ s \in Seq(Address) /\ e \in Nat /\ e <= Len(s) /\ e <= m /\ (e = Len(s) \/ e = m)
      /\ p = SubSeq(s, 1, e)
  BY <1>a DEF Addresses, Cut
<1>2. p \in Seq(Address) /\ Len(p) = e /\ \A i \in 1..e : p[i] = s[i]
  BY <1>1
<1>3. DOMAIN p = 1..e /\ DOMAIN s = 1..Len(s) /\ 1..e \subseteq 1..Len(s)
  BY <1>1, <1>2
<1>4. \A i \in DOMAIN p : i \in DOMAIN s /\ p[i] = s[i]
  BY <1>2, <1>3
<1>5. IsInjective(p) /\ \A i \in DOMAIN p : p[i].name = n
  <2>1. ASSUME NEW i \in DOMAIN p, NEW j \in DOMAIN p, p[i] = p[j] PROVE i = j
    BY <1>4, <2>1 DEF Addresses, IsInjective
  <2>2. ASSUME NEW i \in DOMAIN p PROVE p[i].name = n
    BY <1>4 DEF Addresses
  <2> QED  BY <2>1, <2>2 DEF IsInjective
<1>6. s # << >> /\ m > 0 => p # << >>
  BY <1>1, <1>2
<1> QED  BY <1>1, <1>2, <1>4, <1>5, <1>6 DEF Addresses

\* Addresses of two families are different addresses.
LEMMA Joined ==
    ASSUME NEW n, NEW s, NEW t, Addresses(s, n), Addresses(t, n),
           NEW f, NEW g, OfFamily(s, f), OfFamily(t, g), f # g
    PROVE  /\ Addresses(s \o t, n) /\ Len(s \o t) = Len(s) + Len(t)
           /\ s \o t = << >> <=> s = << >> /\ t = << >>
<1>1. s \in Seq(Address) /\ t \in Seq(Address)
  BY DEF Addresses
<1>2. /\ s \o t \in Seq(Address) /\ Len(s \o t) = Len(s) + Len(t)
      /\ \A i \in 1..(Len(s) + Len(t)) : (s \o t)[i] = IF i <= Len(s) THEN s[i] ELSE t[i - Len(s)]
  BY <1>1
<1>3. /\ DOMAIN (s \o t) = 1..(Len(s) + Len(t)) /\ DOMAIN s = 1..Len(s) /\ DOMAIN t = 1..Len(t)
      /\ Len(s) \in Nat /\ Len(t) \in Nat
  BY <1>1, <1>2
<1>4. ASSUME NEW i \in DOMAIN (s \o t)
      PROVE  \/ i \in DOMAIN s /\ (s \o t)[i] = s[i]
             \/ i - Len(s) \in DOMAIN t /\ (s \o t)[i] = t[i - Len(s)]
  BY <1>2, <1>3
<1>5. ASSUME NEW i \in DOMAIN (s \o t), NEW j \in DOMAIN (s \o t), (s \o t)[i] = (s \o t)[j]
      PROVE  i = j
  <2>1. CASE i \in DOMAIN s /\ j \in DOMAIN s
    <3>1. (s \o t)[i] = s[i] /\ (s \o t)[j] = s[j]
      BY <1>2, <1>3, <2>1
    <3> QED  BY <1>5, <2>1, <3>1 DEF Addresses, IsInjective
  <2>2. CASE i \notin DOMAIN s /\ j \notin DOMAIN s
    <3>1. /\ i - Len(s) \in DOMAIN t /\ (s \o t)[i] = t[i - Len(s)]
          /\ j - Len(s) \in DOMAIN t /\ (s \o t)[j] = t[j - Len(s)]
      BY <1>4, <2>2
    <3>2. i - Len(s) = j - Len(s)
      BY <1>5, <3>1 DEF Addresses, IsInjective
    <3> QED  BY <1>3, <3>2
  <2>3. CASE i \in DOMAIN s /\ j \notin DOMAIN s
    <3>1. (s \o t)[i] = s[i] /\ j - Len(s) \in DOMAIN t /\ (s \o t)[j] = t[j - Len(s)]
      BY <1>2, <1>3, <1>4, <2>3
    <3> QED  BY <1>5, <2>3, <3>1 DEF OfFamily
  <2>4. CASE i \notin DOMAIN s /\ j \in DOMAIN s
    <3>1. (s \o t)[j] = s[j] /\ i - Len(s) \in DOMAIN t /\ (s \o t)[i] = t[i - Len(s)]
      BY <1>2, <1>3, <1>4, <2>4
    <3> QED  BY <1>5, <2>4, <3>1 DEF OfFamily
  <2> QED  BY <2>1, <2>2, <2>3, <2>4
<1>6. \A i \in DOMAIN (s \o t) : (s \o t)[i].name = n
  BY <1>4 DEF Addresses
<1>7. s \o t = << >> <=> s = << >> /\ t = << >>
  BY <1>1, <1>2
<1> QED  BY <1>2, <1>5, <1>6, <1>7 DEF Addresses, IsInjective

LEMMA NoAddresses == \A n : Addresses(<< >>, n) /\ Len(<< >>) = 0
BY DEF Addresses, IsInjective

\* A set of slots that is not empty has a first one.
LEMMA Least ==
    ASSUME NEW n \in Nat, NEW S \in SUBSET (1..n), S # {}
    PROVE  \E s \in S : \A t \in S : s <= t
<1>1. S \subseteq Nat
  OBVIOUS
<1>2. PICK x \in S : \A y \in S : ~(<<y, x>> \in OpToRel(<, Nat))
  BY <1>1, NatLessThanWellFounded, WFMin
<1>3. \A y \in S : <<y, x>> \in OpToRel(<, Nat) <=> y < x
  BY <1>1, SMT DEF OpToRel
<1>4. \A y \in S : y \in Nat
  BY <1>1
<1>5. \A y \in S : ~(y < x)
  BY <1>2, <1>3
<1>6. \A y \in S : x <= y
  BY <1>4, <1>5
<1> QED  BY <1>6

----------------------------------------
(* The cache *)

\* A hit answers the question that was asked, within the caller's room.
LEMMA HitAnswers ==
    ASSUME CacheOK, dnClock \in Nat, NEW n, NEW f, NEW m \in Nat, NEW hit,
           hit = DnTryCopyCache(n, f, m), hit # << >>
    PROVE  Answers(hit, n, f, dnClock) /\ Len(hit) <= m
<1> DEFINE hits == {s \in 1..DnSlots : DnEntryMatches(dnCache[s], n, f, dnClock)}
<1>1. hits # {} /\ hits \in SUBSET (1..DnSlots) /\ DnSlots \in Nat
  BY NameResolutionConstants DEF DnTryCopyCache
<1>2. \E s \in hits : \A t \in hits : s <= t
  BY <1>1, Least
<1>3. PICK s \in hits :
         hit = SubSeq(dnCache[s].addresses, 1,
                      IF Len(dnCache[s].addresses) < m THEN Len(dnCache[s].addresses) ELSE m)
  BY <1>1, <1>2 DEF DnTryCopyCache
<1>4. /\ EntryOK(dnCache[s]) /\ dnCache[s].name = n /\ dnCache[s].family = f
      /\ dnClock - dnCache[s].cachedAt <= DnTtl
  BY <1>3 DEF CacheOK, DnEntryMatches
<1>5. /\ Addresses(hit, n) /\ Len(hit) <= m
      /\ \A i \in DOMAIN hit : i \in DOMAIN dnCache[s].addresses
                               /\ hit[i] = dnCache[s].addresses[i]
  <2>1. PICK list : list = dnCache[s].addresses
    OBVIOUS
  <2>2. Addresses(list, n) /\ hit = Cut(list, m)
    BY <1>3, <1>4, <2>1 DEF EntryOK, Cut
  <2>3. /\ Addresses(hit, n) /\ Len(hit) <= m
        /\ \A i \in DOMAIN hit : i \in DOMAIN list /\ hit[i] = list[i]
    BY <2>2, Beginning
  <2> QED  BY <2>1, <2>3
<1> QED  BY <1>4, <1>5 DEF EntryOK, Answers, OfFamily, Recent

\* What is stored is an answer to the question it is stored under.
LEMMA StoreKeeps ==
    ASSUME CacheOK, NEW n, NEW f, NEW list, DnStoreCache(n, f, list), Addresses(list, n),
           f # "Any" => OfFamily(list, f) /\ \A i \in DOMAIN list : list[i].at = dnClock
    PROVE  CacheOK'
<1>1. CASE UNCHANGED dnCache
  BY <1>1 DEF CacheOK
<1>2. CASE list # << >> /\ \E slot : dnCache' = [dnCache EXCEPT ![slot] =
               [valid |-> TRUE, name |-> n, family |-> f, addresses |-> list, cachedAt |-> dnClock]]
  <2>1. PICK e : e = [valid |-> TRUE, name |-> n, family |-> f, addresses |-> list,
                      cachedAt |-> dnClock]
    OBVIOUS
  <2>2. PICK slot : dnCache' = [dnCache EXCEPT ![slot] = e]
    BY <1>2, <2>1
  <2>3. EntryOK(e)
    BY <1>2, <2>1 DEF EntryOK
  <2>4. /\ dnCache' = [s \in 1..DnSlots |-> dnCache'[s]]
        /\ \A s \in 1..DnSlots : dnCache'[s] = dnCache[s] \/ dnCache'[s] = e
    BY <2>2 DEF CacheOK
  <2> QED  BY <2>3, <2>4 DEF CacheOK
<1> QED  BY <1>1, <1>2 DEF DnStoreCache

----------------------------------------
(* Frames *)

\* A step changes one call; the others stay as they are.
LEMMA CallMoves ==
    ASSUME CallsOK, dnClock' = dnClock, NEW c \in DnCallers, NEW r, CallOK(r, dnClock),
           dnCall' = [dnCall EXCEPT ![c] = r]
    PROVE  CallsOK'
<1>1. /\ dnCall' = [d \in DnCallers |-> dnCall'[d]]
      /\ \A d \in DnCallers : dnCall'[d] = IF d = c THEN r ELSE dnCall[d]
  BY DEF CallsOK
<1>2. \A d \in DnCallers : CallOK(dnCall'[d], dnClock)
  BY <1>1 DEF CallsOK
<1> QED  BY <1>1, <1>2 DEF CallsOK

\* Nobody begins or ends to wait for the provider.
LEMMA QuestionsFrame ==
    ASSUME QuestionsOK, CallsOK, UNCHANGED <<dnRequest, dnCount>>, NEW c \in DnCallers, NEW r,
           dnCall' = [dnCall EXCEPT ![c] = r], dnCall[c].at # "waiting", r.at # "waiting"
    PROVE  QuestionsOK'
<1>1. \A d \in DnCallers : dnCall'[d] = IF d = c THEN r ELSE dnCall[d]
  BY DEF CallsOK
<1>2. \A d \in DnCallers : \A q : AsksFor(d, q)' <=> AsksFor(d, q)
  BY <1>1 DEF AsksFor
<1>3. \A q : Waited(q)' <=> Waited(q)
  BY <1>2 DEF Waited
<1>4. \A q \in DnQuestions : RefsOK(q)'
  BY <1>3 DEF QuestionsOK, RefsOK
<1> QED  BY <1>1, <1>2, <1>4 DEF QuestionsOK, Outstanding

\* The call of c, once it has begun.
LEMMA Active ==
    ASSUME CallsOK, NEW c \in DnCallers, dnCall[c].at # "idle"
    PROVE  GatheredOK(dnCall[c], dnClock) /\ StageOK(dnCall[c])
BY DEF CallsOK, CallOK, DnIdle

\* What DnEnds makes of a call.
Ended(k, status, list) ==
    [k EXCEPT !.at = IF k.family = k.want THEN "done" ELSE "family", !.status = status, !.found = list]

\* The ResolveAll of one question ends: it is done, or there is another family to ask for.
LEMMA EndsOK ==
    ASSUME NEW now \in Nat, NEW k, GatheredOK(k, now), StageOK(k), k.at \in Asking,
           NEW status, NEW list, status = "SUCCESS" => list # << >>,
           Answers(list, k.name, k.family, now), Len(list) <= k.capacity - Len(k.got),
           NEW r, r = Ended(k, status, list)
    PROVE  CallOK(r, now) /\ r.at # "waiting"
<1>1. /\ IsCall(r) /\ r.at \in {"family", "done"} /\ r.name = k.name /\ r.want = k.want
      /\ r.family = k.family /\ r.capacity = k.capacity /\ r.got = k.got /\ r.found = list
      /\ r.first = k.first /\ r.asked = k.asked /\ r.status = status
      /\ r.at = "done" <=> k.family = k.want
  BY DEF IsCall, GatheredOK, Ended
<1>2. GatheredOK(r, now)
  BY <1>1 DEF GatheredOK
<1>3. /\ Len(k.got) \in Nat /\ Len(list) \in Nat /\ k.capacity \in Nat /\ k.asked \in Nat
      /\ k.asked <= now /\ list \in Seq(Address)
      /\ \A i \in DOMAIN list : list[i] \in Address
  BY DEF GatheredOK, Answers, Addresses
<1>4. \A i \in DOMAIN list : list[i].at \in Nat
  BY <1>3 DEF Address
<1>5. Recent(list, now) => Recent(list, k.asked)
  BY <1>3, <1>4, NameResolutionConstants DEF Recent
<1>6. CASE k.family = k.want
  <2>1. Answers(list, k.name, k.want, k.asked)
    BY <1>5, <1>6 DEF Answers
  <2>2. status = "SUCCESS" => Len(list) \in 1..k.capacity
    BY <1>3
  <2> QED  BY <1>1, <1>2, <1>6, <2>1, <2>2 DEF StageOK, CallOK, Asking
<1>7. CASE k.family # k.want
  <2>1. k.want = "Any" /\ k.family # "Any"
    BY <1>7 DEF GatheredOK
  <2>2. StageOK(r)
    BY <1>1, <1>7, <2>1 DEF StageOK, Asking, Answers
  <2> QED  BY <1>1, <1>2, <2>2 DEF CallOK
<1> QED  BY <1>6, <1>7

----------------------------------------
(* Calls that ask nothing of the provider *)

LEMMA DnInvResolveAll ==
    ASSUME DnInv, NEW c \in DnCallers, DnResolveAll(c)
    PROVE  DnInv'
<1>1. PICK n \in DnNames, f \in DnFamilies, capacity \in DnCapacities :
         dnCall' = [dnCall EXCEPT ![c] =
            [at |-> IF dnClient.captured THEN "lookup" ELSE "done", name |-> n, want |-> f, family |-> f,
             capacity |-> capacity, got |-> << >>, found |-> << >>, first |-> "NO_MATCH", question |-> 0,
             asked |-> dnClock, status |-> "DEVICE_NOT_READY"]]
  BY DEF DnResolveAll
<1>2. PICK r : r =
            [at |-> IF dnClient.captured THEN "lookup" ELSE "done", name |-> n, want |-> f, family |-> f,
             capacity |-> capacity, got |-> << >>, found |-> << >>, first |-> "NO_MATCH", question |-> 0,
             asked |-> dnClock, status |-> "DEVICE_NOT_READY"]
  OBVIOUS
<1>3. /\ IsCall(r) /\ r.at \in {"lookup", "done"} /\ r.name = n /\ r.want = f /\ r.family = f
      /\ r.capacity = capacity /\ r.got = << >> /\ r.first = "NO_MATCH" /\ r.asked = dnClock
      /\ r.status = "DEVICE_NOT_READY"
  BY <1>2 DEF IsCall
<1>4. capacity \in Nat /\ capacity > 0 /\ dnClock \in Nat
  BY NameResolutionConstants DEF DnInv, CallsOK
<1>5. GatheredOK(r, dnClock)
  BY <1>3, <1>4, NoAddresses DEF GatheredOK, Asking, OfFamily
<1>6. StageOK(r)
  BY <1>3, <1>4, NoAddresses DEF StageOK, Asking
<1>7. CallsOK'
  BY <1>1, <1>2, <1>5, <1>6, CallMoves DEF DnInv, CallOK, DnResolveAll
<1>8. QuestionsOK'
  BY <1>1, <1>2, <1>3, QuestionsFrame DEF DnInv, DnResolveAll
<1> QED  BY <1>7, <1>8 DEF DnInv, CacheOK, DnResolveAll

LEMMA DnInvLookup ==
    ASSUME DnInv, NEW c \in DnCallers, DnLookup(c)
    PROVE  DnInv'
<1>1. /\ dnCall[c].at = "lookup" /\ CacheOK /\ CallsOK /\ QuestionsOK
      /\ UNCHANGED <<dnCache, dnClock, dnRequest, dnCount>> /\ dnClock \in Nat
  BY DEF DnInv, CallsOK, DnLookup
<1>2. PICK k : k = dnCall[c]
  OBVIOUS
<1>3. GatheredOK(k, dnClock) /\ StageOK(k) /\ k.at = "lookup"
  BY <1>1, <1>2, Active
<1>4. DnRoom(c) = k.capacity - Len(k.got) /\ DnRoom(c) \in Nat /\ DnRoom(c) > 0
  BY <1>2, <1>3 DEF DnRoom, GatheredOK, StageOK, Asking, Addresses
<1>5. PICK hit : hit = DnTryCopyCache(k.name, k.family, DnRoom(c))
  OBVIOUS
<1>6. CASE hit # << >> /\ DnEnds(c, "SUCCESS", hit)
  <2>1. Answers(hit, k.name, k.family, dnClock) /\ Len(hit) <= DnRoom(c)
    BY <1>1, <1>4, <1>5, <1>6, HitAnswers
  <2>2. PICK r : r = Ended(k, "SUCCESS", hit)
    OBVIOUS
  <2>3. CallOK(r, dnClock) /\ r.at # "waiting"
    <3>1. k.at \in Asking /\ Len(hit) <= k.capacity - Len(k.got)
      BY <1>3, <1>4, <2>1 DEF Asking
    <3> QED  BY <1>1, <1>3, <1>6, <2>1, <2>2, <3>1, EndsOK
  <2>4. dnCall' = [dnCall EXCEPT ![c] = r]
    BY <1>2, <1>6, <2>2 DEF DnEnds, Ended
  <2> QED  BY <1>1, <2>3, <2>4, CallMoves, QuestionsFrame DEF DnInv, CacheOK
<1>7. CASE dnCall' = [dnCall EXCEPT ![c].at = "ask"]
  <2>1. PICK r : r = [k EXCEPT !.at = "ask"]
    OBVIOUS
  <2>2. /\ IsCall(r) /\ r.at = "ask" /\ r.name = k.name /\ r.want = k.want
        /\ r.family = k.family /\ r.capacity = k.capacity /\ r.got = k.got
        /\ r.first = k.first /\ r.asked = k.asked
    BY <1>3, <2>1 DEF IsCall, GatheredOK
  <2>3. CallOK(r, dnClock)
    BY <1>3, <2>2 DEF CallOK, GatheredOK, StageOK, Asking
  <2>4. dnCall' = [dnCall EXCEPT ![c] = r]
    BY <1>2, <1>7, <2>1
  <2> QED  BY <1>1, <2>2, <2>3, <2>4, CallMoves, QuestionsFrame DEF DnInv, CacheOK
<1> QED  BY <1>2, <1>5, <1>6, <1>7 DEF DnLookup

LEMMA DnInvAskFails ==
    ASSUME DnInv, NEW c \in DnCallers, DnAskFails(c)
    PROVE  DnInv'
<1>1. /\ dnCall[c].at = "ask" /\ CacheOK /\ CallsOK /\ QuestionsOK
      /\ UNCHANGED <<dnCache, dnClock, dnRequest, dnCount>> /\ dnClock \in Nat
  BY DEF DnInv, CallsOK, DnAskFails
<1>2. PICK k : k = dnCall[c]
  OBVIOUS
<1>3. GatheredOK(k, dnClock) /\ StageOK(k) /\ k.at = "ask"
  BY <1>1, <1>2, Active
<1>4. Answers(<< >>, k.name, k.family, dnClock) /\ 0 <= k.capacity - Len(k.got)
  BY <1>3, NoAddresses DEF Answers, OfFamily, Recent, GatheredOK, Addresses
<1>5. PICK r : r = Ended(k, "INSUFFICIENT_RESOURCES", << >>)
  OBVIOUS
<1>6. CallOK(r, dnClock) /\ r.at # "waiting"
  <2>1. k.at \in Asking /\ Len(<< >>) <= k.capacity - Len(k.got) /\ "INSUFFICIENT_RESOURCES" # "SUCCESS"
    BY <1>3, <1>4, NoAddresses DEF Asking
  <2> QED  BY <1>1, <1>3, <1>4, <1>5, <2>1, EndsOK
<1>7. dnCall' = [dnCall EXCEPT ![c] = r]
  BY <1>2, <1>5 DEF DnEnds, DnAskFails, Ended
<1> QED  BY <1>1, <1>6, <1>7, CallMoves, QuestionsFrame DEF DnInv, CacheOK

LEMMA DnInvReturns ==
    ASSUME DnInv, NEW c \in DnCallers, DnReturns(c)
    PROVE  DnInv'
<1>1. CallOK(DnIdle, dnClock) /\ DnIdle.at = "idle"
  BY DEF CallOK, DnIdle
<1> QED  BY <1>1, CallMoves, QuestionsFrame DEF DnInv, CacheOK, DnReturns

LEMMA DnInvExplicitFamilies ==
    ASSUME DnInv, NEW c \in DnCallers, DnExplicitFamilies(c)
    PROVE  DnInv'
<1>1. /\ dnCall[c].at = "family" /\ CacheOK /\ CallsOK /\ QuestionsOK
      /\ UNCHANGED <<dnClock, dnRequest, dnCount>> /\ dnClock \in Nat
  BY DEF DnInv, CallsOK, DnExplicitFamilies
<1>2. PICK k : k = dnCall[c]
  OBVIOUS
<1>3. /\ GatheredOK(k, dnClock) /\ StageOK(k) /\ k.at = "family" /\ k.want = "Any"
      /\ Addresses(k.got, k.name) /\ OfFamily(k.got, "Ipv4")
      /\ Addresses(k.found, k.name) /\ OfFamily(k.found, k.family)
      /\ k.family \in {"Ipv4", "Ipv6"} /\ (k.got # << >> => k.family = "Ipv6")
      /\ (k.status = "SUCCESS" => k.found # << >>) /\ (k.first = "SUCCESS" => k.got # << >>)
      /\ Len(k.found) <= k.capacity - Len(k.got)
  BY <1>1, <1>2, Active DEF GatheredOK, StageOK, DnFamilies
<1>4. PICK all : all = k.got \o k.found
  OBVIOUS
<1>5. /\ k.got \in Seq(Address) /\ k.found \in Seq(Address) /\ k.capacity \in Nat
      /\ Len(k.got) \in Nat /\ Len(k.found) \in Nat /\ Len(k.found) <= k.capacity - Len(k.got)
  BY <1>3 DEF GatheredOK, Addresses
<1>6. /\ Addresses(all, k.name) /\ Len(all) <= k.capacity /\ Len(all) \in Nat
      /\ all = << >> <=> k.got = << >> /\ k.found = << >>
      /\ k.family = "Ipv4" => all = k.found
  <2>1. CASE k.family = "Ipv6"
    <3>1. /\ Addresses(all, k.name) /\ Len(all) = Len(k.got) + Len(k.found)
          /\ all = << >> <=> k.got = << >> /\ k.found = << >>
      BY <1>3, <1>4, <2>1, Joined
    <3>2. Len(all) = Len(k.got) + Len(k.found)
      BY <3>1
    <3>3. /\ k.capacity \in Nat /\ Len(k.got) \in Nat /\ Len(k.found) \in Nat
          /\ Len(k.found) <= k.capacity - Len(k.got)
      BY <1>5
    <3>4. \A x, y, z \in Nat : y <= z - x => x + y <= z /\ x + y \in Nat
      OBVIOUS
    <3>5. Len(all) <= k.capacity /\ Len(all) \in Nat
      BY <3>2, <3>3, <3>4, Zenon
    <3> QED  BY <2>1, <3>1, <3>5
  <2>2. CASE k.family = "Ipv4"
    <3>1. k.got = << >>
      BY <1>3, <2>2
    <3>2. << >> \o k.found = k.found
      BY <1>5
    <3>3. all = k.found
      BY <1>4, <3>1, <3>2
    <3>4. Len(all) <= k.capacity /\ Len(all) \in Nat
      BY <1>5, <3>1, <3>3
    <3> QED  BY <1>3, <3>1, <3>3, <3>4
  <2> QED  BY <1>3, <2>1, <2>2
<1>7. CASE /\ k.family = "Ipv4" /\ Len(all) < k.capacity
           /\ dnCall' = [dnCall EXCEPT ![c] = [@ EXCEPT !.at = "lookup", !.family = "Ipv6", !.got = all,
                                                        !.found = << >>, !.first = k.status]]
           /\ UNCHANGED <<dnCache, dnNext>>
  <2>1. PICK r : r = [k EXCEPT !.at = "lookup", !.family = "Ipv6", !.got = all,
                               !.found = << >>, !.first = k.status]
    OBVIOUS
  <2>2. /\ IsCall(r) /\ r.at = "lookup" /\ r.name = k.name /\ r.want = k.want
        /\ r.family = "Ipv6" /\ r.capacity = k.capacity /\ r.got = all
        /\ r.first = k.status /\ r.asked = k.asked
    BY <1>3, <2>1 DEF IsCall, GatheredOK
  <2>3. GatheredOK(r, dnClock)
    BY <1>3, <1>6, <1>7, <2>2 DEF GatheredOK, DnFamilies, Asking
  <2>4. CallOK(r, dnClock)
    BY <1>7, <2>2, <2>3 DEF CallOK, StageOK, Asking
  <2>5. dnCall' = [dnCall EXCEPT ![c] = r]
    BY <1>2, <1>7, <2>1
  <2> QED  BY <1>1, <1>7, <2>2, <2>4, <2>5, CallMoves, QuestionsFrame DEF DnInv, CacheOK
<1>8. CASE /\ \E status : /\ dnCall' = [dnCall EXCEPT ![c] = [@ EXCEPT !.at = "done", !.found = all, !.status = status]]
                          /\ status = "SUCCESS" => all # << >>
           /\ DnStoreCache(k.name, "Any", all)
  <2>1. PICK status : /\ dnCall' = [dnCall EXCEPT ![c] = [@ EXCEPT !.at = "done", !.found = all, !.status = status]]
                      /\ status = "SUCCESS" => all # << >>
    BY <1>8
  <2>2. PICK r : r = [k EXCEPT !.at = "done", !.found = all, !.status = status]
    OBVIOUS
  <2>3. /\ IsCall(r) /\ r.at = "done" /\ r.name = k.name /\ r.want = k.want /\ r.found = all
        /\ r.family = k.family /\ r.capacity = k.capacity /\ r.got = k.got
        /\ r.first = k.first /\ r.asked = k.asked /\ r.status = status
    BY <1>3, <2>2 DEF IsCall, GatheredOK
  <2>4. GatheredOK(r, dnClock)
    BY <1>3, <2>3 DEF GatheredOK
  <2>5. all # << >> => Len(all) \in 1..k.capacity
    BY <1>5, <1>6 DEF Addresses
  <2>6. StageOK(r)
    BY <1>3, <1>6, <2>1, <2>3, <2>5 DEF StageOK, Asking, Answers
  <2>7. dnCall' = [dnCall EXCEPT ![c] = r]
    BY <1>2, <2>1, <2>2
  <2>8. CacheOK'
    BY <1>1, <1>6, <1>8, StoreKeeps
  <2>9. CallsOK' /\ QuestionsOK'
    BY <1>1, <2>3, <2>4, <2>6, <2>7, CallMoves, QuestionsFrame DEF CallOK
  <2> QED  BY <2>8, <2>9 DEF DnInv
<1>9. DnSelectFailure(IF k.family = "Ipv4" THEN k.status ELSE k.first,
                      IF k.family = "Ipv6" THEN k.status ELSE "NO_MATCH") = "SUCCESS" => all # << >>
  BY <1>3, <1>6 DEF DnSelectFailure, DnNoAddress
<1> QED  BY <1>2, <1>4, <1>7, <1>8, <1>9 DEF DnExplicitFamilies

----------------------------------------
(* Calls that ask the provider *)

\* There are finitely many questions.
LEMMA FiniteQuestions ==
    /\ IsFiniteSet(Outstanding) /\ Cardinality(Outstanding) \in Nat
<1>1. IsFiniteSet(DnQuestions)
  BY FS_Interval, NameResolutionConstants DEF DnQuestions
<1>2. IsFiniteSet(Outstanding)
  BY <1>1, FS_Subset DEF Outstanding
<1> QED  BY <1>2, FS_CardinalityType

LEMMA DnInvAsk ==
    ASSUME DnInv, NEW c \in DnCallers, DnAsk(c)
    PROVE  DnInv'
<1>1. /\ dnCall[c].at = "ask" /\ CacheOK /\ CallsOK /\ QuestionsOK
      /\ UNCHANGED <<dnCache, dnClock>> /\ dnCount' = dnCount + 1
  BY DEF DnInv, DnAsk, DnTrackAllocated
<1>2. PICK q \in DnQuestions :
         /\ dnRequest[q] = DnUnasked
         /\ dnRequest' = [dnRequest EXCEPT ![q] = [@ EXCEPT !.refs = 2, !.inFlight = TRUE, !.names = "held"]]
         /\ dnCall' = [dnCall EXCEPT ![c].at = "waiting", ![c].question = q]
  BY DEF DnAsk
<1>3. PICK k : k = dnCall[c]
  OBVIOUS
<1>4. GatheredOK(k, dnClock) /\ StageOK(k) /\ k.at = "ask"
  BY <1>1, <1>3, Active
<1>5. PICK r : r = [k EXCEPT !.at = "waiting", !.question = q]
  OBVIOUS
<1>6. /\ IsCall(r) /\ r.at = "waiting" /\ r.name = k.name /\ r.want = k.want
      /\ r.family = k.family /\ r.capacity = k.capacity /\ r.got = k.got
      /\ r.first = k.first /\ r.asked = k.asked /\ r.question = q
  BY <1>4, <1>5 DEF IsCall, GatheredOK
<1>7. CallOK(r, dnClock)
  BY <1>4, <1>6 DEF CallOK, GatheredOK, StageOK, Asking
<1>8. dnCall' = [dnCall EXCEPT ![c] = r]
  BY <1>2, <1>3, <1>5
<1>9. \A d \in DnCallers : dnCall'[d] = IF d = c THEN r ELSE dnCall[d]
  BY <1>1, <1>8 DEF CallsOK
<1>10. /\ dnRequest[q].refs = 0 /\ ~dnRequest[q].inFlight /\ dnRequest[q].freed = 0
  BY <1>2 DEF DnUnasked
<1>11. ~Waited(q)
  BY <1>1, <1>10 DEF QuestionsOK, RefsOK
<1>12. PICK u : u = [dnRequest[q] EXCEPT !.refs = 2, !.inFlight = TRUE, !.names = "held"]
  OBVIOUS
<1>13. IsQuestion(u) /\ u.refs = 2 /\ u.inFlight /\ u.names = "held" /\ u.freed = 0
  <2>1. PICK v : v = dnRequest[q]
    OBVIOUS
  <2>2. v = [refs |-> 0, inFlight |-> FALSE, names |-> "none", reply |-> "none", freed |-> 0]
    BY <1>2, <2>1 DEF DnUnasked
  <2>3. u = [v EXCEPT !.refs = 2, !.inFlight = TRUE, !.names = "held"]
    BY <1>12, <2>1
  <2> QED  BY <2>2, <2>3 DEF IsQuestion
<1>14. /\ dnRequest' = [p \in DnQuestions |-> dnRequest'[p]]
       /\ \A p \in DnQuestions : dnRequest'[p] = IF p = q THEN u ELSE dnRequest[p]
  BY <1>1, <1>2, <1>12 DEF QuestionsOK
<1>15. \A d \in DnCallers : \A p : AsksFor(d, p)' <=> (IF d = c THEN p = q ELSE AsksFor(d, p))
  BY <1>6, <1>9 DEF AsksFor
<1>16. \A p : Waited(p)' <=> (p = q \/ Waited(p))
  BY <1>1, <1>15 DEF Waited, AsksFor
<1>17. \A p \in DnQuestions : IsQuestion(dnRequest'[p]) /\ RefsOK(p)'
  BY <1>1, <1>13, <1>14, <1>16 DEF QuestionsOK, RefsOK
<1>18. \A d \in DnCallers : dnCall'[d].at = "waiting" => dnCall'[d].question \in DnQuestions
  BY <1>1, <1>6, <1>9 DEF QuestionsOK
<1>19. \A p \in DnQuestions, d, e \in DnCallers : AsksFor(d, p)' /\ AsksFor(e, p)' => d = e
  BY <1>1, <1>11, <1>15 DEF QuestionsOK, Waited
<1>20. Outstanding' = Outstanding \cup {q} /\ q \notin Outstanding
  BY <1>10, <1>13, <1>14 DEF Outstanding
<1>21. dnCount' = Cardinality(Outstanding')
  BY <1>1, <1>20, FiniteQuestions, FS_AddElement DEF QuestionsOK
<1>22. CallsOK'
  BY <1>1, <1>7, <1>8, CallMoves
<1> QED
  BY <1>1, <1>14, <1>17, <1>18, <1>19, <1>21, <1>22 DEF DnInv, CacheOK, QuestionsOK

\* One reference of question q is given back, by its caller or its completion.
LEMMA Released ==
    ASSUME QuestionsOK, NEW q \in DnQuestions, dnRequest[q].refs > 0,
           NEW u, IsQuestion(u),
           dnRequest' = [dnRequest EXCEPT ![q] = u],
           \/ /\ dnRequest[q].refs > 1 /\ u.refs = dnRequest[q].refs - 1
              /\ u.names = dnRequest[q].names /\ u.freed = dnRequest[q].freed
              /\ dnCount' = dnCount
           \/ /\ dnRequest[q].refs = 1 /\ u.refs = 0 /\ u.freed = dnRequest[q].freed + 1
              /\ dnCount' = dnCount - 1,
           \A p \in DnQuestions : p # q => (Waited(p)' <=> Waited(p)),
           \/ Waited(q) /\ ~Waited(q)' /\ (u.inFlight <=> dnRequest[q].inFlight)
           \/ (Waited(q)' <=> Waited(q)) /\ dnRequest[q].inFlight /\ ~u.inFlight,
           \A d \in DnCallers : \A p : AsksFor(d, p)' => AsksFor(d, p),
           \A d \in DnCallers : dnCall'[d].at = "waiting" => dnCall'[d].question \in DnQuestions
    PROVE  QuestionsOK'
<1>1. /\ dnRequest' = [p \in DnQuestions |-> dnRequest'[p]]
      /\ \A p \in DnQuestions : dnRequest'[p] = IF p = q THEN u ELSE dnRequest[p]
  BY DEF QuestionsOK
<1>2. RefsOK(q)
  BY DEF QuestionsOK
<1>3. RefsOK(q)'
  BY <1>1, <1>2 DEF RefsOK
<1>4. ASSUME NEW p \in DnQuestions, p # q PROVE RefsOK(p)'
  BY <1>1, <1>4 DEF QuestionsOK, RefsOK
<1>5. \A p \in DnQuestions : IsQuestion(dnRequest'[p]) /\ RefsOK(p)'
  BY <1>1, <1>3, <1>4 DEF QuestionsOK
<1>6. \A p \in DnQuestions, d, e \in DnCallers : AsksFor(d, p)' /\ AsksFor(e, p)' => d = e
  BY DEF QuestionsOK
<1>7. dnCount' = Cardinality(Outstanding')
  <2>1. CASE dnRequest[q].refs > 1 /\ u.refs = dnRequest[q].refs - 1 /\ dnCount' = dnCount
    <3>1. u.refs > 0
      BY <1>2, <2>1 DEF RefsOK
    <3>2. Outstanding' = Outstanding
      BY <1>1, <2>1, <3>1 DEF Outstanding
    <3> QED  BY <2>1, <3>2 DEF QuestionsOK
  <2>2. CASE u.refs = 0 /\ dnCount' = dnCount - 1
    <3>1. Outstanding' = Outstanding \ {q} /\ q \in Outstanding
      BY <1>1, <2>2 DEF Outstanding
    <3> QED  BY <2>2, <3>1, FiniteQuestions, FS_RemoveElement DEF QuestionsOK
  <2> QED  BY <2>1, <2>2
<1> QED  BY <1>1, <1>5, <1>6, <1>7 DEF QuestionsOK

LEMMA DnInvProviderAnswers ==
    ASSUME DnInv, NEW q \in DnQuestions, DnProviderAnswers(q)
    PROVE  DnInv'
<1>1. /\ QuestionsOK /\ RefsOK(q) /\ dnRequest[q].inFlight
      /\ UNCHANGED <<dnCache, dnCall, dnClock>>
      /\ IsQuestion(dnRequest[q])
  BY DEF DnInv, QuestionsOK, DnProviderAnswers
<1>2. dnRequest[q].refs \in {1, 2} /\ dnRequest[q].refs > 0
  BY <1>1 DEF RefsOK
<1>3. PICK v : v = dnRequest[q]
  OBVIOUS
<1>4. PICK reply : LET answered == [dnRequest EXCEPT ![q] = [@ EXCEPT !.inFlight = FALSE, !.reply = reply]] IN
         IF dnRequest[q].refs > 1
         THEN dnRequest' = [answered EXCEPT ![q].refs = @ - 1] /\ UNCHANGED dnCount
         ELSE /\ dnRequest' = [answered EXCEPT ![q].refs = 0, ![q].names = "freed", ![q].freed = @ + 1]
              /\ dnCount' = dnCount - 1
  BY DEF DnProviderAnswers
<1>5. PICK w : w = [v EXCEPT !.inFlight = FALSE, !.reply = reply]
  OBVIOUS
<1>6. /\ IsQuestion(w) /\ ~w.inFlight /\ w.refs = v.refs /\ w.names = v.names /\ w.freed = v.freed
  BY <1>1, <1>3, <1>5 DEF IsQuestion
<1>7. PICK answered : answered = [dnRequest EXCEPT ![q] = w]
  OBVIOUS
<1>8. /\ answered = [p \in DnQuestions |-> answered[p]] /\ answered[q] = w
      /\ \A p \in DnQuestions : p # q => answered[p] = dnRequest[p]
  BY <1>1, <1>7 DEF QuestionsOK
<1>9. /\ \A p \in DnQuestions : Waited(p)' <=> Waited(p)
      /\ \A d \in DnCallers : \A p : AsksFor(d, p)' => AsksFor(d, p)
      /\ \A d \in DnCallers : dnCall'[d].at = "waiting" => dnCall'[d].question \in DnQuestions
  BY <1>1 DEF Waited, AsksFor, QuestionsOK
<1>10. CASE v.refs > 1
  <2>1. PICK u : u = [w EXCEPT !.refs = @ - 1]
    OBVIOUS
  <2>2. IsQuestion(u) /\ ~u.inFlight /\ u.refs = v.refs - 1 /\ u.names = v.names /\ u.freed = v.freed
    BY <1>6, <2>1 DEF IsQuestion
  <2>3. dnRequest' = [answered EXCEPT ![q].refs = @ - 1] /\ dnCount' = dnCount
    BY <1>3, <1>4, <1>5, <1>7, <1>10
  <2>4. dnRequest' = [dnRequest EXCEPT ![q] = u]
    BY <1>1, <1>7, <1>8, <2>1, <2>3 DEF QuestionsOK
  <2>5. QuestionsOK'
    BY <1>1, <1>2, <1>3, <1>9, <1>10, <2>2, <2>3, <2>4, Released
  <2> QED  BY <1>1, <2>5 DEF DnInv, CacheOK, CallsOK
<1>11. CASE ~(v.refs > 1)
  <2>1. PICK u : u = [w EXCEPT !.refs = 0, !.names = "freed", !.freed = @ + 1]
    OBVIOUS
  <2>2. IsQuestion(u) /\ ~u.inFlight /\ u.refs = 0 /\ u.freed = v.freed + 1
    BY <1>6, <2>1 DEF IsQuestion
  <2>3. /\ dnRequest' = [answered EXCEPT ![q].refs = 0, ![q].names = "freed", ![q].freed = @ + 1]
        /\ dnCount' = dnCount - 1
    BY <1>3, <1>4, <1>5, <1>7, <1>11
  <2>4. dnRequest' = [dnRequest EXCEPT ![q] = u]
    BY <1>1, <1>7, <1>8, <2>1, <2>3 DEF QuestionsOK
  <2>5. dnRequest[q].refs = 1
    BY <1>2, <1>3, <1>11
  <2>6. QuestionsOK'
    BY <1>1, <1>2, <1>3, <1>9, <2>2, <2>3, <2>4, <2>5, Released
  <2> QED  BY <1>1, <2>6 DEF DnInv, CacheOK, CallsOK
<1> QED  BY <1>10, <1>11

\* The caller of question q leaves: it has its answer, or its time is over.
LEMMA CallerLeaves ==
    ASSUME QuestionsOK, CallsOK, NEW c \in DnCallers, NEW q, AsksFor(c, q), DnReleaseContext(q),
           NEW r, r.at # "waiting", dnCall' = [dnCall EXCEPT ![c] = r]
    PROVE  QuestionsOK'
<1>1. q \in DnQuestions /\ RefsOK(q) /\ IsQuestion(dnRequest[q]) /\ Waited(q)
  BY DEF QuestionsOK, AsksFor, Waited
<1>2. dnRequest[q].refs \in {1, 2} /\ dnRequest[q].refs > 0
  BY <1>1 DEF RefsOK
<1>3. \A d \in DnCallers : dnCall'[d] = IF d = c THEN r ELSE dnCall[d]
  BY DEF CallsOK
<1>4. \A d \in DnCallers : \A p : AsksFor(d, p)' <=> (d # c /\ AsksFor(d, p))
  BY <1>3 DEF AsksFor
<1>5. \A d \in DnCallers : dnCall'[d].at = "waiting" => dnCall'[d].question \in DnQuestions
  BY <1>3 DEF QuestionsOK
<1>6. ~Waited(q)'
  BY <1>1, <1>4 DEF Waited, QuestionsOK
<1>7. \A p \in DnQuestions : p # q => (Waited(p)' <=> Waited(p))
  <2>1. ASSUME NEW p \in DnQuestions, p # q PROVE ~AsksFor(c, p)
    BY <2>1 DEF AsksFor
  <2> QED  BY <1>4, <2>1 DEF Waited
<1>8. PICK v : v = dnRequest[q]
  OBVIOUS
<1>9. CASE v.refs > 1
  <2>1. PICK u : u = [v EXCEPT !.refs = @ - 1]
    OBVIOUS
  <2>2. /\ IsQuestion(u) /\ u.inFlight = v.inFlight /\ u.refs = v.refs - 1 /\ u.names = v.names
        /\ u.freed = v.freed
    BY <1>1, <1>8, <2>1 DEF IsQuestion
  <2>3. dnRequest' = [dnRequest EXCEPT ![q] = u] /\ dnCount' = dnCount
    BY <1>8, <1>9, <2>1 DEF DnReleaseContext
  <2> QED
    BY <1>1, <1>2, <1>4, <1>5, <1>6, <1>7, <1>8, <1>9, <2>2, <2>3, Released
<1>10. CASE ~(v.refs > 1)
  <2>1. PICK u : u = [v EXCEPT !.refs = 0, !.names = "freed", !.freed = @ + 1]
    OBVIOUS
  <2>2. IsQuestion(u) /\ u.inFlight = v.inFlight /\ u.refs = 0 /\ u.freed = v.freed + 1
    BY <1>1, <1>8, <2>1 DEF IsQuestion
  <2>3. dnRequest' = [dnRequest EXCEPT ![q] = u] /\ dnCount' = dnCount - 1
    BY <1>8, <1>10, <2>1 DEF DnReleaseContext
  <2>4. dnRequest[q].refs = 1
    BY <1>2, <1>8, <1>10
  <2> QED
    BY <1>1, <1>2, <1>4, <1>5, <1>6, <1>7, <1>8, <2>2, <2>3, <2>4, Released
<1> QED  BY <1>9, <1>10

LEMMA DnInvTimesOut ==
    ASSUME DnInv, NEW c \in DnCallers, DnTimesOut(c)
    PROVE  DnInv'
<1>1. /\ dnCall[c].at = "waiting" /\ CacheOK /\ CallsOK /\ QuestionsOK /\ dnClock \in Nat
      /\ UNCHANGED <<dnCache, dnClock>>
  BY DEF DnInv, CallsOK, DnTimesOut
<1>2. PICK k : k = dnCall[c]
  OBVIOUS
<1>3. GatheredOK(k, dnClock) /\ StageOK(k) /\ k.at = "waiting"
  BY <1>1, <1>2, Active
<1>4. Answers(<< >>, k.name, k.family, dnClock) /\ 0 <= k.capacity - Len(k.got)
  BY <1>3, NoAddresses DEF Answers, OfFamily, Recent, GatheredOK, Addresses
<1>5. PICK r : r = Ended(k, "TIMEOUT", << >>)
  OBVIOUS
<1>6. CallOK(r, dnClock) /\ r.at # "waiting"
  <2>1. k.at \in Asking /\ Len(<< >>) <= k.capacity - Len(k.got) /\ "TIMEOUT" # "SUCCESS"
    BY <1>3, <1>4, NoAddresses DEF Asking
  <2> QED  BY <1>1, <1>3, <1>4, <1>5, <2>1, EndsOK
<1>7. dnCall' = [dnCall EXCEPT ![c] = r]
  BY <1>2, <1>5 DEF DnEnds, DnTimesOut, Ended
<1>8. AsksFor(c, dnCall[c].question) /\ DnReleaseContext(dnCall[c].question)
  BY <1>1 DEF AsksFor, DnTimesOut
<1>9. QuestionsOK'
  BY <1>1, <1>6, <1>7, <1>8, CallerLeaves
<1> QED  BY <1>1, <1>6, <1>7, <1>9, CallMoves DEF DnInv, CacheOK

\* What the provider answers is an answer to the question, read just now.
LEMMA ProviderList ==
    ASSUME NEW c \in DnCallers, dnClock \in Nat, NEW k, k = dnCall[c], GatheredOK(k, dnClock),
           DnRoom(c) \in Nat, DnRoom(c) > 0, NEW found, found = DnAddresses(c)
    PROVE  /\ Answers(found, k.name, k.family, dnClock) /\ Len(found) <= DnRoom(c) /\ found # << >>
           /\ \A i \in DOMAIN found : found[i].at = dnClock
<1>1. PICK six : six = [name |-> k.name, family |-> "Ipv6", at |-> dnClock]
  OBVIOUS
<1>2. PICK four : four = [name |-> k.name, family |-> "Ipv4", at |-> dnClock]
  OBVIOUS
<1>3. PICK own : own = [name |-> k.name, family |-> k.family, at |-> dnClock]
  OBVIOUS
<1>4. PICK list : list = IF k.family = "Any" THEN <<six, four>> ELSE <<own>>
  OBVIOUS
<1>5. /\ six \in Address /\ four \in Address /\ six # four
      /\ six.name = k.name /\ four.name = k.name /\ six.at = dnClock /\ four.at = dnClock
  <2>1. six.family # four.family
    BY <1>1, <1>2
  <2> QED  BY <1>1, <1>2, <2>1 DEF GatheredOK, Address
<1>6. /\ k.family # "Any" => own \in Address
      /\ own.name = k.name /\ own.at = dnClock /\ own.family = k.family
  BY <1>3 DEF GatheredOK, Address, DnFamilies
<1>7. /\ Addresses(list, k.name) /\ list # << >>
      /\ \A i \in DOMAIN list : list[i].at = dnClock
      /\ k.family # "Any" => OfFamily(list, k.family)
  <2>1. CASE k.family = "Any"
    <3>1. list = <<six, four>>
      BY <1>4, <2>1
    <3>2. /\ list \in Seq(Address) /\ list # << >> /\ DOMAIN list = 1..2
          /\ list[1] = six /\ list[2] = four
      BY <1>5, <3>1
    <3>3. \A i \in DOMAIN list : i = 1 \/ i = 2
      BY <3>2
    <3>4. IsInjective(list)
      BY <1>5, <3>2, <3>3 DEF IsInjective
    <3> QED  BY <1>5, <2>1, <3>2, <3>3, <3>4 DEF Addresses
  <2>2. CASE k.family # "Any"
    <3>1. list = <<own>>
      BY <1>4, <2>2
    <3>2. /\ list \in Seq(Address) /\ list # << >> /\ DOMAIN list = 1..1 /\ list[1] = own
      BY <1>6, <2>2, <3>1
    <3>3. \A i \in DOMAIN list : i = 1
      BY <3>2
    <3>4. IsInjective(list)
      BY <3>3 DEF IsInjective
    <3> QED  BY <1>6, <3>2, <3>3, <3>4 DEF Addresses, OfFamily
  <2> QED  BY <2>1, <2>2
<1>8. found = Cut(list, DnRoom(c))
  BY <1>1, <1>2, <1>3, <1>4 DEF DnAddresses, Cut
<1>9. /\ Addresses(found, k.name) /\ Len(found) <= DnRoom(c) /\ found # << >>
      /\ \A i \in DOMAIN found : i \in DOMAIN list /\ found[i] = list[i]
  BY <1>7, <1>8, Beginning
<1>10. \A i \in DOMAIN found : found[i].at = dnClock
  BY <1>7, <1>9
<1>11. Recent(found, dnClock)
  BY <1>10, NameResolutionConstants DEF Recent
<1>12. k.family # "Any" => OfFamily(found, k.family)
  BY <1>7, <1>9 DEF OfFamily
<1> QED  BY <1>9, <1>10, <1>11, <1>12 DEF Answers

LEMMA DnInvAnswered ==
    ASSUME DnInv, NEW c \in DnCallers, DnAnswered(c)
    PROVE  DnInv'
<1>1. /\ dnCall[c].at = "waiting" /\ CacheOK /\ CallsOK /\ QuestionsOK /\ dnClock \in Nat
      /\ UNCHANGED dnClock
  BY DEF DnInv, CallsOK, DnAnswered
<1>2. PICK k : k = dnCall[c]
  OBVIOUS
<1>3. GatheredOK(k, dnClock) /\ StageOK(k) /\ k.at = "waiting"
  BY <1>1, <1>2, Active
<1>4. DnRoom(c) = k.capacity - Len(k.got) /\ DnRoom(c) \in Nat /\ DnRoom(c) > 0
  BY <1>2, <1>3 DEF DnRoom, GatheredOK, StageOK, Asking, Addresses
<1>5. AsksFor(c, k.question) /\ DnReleaseContext(k.question)
  BY <1>1, <1>2 DEF AsksFor, DnAnswered
<1>6. CASE /\ k.family = "Any" /\ UNCHANGED <<dnCache, dnNext>>
           /\ dnCall' = [dnCall EXCEPT ![c].at = "lookup", ![c].family = "Ipv4"]
  <2>1. PICK r : r = [k EXCEPT !.at = "lookup", !.family = "Ipv4"]
    OBVIOUS
  <2>2. /\ IsCall(r) /\ r.at = "lookup" /\ r.name = k.name /\ r.want = k.want
        /\ r.family = "Ipv4" /\ r.capacity = k.capacity /\ r.got = k.got
        /\ r.first = k.first /\ r.asked = k.asked
    BY <1>3, <2>1 DEF IsCall, GatheredOK
  <2>3. k.want = "Any" /\ k.got = << >>
    BY <1>3, <1>6 DEF GatheredOK
  <2>4. CallOK(r, dnClock)
    BY <1>3, <2>2, <2>3 DEF CallOK, GatheredOK, StageOK, Asking, DnFamilies
  <2>5. dnCall' = [dnCall EXCEPT ![c] = r]
    BY <1>2, <1>6, <2>1
  <2>6. QuestionsOK'
    BY <1>1, <1>5, <2>2, <2>5, CallerLeaves
  <2> QED  BY <1>1, <1>6, <2>4, <2>5, <2>6, CallMoves DEF DnInv, CacheOK
<1>7. CASE \E status, found : /\ DnEnds(c, status, found) /\ DnStoreCache(k.name, k.family, found)
                              /\ found = IF status = "SUCCESS" THEN DnAddresses(c) ELSE << >>
  <2>1. PICK status, found :
           /\ DnEnds(c, status, found) /\ DnStoreCache(k.name, k.family, found)
           /\ found = IF status = "SUCCESS" THEN DnAddresses(c) ELSE << >>
    BY <1>7
  <2>2. /\ Answers(found, k.name, k.family, dnClock) /\ Len(found) <= DnRoom(c)
        /\ status = "SUCCESS" => found # << >>
        /\ \A i \in DOMAIN found : found[i].at = dnClock
    <3>1. CASE status = "SUCCESS"
      <4>1. found = DnAddresses(c)
        BY <2>1, <3>1
      <4> QED  BY <1>1, <1>2, <1>3, <1>4, <4>1, ProviderList
    <3>2. CASE status # "SUCCESS"
      <4>1. found = << >>
        BY <2>1, <3>2
      <4> QED  BY <1>4, <3>2, <4>1, NoAddresses DEF Answers, OfFamily, Recent
    <3> QED  BY <3>1, <3>2
  <2>3. PICK r : r = Ended(k, status, found)
    OBVIOUS
  <2>4. CallOK(r, dnClock) /\ r.at # "waiting"
    <3>1. k.at \in Asking /\ Len(found) <= k.capacity - Len(k.got)
      BY <1>3, <1>4, <2>2 DEF Asking
    <3> QED  BY <1>1, <1>3, <2>2, <2>3, <3>1, EndsOK
  <2>5. dnCall' = [dnCall EXCEPT ![c] = r]
    BY <1>2, <2>1, <2>3 DEF DnEnds, Ended
  <2>6. CacheOK'
    BY <1>1, <2>1, <2>2, StoreKeeps DEF Answers
  <2>7. QuestionsOK'
    BY <1>1, <1>5, <2>4, <2>5, CallerLeaves
  <2> QED  BY <1>1, <2>4, <2>5, <2>6, <2>7, CallMoves DEF DnInv
<1> QED  BY <1>2, <1>6, <1>7 DEF DnAnswered

----------------------------------------
(* The theorem *)

\* The steps of the registration, the event and the clock.
LEMMA DnInvOthers ==
    ASSUME DnInv, DnSetEvent \/ DnInitialize \/ DnShutdown \/ DnDrained \/ DnTick
    PROVE  DnInv'
<1>1. /\ UNCHANGED <<dnCall, dnRequest, dnCount>>
      /\ dnCache' = dnCache \/ dnCache' = [s \in 1..DnSlots |-> DnFree]
      /\ dnClock' = dnClock \/ dnClock' = dnClock + 1
  BY DEF DnSetEvent, DnInitialize, DnShutdown, DnDrained, DnTick, DnRelease
<1>2. CacheOK'
  <2>1. CASE dnCache' = dnCache
    BY <2>1 DEF DnInv, CacheOK
  <2>2. CASE dnCache' = [s \in 1..DnSlots |-> DnFree]
    <3>1. \A s \in 1..DnSlots : ~dnCache'[s].valid
      BY <2>2 DEF DnFree
    <3> QED  BY <2>2, <3>1 DEF CacheOK
  <2> QED  BY <1>1, <2>1, <2>2
<1>3. QuestionsOK'
  BY <1>1 DEF DnInv, QuestionsOK, RefsOK, Waited, AsksFor, Outstanding
<1>4. ASSUME NEW k, CallOK(k, dnClock)
      PROVE  CallOK(k, dnClock')
  <2>1. dnClock \in Nat
    BY DEF DnInv, CallsOK
  <2>2. GatheredOK(k, dnClock) => GatheredOK(k, dnClock')
    BY <1>1, <2>1 DEF GatheredOK
  <2> QED  BY <1>4, <2>2 DEF CallOK
<1>5. CallsOK'
  BY <1>1, <1>4 DEF DnInv, CallsOK
<1> QED  BY <1>2, <1>3, <1>5 DEF DnInv

LEMMA DnInvInit == DnInit => DnInv
<1> SUFFICES ASSUME DnInit PROVE DnInv
  OBVIOUS
<1>1. CacheOK
  BY DEF DnInit, CacheOK, DnFree
<1>2. dnCall = [c \in DnCallers |-> DnIdle] /\ \A c \in DnCallers : dnCall[c].at # "waiting"
  BY DEF DnInit, DnIdle
<1>3. CallsOK
  BY <1>2 DEF DnInit, CallsOK, CallOK
<1>4. /\ dnRequest = [q \in DnQuestions |-> dnRequest[q]]
      /\ \A q \in DnQuestions : /\ IsQuestion(dnRequest[q]) /\ dnRequest[q].refs = 0
                                 /\ ~dnRequest[q].inFlight /\ dnRequest[q].freed = 0
  BY DEF DnInit, DnUnasked, IsQuestion
<1>5. \A q : ~Waited(q) /\ \A c \in DnCallers : ~AsksFor(c, q)
  BY <1>2 DEF Waited, AsksFor
<1>6. Outstanding = {}
  BY <1>4 DEF Outstanding
<1>7. dnCount = Cardinality(Outstanding)
  BY <1>6, FS_EmptySet DEF DnInit
<1>8. QuestionsOK
  BY <1>2, <1>4, <1>5, <1>7 DEF QuestionsOK, RefsOK
<1> QED  BY <1>1, <1>3, <1>8 DEF DnInv

LEMMA DnInvNext == DnInv /\ [DnNextStep]_dnVars => DnInv'
<1> SUFFICES ASSUME DnInv, [DnNextStep]_dnVars PROVE DnInv'
  OBVIOUS
<1>1. ASSUME NEW c \in DnCallers,
             \/ DnResolveAll(c) \/ DnLookup(c) \/ DnAsk(c) \/ DnAskFails(c)
             \/ DnAnswered(c) \/ DnTimesOut(c) \/ DnExplicitFamilies(c) \/ DnReturns(c)
      PROVE  DnInv'
  BY <1>1, DnInvResolveAll, DnInvLookup, DnInvAsk, DnInvAskFails, DnInvAnswered,
     DnInvTimesOut, DnInvExplicitFamilies, DnInvReturns
<1>2. ASSUME NEW q \in DnQuestions, DnProviderAnswers(q) PROVE DnInv'
  BY <1>2, DnInvProviderAnswers
<1>3. CASE DnSetEvent \/ DnInitialize \/ DnShutdown \/ DnDrained \/ DnTick
  BY <1>3, DnInvOthers
<1>4. CASE UNCHANGED dnVars
  BY <1>4 DEF dnVars, DnInv, CacheOK, CallsOK, QuestionsOK, RefsOK, Waited, AsksFor, Outstanding
<1> QED  BY <1>1, <1>2, <1>3, <1>4 DEF DnNextStep

\* The invariant is enough.
LEMMA DnInvSuffices == DnInv => ResolutionsAreSound
<1> SUFFICES ASSUME DnInv PROVE ResolutionsAreSound
  OBVIOUS
<1>1. AnswersWhatWasAsked
  <2>1. ASSUME NEW c \in DnCallers, dnCall[c].at = "done", dnCall[c].status = "SUCCESS"
        PROVE  /\ Len(dnCall[c].found) \in 1..dnCall[c].capacity
               /\ IsInjective(dnCall[c].found)
               /\ \A i \in DOMAIN dnCall[c].found :
                     /\ dnCall[c].found[i].name = dnCall[c].name
                     /\ dnCall[c].want # "Any" =>
                           /\ dnCall[c].found[i].family = dnCall[c].want
                           /\ dnCall[c].asked - dnCall[c].found[i].at <= DnTtl
    <3>1. StageOK(dnCall[c])
      BY <2>1, Active DEF DnInv
    <3> QED  BY <2>1, <3>1 DEF StageOK, Answers, Addresses, OfFamily, Recent
  <2> QED  BY <2>1 DEF AnswersWhatWasAsked
<1>2. QuestionsAreAccounted
  <2>1. ASSUME NEW q \in DnQuestions
        PROVE  /\ dnRequest[q].inFlight => dnRequest[q].names = "held"
               /\ dnRequest[q].freed <= 1
    <3>1. RefsOK(q)
      BY DEF DnInv, QuestionsOK
    <3>2. dnRequest[q].inFlight => dnRequest[q].refs > 0
      BY <3>1 DEF RefsOK
    <3> QED  BY <3>1, <3>2 DEF RefsOK
  <2> QED  BY <2>1 DEF DnInv, QuestionsOK, Outstanding, QuestionsAreAccounted
<1> QED  BY <1>1, <1>2 DEF ResolutionsAreSound

(* A caller gets different addresses of the name and the family it asked for, *)
(* within its capacity and no older than the life of the cache; every context *)
(* is freed once, its names live while the provider reads them, and the count *)
(* Shutdown waits on is exact: however resolutions, late answers, time-outs   *)
(* and expiring entries interleave.                                           *)
THEOREM ResolutionsSound == DnSpec => []ResolutionsAreSound
<1>1. DnSpec => []DnInv
  BY DnInvInit, DnInvNext, PTL DEF DnSpec
<1> QED  BY <1>1, DnInvSuffices, PTL

----------------------------------------
\* The transport choice of a WebSocket: what a connection is at each step
\* (ConnOK) and who answers for it when the work is over (OwnerOK).

WcStatuses == {"pending", "cancelled", "failed", "not_supported", "success"}

WcCalls ==
    [at : {"queued", "dial", "tls", "extended", "opening", "connected", "failed", "ending", "complete"},
     mode : {"Auto", "Http11Only", "Http2Required"}, address : Nat,
     attempt : {"none", "first", "http11", "tls12"}, retries : Nat, candidate : BOOLEAN,
     status : WcStatuses]

WcTyped ==
    /\ wcCall \in WcCalls
    /\ wcConn \in [connected : BOOLEAN, deflate : BOOLEAN, open : BOOLEAN, h2 : BOOLEAN]
    /\ wcServer \in [socket : {"none", "open"}, upgraded : BOOLEAN, deflate : BOOLEAN]
    /\ wcContext \in [websocket : BOOLEAN, ended : Nat, alive : BOOLEAN]
    /\ wcCanceled \in BOOLEAN
    /\ wcOwner \in {"nobody", "context", "caller", "closed"}

\* What a connection is at each step of Connect and after it.
ConnOK ==
    /\ wcCall.at \in {"queued", "dial", "failed"} => ~wcConn.open
    /\ wcCall.at \in {"tls", "extended", "opening"} => wcConn.open
    /\ wcConn.connected =>
          wcCall.at \in {"connected", "ending", "complete"} /\ wcServer.upgraded
             /\ wcConn.open /\ wcConn.deflate = wcServer.deflate

\* Who answers for it then.
OwnerOK ==
    /\ wcCall.at = "ending" => (wcConn.open => wcContext.websocket)
    /\ wcCall.at = "complete" => (wcConn.open => wcContext.websocket \/ wcOwner = "caller")
    /\ wcContext.ended = (IF wcCall.at = "complete" THEN 1 ELSE 0)
    /\ ~wcContext.alive => wcCall.at = "complete" /\ ~wcContext.websocket

ConnectInv == WcTyped /\ ConnOK /\ OwnerOK

LEMMA AttemptGoesOn ==
    ASSUME NEW c \in WcCalls, NEW status \in WcStatuses
    PROVE  /\ AfterAttempt(c, status) \in WcCalls
           /\ status = "success" => AfterAttempt(c, status).at = "connected"
           /\ status # "success" => AfterAttempt(c, status).at \in {"dial", "failed"}
<1>1. c.status \in WcStatuses /\ c.address \in Nat
  BY DEF WcCalls
<1>2. CASE status = "success"
  <2>1. AfterAttempt(c, status) = [c EXCEPT !.at = "connected", !.status = status]
    BY <1>2 DEF AfterAttempt
  <2> QED  BY <1>2, <2>1 DEF WcCalls
<1>3. CASE status # "success"
  <2>1. PICK last : last = IF c.attempt = "tls12" THEN c.status ELSE status
    OBVIOUS
  <2>2. last \in WcStatuses
    BY <1>1, <2>1
  <2>3. CASE c.attempt = "first" /\ c.mode = "Auto" /\ status = "not_supported"
    <3>1. AfterAttempt(c, status) = [c EXCEPT !.at = "dial", !.attempt = "http11", !.status = status]
      BY <1>3, <2>3 DEF AfterAttempt
    <3> QED  BY <1>3, <3>1 DEF WcCalls
  <2>4. CASE /\ ~(c.attempt = "first" /\ c.mode = "Auto" /\ status = "not_supported")
             /\ c.attempt = "first" /\ c.candidate
    <3>1. AfterAttempt(c, status) = [c EXCEPT !.at = "dial", !.attempt = "tls12", !.status = status]
      BY <1>3, <2>4 DEF AfterAttempt
    <3> QED  BY <1>3, <3>1 DEF WcCalls
  <2>5. CASE /\ ~(c.attempt = "first" /\ c.mode = "Auto" /\ status = "not_supported")
             /\ ~(c.attempt = "first" /\ c.candidate) /\ c.address < WcAddresses
    <3>1. AfterAttempt(c, status) =
             [c EXCEPT !.at = "dial", !.attempt = "first", !.address = @ + 1, !.candidate = FALSE,
                       !.status = last]
      BY <1>3, <2>1, <2>5 DEF AfterAttempt
    <3>2. PICK d : d = [c EXCEPT !.at = "dial", !.attempt = "first"]
      OBVIOUS
    <3>3. PICK n : n = c.address + 1
      OBVIOUS
    <3>4. PICK e : e = [d EXCEPT !.address = n, !.candidate = FALSE]
      OBVIOUS
    <3>5. d \in WcCalls /\ d.at = "dial"
      BY <3>2 DEF WcCalls
    <3>6. e \in WcCalls /\ e.at = "dial"
      <4>1. n \in Nat
        BY <1>1, <3>3
      <4> QED  BY <3>5, <3>4, <4>1 DEF WcCalls
    <3>7. AfterAttempt(c, status) = [e EXCEPT !.status = last]
      BY <3>1, <3>2, <3>3, <3>4 DEF WcCalls
    <3> QED  BY <1>3, <2>2, <3>6, <3>7 DEF WcCalls
  <2>6. CASE /\ ~(c.attempt = "first" /\ c.mode = "Auto" /\ status = "not_supported")
             /\ ~(c.attempt = "first" /\ c.candidate) /\ ~(c.address < WcAddresses)
    <3>1. AfterAttempt(c, status) = [c EXCEPT !.at = "failed", !.status = last]
      BY <1>3, <2>1, <2>6 DEF AfterAttempt
    <3> QED  BY <1>3, <2>2, <3>1 DEF WcCalls
  <2> QED  BY <2>3, <2>4, <2>5, <2>6
<1> QED  BY <1>2, <1>3

LEMMA OverTransport ==
    ASSUME ConnectInv, NEW c \in WcCalls, NEW status \in WcStatuses \ {"success"},
           wcCall' = AfterAttempt(c, status), wcCall.at \in {"dial", "tls", "extended", "opening"},
           wcConn' \in [connected : {FALSE}, deflate : BOOLEAN, open : {FALSE}, h2 : BOOLEAN],
           wcServer' \in [socket : {"none", "open"}, upgraded : BOOLEAN, deflate : BOOLEAN],
           UNCHANGED <<wcContext, wcCanceled, wcOwner>>
    PROVE  ConnectInv'
BY AttemptGoesOn DEF ConnectInv, WcTyped, ConnOK, OwnerOK

LEMMA StartsKeeps ==
    ASSUME ConnectInv, Starts
    PROVE  ConnectInv'
<1>1. wcCall' \in WcCalls /\ wcCall'.at \in {"dial", "ending"}
  <2>1. CASE wcCall' = [wcCall EXCEPT !.at = "dial", !.address = 1, !.attempt = "first"]
    BY <2>1 DEF ConnectInv, WcTyped, WcCalls
  <2>2. ASSUME NEW status \in WcStatuses, wcCall' = [wcCall EXCEPT !.at = "ending", !.status = status]
        PROVE  wcCall' \in WcCalls /\ wcCall'.at \in {"dial", "ending"}
    BY <2>2 DEF ConnectInv, WcTyped, WcCalls
  <2>3. "cancelled" \in WcStatuses /\ "failed" \in WcStatuses
    BY DEF WcStatuses
  <2> QED  BY <2>1, <2>2, <2>3 DEF Starts
<1> QED  BY <1>1 DEF ConnectInv, WcTyped, ConnOK, OwnerOK, Starts

LEMMA DialsKeeps ==
    ASSUME ConnectInv, Dials
    PROVE  ConnectInv'
<1>1. CASE /\ wcCall' = AfterAttempt(wcCall, IF wcCanceled THEN "cancelled" ELSE "failed")
           /\ UNCHANGED <<wcConn, wcServer>>
  <2>1. PICK status \in WcStatuses \ {"success"} : wcCall' = AfterAttempt(wcCall, status)
    BY <1>1 DEF WcStatuses
  <2>2. wcConn' \in [connected : {FALSE}, deflate : BOOLEAN, open : {FALSE}, h2 : BOOLEAN]
    BY <1>1 DEF ConnectInv, WcTyped, ConnOK, Dials
  <2> QED  BY <1>1, <2>1, <2>2, OverTransport DEF ConnectInv, WcTyped, Dials
<1>2. CASE /\ wcCall' = [wcCall EXCEPT !.at = "tls", !.retries = 0]
           /\ wcConn' = [wcConn EXCEPT !.open = TRUE]
           /\ wcServer' = [NoTransport EXCEPT !.socket = "open"]
  BY <1>2 DEF ConnectInv, WcTyped, WcCalls, ConnOK, OwnerOK, Dials, NoTransport
<1> QED  BY <1>1, <1>2 DEF Dials

LEMMA FailureKeeps ==
    ASSUME ConnectInv, NEW c \in WcCalls, NEW status \in WcStatuses \ {"success"},
           wcCall' = AfterAttempt(c, status), wcServer' = NoTransport,
           wcConn' = [wcConn EXCEPT !.open = FALSE, !.h2 = FALSE]
           \/ wcConn' = [connected |-> FALSE, deflate |-> FALSE, open |-> FALSE, h2 |-> FALSE],
           wcCall.at \in {"tls", "extended", "opening"},
           UNCHANGED <<wcContext, wcCanceled, wcOwner>>
    PROVE  ConnectInv'
<1>1. wcConn' \in [connected : {FALSE}, deflate : BOOLEAN, open : {FALSE}, h2 : BOOLEAN]
  <2>1. ~wcConn.connected
    BY DEF ConnectInv, ConnOK
  <2>2. CASE wcConn' = [wcConn EXCEPT !.open = FALSE, !.h2 = FALSE]
    BY <2>1, <2>2 DEF ConnectInv, WcTyped
  <2>3. CASE wcConn' = [connected |-> FALSE, deflate |-> FALSE, open |-> FALSE, h2 |-> FALSE]
    BY <2>3
  <2> QED  BY <2>2, <2>3
<1>2. NoTransport \in [socket : {"none", "open"}, upgraded : BOOLEAN, deflate : BOOLEAN]
  BY DEF NoTransport
<1> QED  BY <1>1, <1>2, OverTransport

LEMMA NegotiatesKeeps ==
    ASSUME ConnectInv, Negotiates
    PROVE  ConnectInv'
<1>1. ASSUME NEW candidate \in BOOLEAN,
             wcCall' = AfterAttempt([wcCall EXCEPT !.candidate = candidate], "failed"),
             wcConn' = [wcConn EXCEPT !.open = FALSE, !.h2 = FALSE], wcServer' = NoTransport
      PROVE  ConnectInv'
  <2>1. [wcCall EXCEPT !.candidate = candidate] \in WcCalls
    BY DEF ConnectInv, WcTyped, WcCalls
  <2> QED  BY <1>1, <2>1, FailureKeeps DEF Negotiates, WcStatuses
<1>2. CASE /\ wcCall' = [wcCall EXCEPT !.at = "extended"]
           /\ wcConn' = [wcConn EXCEPT !.h2 = TRUE] /\ UNCHANGED wcServer
  BY <1>2 DEF ConnectInv, WcTyped, WcCalls, ConnOK, OwnerOK, Negotiates
<1>3. CASE FailsOverTransport("not_supported")
  BY <1>3, FailureKeeps DEF ConnectInv, WcTyped, Negotiates, FailsOverTransport, WcStatuses
<1>4. CASE wcCall' = [wcCall EXCEPT !.at = "opening"] /\ UNCHANGED <<wcConn, wcServer>>
  BY <1>4 DEF ConnectInv, WcTyped, WcCalls, ConnOK, OwnerOK, Negotiates
<1> QED  BY <1>1, <1>2, <1>3, <1>4 DEF Negotiates

\* The server agreed: the connection stands as the response said.
LEMMA SuccessKeeps ==
    ASSUME ConnectInv, NEW accepted \in BOOLEAN,
           wcCall' = AfterAttempt(wcCall, "success"),
           wcConn' = [wcConn EXCEPT !.connected = TRUE, !.deflate = NegotiatedDeflate(@, accepted)],
           wcServer' = [wcServer EXCEPT !.upgraded = TRUE, !.deflate = accepted],
           wcCall.at \in {"extended", "opening"},
           UNCHANGED <<wcContext, wcCanceled, wcOwner>>
    PROVE  ConnectInv'
<1>1. wcCall' \in WcCalls /\ wcCall'.at = "connected"
  BY AttemptGoesOn DEF ConnectInv, WcTyped, WcStatuses
<1> QED  BY <1>1 DEF ConnectInv, WcTyped, ConnOK, OwnerOK, NegotiatedDeflate

LEMMA OpensOverHttp2Keeps ==
    ASSUME ConnectInv, OpensOverHttp2
    PROVE  ConnectInv'
<1>1. CASE FailsOverTransport("not_supported") \/ FailsOverTransport("failed")
  BY <1>1, FailureKeeps DEF ConnectInv, WcTyped, OpensOverHttp2, FailsOverTransport, WcStatuses
<1>2. ASSUME NEW accepted \in BOOLEAN,
             wcCall' = AfterAttempt(wcCall, "failed"),
             wcConn' = [wcConn EXCEPT !.open = FALSE, !.h2 = FALSE,
                           !.deflate = NegotiatedDeflate(@, accepted)],
             wcServer' = NoTransport
      PROVE  ConnectInv'
  <2>1. wcConn' \in [connected : {FALSE}, deflate : BOOLEAN, open : {FALSE}, h2 : BOOLEAN]
    BY <1>2 DEF ConnectInv, WcTyped, ConnOK, NegotiatedDeflate, OpensOverHttp2
  <2>2. NoTransport \in [socket : {"none", "open"}, upgraded : BOOLEAN, deflate : BOOLEAN]
    BY DEF NoTransport
  <2> QED  BY <1>2, <2>1, <2>2, OverTransport DEF ConnectInv, WcTyped, WcStatuses, OpensOverHttp2
<1>3. ASSUME NEW accepted \in BOOLEAN,
             wcCall' = AfterAttempt(wcCall, "success"),
             wcConn' = [wcConn EXCEPT !.connected = TRUE, !.deflate = NegotiatedDeflate(@, accepted)],
             wcServer' = [wcServer EXCEPT !.upgraded = TRUE, !.deflate = accepted]
      PROVE  ConnectInv'
  BY <1>3, SuccessKeeps DEF OpensOverHttp2
<1> QED  BY <1>1, <1>2, <1>3 DEF OpensOverHttp2

LEMMA OpensOverHttp11Keeps ==
    ASSUME ConnectInv, OpensOverHttp11
    PROVE  ConnectInv'
<1>1. ASSUME NEW status \in WcStatuses \ {"success"}, FailsOverClose(status)
      PROVE  ConnectInv'
  BY <1>1, FailureKeeps DEF ConnectInv, WcTyped, OpensOverHttp11, FailsOverClose
<1>2. CASE wcCall' = [wcCall EXCEPT !.retries = @ + 1] /\ UNCHANGED <<wcConn, wcServer>>
  <2>1. wcCall' \in WcCalls /\ wcCall'.at = "opening"
    <3>1. PICK n : n = wcCall.retries + 1
      OBVIOUS
    <3>2. n \in Nat
      BY <3>1 DEF ConnectInv, WcTyped, WcCalls
    <3>3. wcCall' = [wcCall EXCEPT !.retries = n]
      BY <1>2, <3>1 DEF ConnectInv, WcTyped, WcCalls
    <3> QED  BY <3>2, <3>3 DEF ConnectInv, WcTyped, WcCalls, OpensOverHttp11
  <2> QED  BY <1>2, <2>1 DEF ConnectInv, WcTyped, ConnOK, OwnerOK, OpensOverHttp11
<1>3. ASSUME NEW accepted \in BOOLEAN,
             wcCall' = AfterAttempt(wcCall, "success"),
             wcConn' = [wcConn EXCEPT !.connected = TRUE, !.deflate = NegotiatedDeflate(@, accepted)],
             wcServer' = [wcServer EXCEPT !.upgraded = TRUE, !.deflate = accepted]
      PROVE  ConnectInv'
  BY <1>3, SuccessKeeps DEF OpensOverHttp11
<1>4. {"cancelled", "failed", "not_supported"} \subseteq WcStatuses \ {"success"}
  BY DEF WcStatuses
<1> QED  BY <1>1, <1>2, <1>3, <1>4 DEF OpensOverHttp11

LEMMA RegistersKeeps ==
    ASSUME ConnectInv, Registers
    PROVE  ConnectInv'
<1>1. CASE wcCall' = [wcCall EXCEPT !.at = "ending"]
           /\ wcContext' = [wcContext EXCEPT !.websocket = TRUE]
           /\ wcOwner' = "context" /\ UNCHANGED <<wcConn, wcServer>>
  <2>1. wcCall' \in WcCalls /\ wcCall'.at = "ending"
    BY <1>1 DEF ConnectInv, WcTyped, WcCalls
  <2> QED  BY <1>1, <2>1 DEF ConnectInv, WcTyped, ConnOK, OwnerOK, Registers
<1>2. CASE /\ wcCall' = [wcCall EXCEPT !.at = "ending", !.status = "failed"]
           /\ wcConn' = [connected |-> FALSE, deflate |-> FALSE, open |-> FALSE, h2 |-> FALSE]
           /\ wcServer' = NoTransport /\ UNCHANGED <<wcContext, wcOwner>>
  <2>1. wcCall' \in WcCalls /\ wcCall'.at = "ending"
    BY <1>2 DEF ConnectInv, WcTyped, WcCalls, WcStatuses
  <2>2. wcServer' \in [socket : {"none", "open"}, upgraded : BOOLEAN, deflate : BOOLEAN]
    BY <1>2 DEF NoTransport
  <2>3. wcConn' \in [connected : {FALSE}, deflate : BOOLEAN, open : {FALSE}, h2 : BOOLEAN]
    BY <1>2
  <2> QED  BY <1>2, <2>1, <2>2, <2>3 DEF ConnectInv, WcTyped, ConnOK, OwnerOK, Registers
<1> QED  BY <1>1, <1>2 DEF Registers

LEMMA EndsWorkKeeps ==
    ASSUME ConnectInv, EndsWork
    PROVE  ConnectInv'
<1>1. wcCall' \in WcCalls /\ wcCall'.at = "complete"
  <2>1. PICK status : status = IF wcCanceled /\ wcCall.status = "success" THEN "cancelled" ELSE wcCall.status
    OBVIOUS
  <2>2. status \in WcStatuses
    BY <2>1 DEF ConnectInv, WcTyped, WcCalls, WcStatuses
  <2>3. wcCall' = [wcCall EXCEPT !.at = "complete", !.status = status]
    BY <2>1 DEF ConnectInv, WcTyped, WcCalls, EndsWork
  <2> QED  BY <2>2, <2>3 DEF ConnectInv, WcTyped, WcCalls
<1>2. /\ wcContext' \in [websocket : BOOLEAN, ended : Nat, alive : BOOLEAN] /\ wcContext'.ended = 1
      /\ wcContext'.websocket = wcContext.websocket /\ wcContext'.alive = wcContext.alive
  BY DEF ConnectInv, WcTyped, OwnerOK, EndsWork, EndSessionOperation
<1> QED  BY <1>1, <1>2 DEF ConnectInv, WcTyped, ConnOK, OwnerOK, EndsWork

LEMMA CallerKeeps ==
    ASSUME ConnectInv, CancelConnect \/ TakeResult
    PROVE  ConnectInv'
BY DEF ConnectInv, WcTyped, ConnOK, OwnerOK, CancelConnect, TakeResult

LEMMA ReleaseContextKeeps ==
    ASSUME ConnectInv, ReleaseContext
    PROVE  ConnectInv'
<1>1. wcContext'.ended = 1 /\ wcContext' \in [websocket : {FALSE}, ended : Nat, alive : {FALSE}]
  BY DEF ConnectInv, WcTyped, OwnerOK, ReleaseContext, EndSessionOperation
<1>2. CASE wcContext.websocket
  <2>1. wcServer' \in [socket : {"none", "open"}, upgraded : BOOLEAN, deflate : BOOLEAN]
    <3>1. wcServer' = NoTransport
      BY <1>2 DEF ReleaseContext
    <3> QED  BY <3>1 DEF NoTransport
  <2>2. wcConn' \in [connected : {FALSE}, deflate : BOOLEAN, open : {FALSE}, h2 : BOOLEAN]
    <3>1. wcConn' = [connected |-> FALSE, deflate |-> FALSE, open |-> FALSE, h2 |-> FALSE]
      BY <1>2 DEF ReleaseContext
    <3> QED  BY <3>1
  <2> QED  BY <1>1, <1>2, <2>1, <2>2 DEF ConnectInv, WcTyped, ConnOK, OwnerOK, ReleaseContext
<1>3. CASE ~wcContext.websocket
  BY <1>1, <1>3 DEF ConnectInv, WcTyped, ConnOK, OwnerOK, ReleaseContext
<1> QED  BY <1>2, <1>3 DEF ConnectInv, WcTyped

\* A connect ends with a connection that is as negotiated or with nothing
\* (ConnectEndsCleanly): on every path of retries over addresses, protocol
\* versions and challenges, and however the caller cancels, takes or releases.
THEOREM ConnectsEndCleanly == ConnectSpec => []ConnectEndsCleanly
<1>1. ConnectInit => ConnectInv
  <2> SUFFICES ASSUME ConnectInit PROVE ConnectInv
    OBVIOUS
  <2>1. wcCall \in WcCalls /\ wcCall.at = "queued"
    <3>1. PICK mode \in WcModes :
             wcCall = [at |-> "queued", mode |-> mode, address |-> 0, attempt |-> "none", retries |-> 0,
                       candidate |-> FALSE, status |-> "pending"]
      BY DEF ConnectInit
    <3>2. mode \in {"Auto", "Http11Only", "Http2Required"}
      BY WcConstants DEF WcConstants
    <3> QED  BY <3>1, <3>2 DEF WcCalls, WcStatuses
  <2> QED  BY <2>1 DEF ConnectInit, ConnectInv, WcTyped, ConnOK, OwnerOK, NoTransport
<1>2. ConnectInv /\ [ConnectNext]_connectVars => ConnectInv'
  <2> SUFFICES ASSUME ConnectInv, [ConnectNext]_connectVars PROVE ConnectInv'
    OBVIOUS
  <2>1. CASE ConnectWork
    BY <2>1, StartsKeeps, DialsKeeps, NegotiatesKeeps, OpensOverHttp2Keeps, OpensOverHttp11Keeps,
       RegistersKeeps, EndsWorkKeeps DEF ConnectWork
  <2>2. CASE CancelConnect \/ TakeResult
    BY <2>2, CallerKeeps
  <2>3. CASE ReleaseContext
    BY <2>3, ReleaseContextKeeps
  <2>4. CASE UNCHANGED connectVars
    BY <2>4 DEF connectVars, ConnectInv, WcTyped, ConnOK, OwnerOK
  <2> QED  BY <2>1, <2>2, <2>3, <2>4 DEF ConnectNext
<1>3. ConnectInv => ConnectEndsCleanly
  BY DEF ConnectInv, WcTyped, ConnOK, OwnerOK, ConnectEndsCleanly, ConnectedAsNegotiated,
         ReleasedOwnsNothing
<1> QED  BY <1>1, <1>2, <1>3, PTL DEF ConnectSpec

----------------------------------------
\* The response cache. Every entry's bytes, tag and date are of one
\* version that was current when it was dated (EntryGood), and so is every
\* answer still on its way (RespGood), and its bytes are at their places
\* unless it is misfiled; the accounts are cardinalities of what the entries
\* are charged, and follow the entries through every change of the list.

CacheVersions == 0..CacheMaxVersion

\* A byte of a resource: whose it is, of which version, and where; a tag.
Byte(u, variant, v, p) == <<u, variant, v, p>>
Tag(u, variant, v) == <<u, variant, v>>

Controls == {"max-age", "no-cache", "no-store", "no-validator"}

CacheBytes ==
    {Unwritten} \cup {Byte(u, x, v, p) : u \in CacheUrls, x \in CacheVariants, v \in CacheVersions, p \in Offsets}

CacheBodies == UNION {[D -> CacheBytes] : D \in SUBSET Offsets}

CacheTags == {NoTag} \cup {Tag(u, x, v) : u \in CacheUrls, x \in CacheVariants, v \in CacheVersions}

CacheEntries ==
    [method : {"GET"}, url : CacheUrls, vary : CacheVariants, etag : CacheTags, control : Controls,
     date : Nat, storedAt : Nat, status : {200, 206}, partial : BOOLEAN,
     ranges : Seq(SUBSET Positions), body : CacheBodies]

\* The positions of an entry that a response filled.
Written(e) == IF e.partial THEN UNION {e.ranges[i] : i \in DOMAIN e.ranges} ELSE DOMAIN e.body

\* Bytes, entity tag and date belong to one version, current when it was dated,
\* and the bytes are at their places if so claimed.
OfVersion(bytes, filled, placed, tag, date, u, x, v, replaced) ==
    /\ \A p \in filled : \E q \in Offsets : bytes[p] = Byte(u, x, v, q) /\ (placed => q = p)
    /\ tag # NoTag => tag = Tag(u, x, v)
    /\ date <= replaced[<<u, v>>]

EntryGood(e, now, replaced) ==
    /\ \E v \in CacheVersions :
          OfVersion(e.body, Written(e), ~Misfiled(e), e.etag, e.date, e.url, e.vary, v, replaced)
    /\ e.date <= e.storedAt /\ e.storedAt <= now
    /\ Misfiled(e) \/ DOMAIN e.body = Positions

ListGood(list, now, replaced) ==
    list \in Seq(CacheEntries) /\ \A i \in DOMAIN list : EntryGood(list[i], now, replaced)

RespGood(req, resp, now, replaced) ==
    /\ resp.status \in {200, 206, 304, 500} /\ resp.control \in Controls /\ resp.etag \in CacheTags
    /\ resp.date \in Nat /\ resp.date <= now
    /\ DOMAIN resp.body \subseteq IF Placed(resp) THEN Positions ELSE Offsets
    /\ resp.status = 200 => DOMAIN resp.body = Positions /\ resp.form # "parts"
    /\ resp.status = 206 => DOMAIN resp.body # {}
    /\ req.method = "POST" => resp.status \in {200, 500}
    /\ \E v \in CacheVersions :
          OfVersion(resp.body, DOMAIN resp.body, resp.form # "parts", resp.etag, resp.date,
                    req.url, req.variant, v, replaced)

CallGood(call, now, replaced) ==
    /\ call.at \in {"idle", "sent", "answered"}
    /\ call.at # "idle" =>
          /\ call.req.method \in {"GET", "POST"} /\ call.req.url \in CacheUrls
          /\ call.req.variant \in CacheVariants /\ call.req.range \in AllRanges
    /\ call.at = "answered" => RespGood(call.req, call.resp, now, replaced)

CallsGood ==
    /\ cacheCall = [c \in CacheCallers |-> cacheCall[c]]
    /\ \A c \in CacheCallers : CallGood(cacheCall[c], cacheNow, originReplaced)

\* A version is replaced when the next one comes, and not before.
OriginGood ==
    /\ cacheNow \in Nat /\ cacheNow <= CacheMaxClock
    /\ originVersion \in [CacheUrls -> CacheVersions]
    /\ originReplaced \in [CacheUrls \X CacheVersions -> Nat]
    /\ \A u \in CacheUrls, v \in CacheVersions : v >= originVersion[u] => originReplaced[<<u, v>>] = Never

AccountsGood ==
    /\ cacheCount = Len(cacheList) /\ cacheCount <= CacheMaxEntries
    /\ cacheUsed = SumCharges(cacheList) /\ cacheUsed <= CacheMaxBytes

AnswerGood == ServedBytesAreOneVersion /\ FreshAnswersWereCurrent

CacheInv ==
    /\ OriginGood /\ ListGood(cacheList, cacheNow, originReplaced) /\ AccountsGood /\ CallsGood
    /\ AnswerGood

----------------------------------------
(* Sets of numbers *)

\* A set of numbers up to n that is not empty has a greatest element.
LEMMA MaxIsMember ==
    ASSUME NEW n \in Nat, NEW S \in SUBSET (0..n), S # {}
    PROVE  Max(S) \in S
<1>1. PICK T : T = {n - s : s \in S}
  OBVIOUS
<1>2. T \in SUBSET Nat /\ T # {}
  <2>1. \A s \in S : s \in Int /\ s <= n
    OBVIOUS
  <2>2. \A s \in S : n - s \in Nat
    BY <2>1
  <2> QED  BY <1>1, <2>2
<1>3. PICK t \in T : \A u \in T : t <= u
  BY <1>2, LeastNatural
<1>4. PICK s \in S : t = n - s
  BY <1>1, <1>3
<1>5. \A r \in S : s >= r
  BY <1>1, <1>3, <1>4
<1> QED  BY <1>5 DEF Max

LEMMA MaxOfTwo ==
    ASSUME NEW a \in Int
    PROVE  Max({0, a}) \in Int /\ Max({0, a}) >= 0 /\ Max({0, a}) >= a
<1>1. \E x \in {0, a} : \A y \in {0, a} : x >= y
  OBVIOUS
<1>2. Max({0, a}) \in {0, a} /\ \A y \in {0, a} : Max({0, a}) >= y
  BY <1>1 DEF Max
<1> QED  BY <1>2

LEMMA MinOfTwo ==
    ASSUME NEW a \in Int, NEW b \in Int
    PROVE  Min({a, b}) \in {a, b} /\ Min({a, b}) <= a /\ Min({a, b}) <= b
<1>1. \E x \in {a, b} : \A y \in {a, b} : x <= y
  OBVIOUS
<1>2. Min({a, b}) \in {a, b} /\ \A y \in {a, b} : Min({a, b}) <= y
  BY <1>1 DEF Min
<1> QED  BY <1>2

LEMMA PositionsFinite == IsFiniteSet(Positions) /\ CacheLength \in Nat /\ CacheLength > 0
BY CacheConstants, FS_Interval DEF Positions, CacheConstants

\* A range asks for positions of the resource.
LEMMA RangeInside ==
    ASSUME NEW range \in AllRanges
    PROVE  Concrete(range, CacheLength) \subseteq Positions
<1>0. CacheLength \in Nat /\ CacheLength > 0
  BY PositionsFinite
<1>1. range.last \in Int /\ (~range.suffix => range.first \in Nat)
  BY <1>0 DEF AllRanges, ByteRanges, NoRange, SeveralRanges, Positions
<1>2. CASE range.suffix
  <2>0. CacheLength \in Int
    BY <1>0
  <2>1. PICK m \in Int : m = Min({range.last, CacheLength}) /\ m <= CacheLength
    BY <1>1, <2>0, MinOfTwo
  <2>2. Concrete(range, CacheLength) = CacheLength - m..CacheLength - 1
    BY <1>2, <2>1 DEF Concrete
  <2> QED  BY <1>0, <2>1, <2>2 DEF Positions
<1>3. CASE ~range.suffix
  <2>1. CacheLength - 1 \in Int
    BY <1>0
  <2>2. PICK m \in Int : m = Min({range.last, CacheLength - 1}) /\ m <= CacheLength - 1
    BY <1>1, <2>1, MinOfTwo
  <2>3. Concrete(range, CacheLength) = range.first..m
    BY <1>3, <2>2 DEF Concrete
  <2> QED  BY <1>0, <1>1, <1>3, <2>2, <2>3 DEF Positions
<1> QED  BY <1>2, <1>3

\* The positions of a list of n entries, some of them and the others.
LEMMA SomeAndOthers ==
    ASSUME NEW n \in Nat, NEW P \in SUBSET (1..n)
    PROVE  /\ IsFiniteSet(1..n) /\ Cardinality(1..n) = n
           /\ IsFiniteSet(P) /\ Cardinality(P) \in Nat /\ Cardinality(P) <= n
           /\ Cardinality((1..n) \ P) = n - Cardinality(P)
<1>1. IsFiniteSet(1..n) /\ Cardinality(1..n) = IF 1 > n THEN 0 ELSE n - 1 + 1
  BY FS_Interval
<1>2. Cardinality(1..n) = n
  BY <1>1
<1>3. IsFiniteSet(P) /\ Cardinality(P) <= Cardinality(1..n)
  BY <1>1, FS_Subset
<1>4. Cardinality(P) \in Nat
  BY <1>3, FS_CardinalityType
<1>5. (1..n) \cap P = P
  OBVIOUS
<1>6. Cardinality((1..n) \ P) = Cardinality(1..n) - Cardinality((1..n) \cap P)
  BY <1>1, FS_Difference
<1> QED  BY <1>1, <1>2, <1>3, <1>4, <1>5, <1>6

----------------------------------------
(* Lists of entries *)

\* A numbering of the positions P from 1 to n.
Numbers(f, n, P) ==
    /\ f \in [1..n -> P] /\ \A i \in P : \E k \in 1..n : f[k] = i
    /\ \A j, k \in 1..n : f[j] = f[k] => j = k

\* EntriesAt gives the entries of a list at the positions it is asked for.
LEMMA EntriesAtPositions ==
    ASSUME NEW S, NEW list \in Seq(S), NEW P \in SUBSET (DOMAIN list)
    PROVE  /\ EntriesAt(list, P) \in Seq(S) /\ IsFiniteSet(P) /\ Cardinality(P) \in Nat
           /\ Len(EntriesAt(list, P)) = Cardinality(P)
           /\ \A k \in DOMAIN EntriesAt(list, P) : \E i \in P : EntriesAt(list, P)[k] = list[i]
           /\ \E f : /\ Numbers(f, Cardinality(P), P)
                     /\ \A k \in 1..Cardinality(P) : EntriesAt(list, P)[k] = list[f[k]]
<1>1. DOMAIN list = 1..Len(list) /\ Len(list) \in Nat
  OBVIOUS
<1>2. IsFiniteSet(P) /\ Cardinality(P) \in Nat
  BY <1>1, SomeAndOthers
<1>3. PICK n : n = Cardinality(P)
  OBVIOUS
<1>4. n \in Nat /\ IsFiniteSet(1..n) /\ Cardinality(1..n) = n
  BY <1>2, <1>3, FS_Interval
<1>5. PICK below : below = [i \in P |-> {j \in P : j < i}]
  OBVIOUS
<1>6. PICK rank : rank = [i \in P |-> Cardinality(below[i]) + 1]
  OBVIOUS
<1>7. ASSUME NEW i \in P
      PROVE  /\ IsFiniteSet(below[i]) /\ Cardinality(below[i]) \in Nat /\ Cardinality(below[i]) < n
  <2>1. below[i] \subseteq P /\ below[i] # P
    BY <1>1, <1>5, <1>7
  <2> QED  BY <1>2, <1>3, <2>1, FS_Subset, FS_CardinalityType
<1>8. ASSUME NEW i \in P, NEW j \in P, i < j
      PROVE  rank[i] # rank[j]
  <2>1. below[i] \subseteq below[j] /\ i \in below[j] /\ i \notin below[i]
    BY <1>1, <1>5, <1>8
  <2>2. Cardinality(below[i]) # Cardinality(below[j])
    BY <1>7, <2>1, FS_Subset
  <2> QED  BY <1>6, <1>7, <2>2
<1>9. rank \in Injection(P, 1..n)
  <2>1. rank \in [P -> 1..n]
    BY <1>4, <1>6, <1>7
  <2>2. ASSUME NEW i \in P, NEW j \in P, rank[i] = rank[j] PROVE i = j
    <3>1. i \in Nat /\ j \in Nat
      BY <1>1
    <3>2. ~(i < j) /\ ~(j < i)
      BY <1>8, <2>2
    <3> QED  BY <3>1, <3>2
  <2> QED  BY <2>1, <2>2 DEF Injection, IsInjective
<1>10. rank \in Surjection(P, 1..n)
  BY <1>3, <1>4, <1>9, FS_Injection
<1>11. ASSUME NEW k \in 1..n
       PROVE  \E i \in P : rank[i] = k /\ Cardinality({j \in P : j < i}) = k - 1
  <2>1. PICK i \in P : rank[i] = k
    BY <1>10 DEF Surjection
  <2>2. below[i] = {j \in P : j < i}
    BY <1>5
  <2>3. Cardinality(below[i]) + 1 = k /\ Cardinality(below[i]) \in Nat
    BY <1>6, <1>7, <2>1
  <2>4. Cardinality(below[i]) = k - 1
    BY <2>3
  <2> QED  BY <2>1, <2>2, <2>4
<1>12. PICK f : f = [k \in 1..n |-> CHOOSE i \in P : Cardinality({j \in P : j < i}) = k - 1]
  OBVIOUS
<1>13. ASSUME NEW k \in 1..n PROVE f[k] \in P /\ rank[f[k]] = k
  <2>1. f[k] \in P /\ Cardinality({j \in P : j < f[k]}) = k - 1
    BY <1>11, <1>12
  <2>2. below[f[k]] = {j \in P : j < f[k]}
    BY <1>5, <2>1
  <2>3. Cardinality(below[f[k]]) = k - 1 /\ rank[f[k]] = Cardinality(below[f[k]]) + 1
    BY <1>6, <2>1, <2>2
  <2> QED  BY <1>4, <2>1, <2>3
<1>14. EntriesAt(list, P) = [k \in 1..n |-> list[f[k]]]
  BY <1>3, <1>12 DEF EntriesAt
<1>15. \A k \in 1..n : list[f[k]] \in S
  BY <1>1, <1>13
<1>16. EntriesAt(list, P) \in Seq(S) /\ Len(EntriesAt(list, P)) = n
  BY <1>4, <1>14, <1>15
<1>17. f \in [1..n -> P] /\ \A j, k \in 1..n : f[j] = f[k] => j = k
  BY <1>12, <1>13
<1>18. \A i \in P : rank[i] \in 1..n /\ f[rank[i]] = i
  <2>1. \A i \in P : rank[i] \in 1..n
    BY <1>9 DEF Injection
  <2>2. \A i, j \in P : rank[i] = rank[j] => i = j
    BY <1>9 DEF Injection, IsInjective
  <2> QED  BY <1>13, <2>1, <2>2
<1>19. /\ \A i \in P : \E k \in 1..n : f[k] = i
       /\ \A k \in 1..n : f[k] \in P /\ EntriesAt(list, P)[k] = list[f[k]]
       /\ DOMAIN EntriesAt(list, P) = 1..n
  BY <1>13, <1>14, <1>18
<1>20. \A k \in DOMAIN EntriesAt(list, P) : \E i \in P : EntriesAt(list, P)[k] = list[i]
  BY <1>19
<1>21. Numbers(f, n, P)
  BY <1>17, <1>19 DEF Numbers
<1> QED  BY <1>2, <1>3, <1>16, <1>19, <1>20, <1>21

\* What the entries at the positions P are charged.
ChargedAt(list, P) == UNION {{i} \X Charge(list[i]) : i \in P}

LEMMA ChargesFinite ==
    ASSUME NEW list \in Seq(CacheEntries), NEW P \in SUBSET (DOMAIN list)
    PROVE  IsFiniteSet(ChargedAt(list, P)) /\ Cardinality(ChargedAt(list, P)) \in Nat
<1>1. PICK A, B : A = 1..Len(list) /\ B = -1..CacheLength
  OBVIOUS
<1>2. IsFiniteSet(A) /\ IsFiniteSet(B)
  <2>1. Len(list) \in Int /\ CacheLength \in Int /\ 1 \in Int /\ -1 \in Int
    BY PositionsFinite
  <2> QED  BY <1>1, <2>1, FS_Interval
<1>3. IsFiniteSet(A \X B)
  BY <1>2, FS_Product
<1>4. ASSUME NEW i \in P PROVE i \in A /\ Charge(list[i]) \subseteq B
  <2>1. list[i] \in CacheEntries /\ i \in A
    BY <1>1
  <2>2. DOMAIN list[i].body \subseteq Offsets
    BY <2>1 DEF CacheEntries, CacheBodies
  <2>3. Offsets \subseteq B /\ -1 \in B
    BY <1>1, PositionsFinite DEF Offsets
  <2> QED  BY <2>1, <2>2, <2>3 DEF Charge
<1>5. ChargedAt(list, P) \in SUBSET (A \X B)
  BY <1>4 DEF ChargedAt
<1> QED  BY <1>3, <1>5, FS_Subset, FS_CardinalityType

\* Two sets of positions without a common one.
LEMMA ChargesApart ==
    ASSUME NEW list \in Seq(CacheEntries), NEW P \in SUBSET (DOMAIN list),
           NEW Q \in SUBSET (DOMAIN list), P \cap Q = {}
    PROVE  Cardinality(ChargedAt(list, P \cup Q)) =
               Cardinality(ChargedAt(list, P)) + Cardinality(ChargedAt(list, Q))
<1>1. PICK A, B : A = ChargedAt(list, P) /\ B = ChargedAt(list, Q)
  OBVIOUS
<1>2. /\ IsFiniteSet(A) /\ Cardinality(A) \in Nat
      /\ IsFiniteSet(B) /\ Cardinality(B) \in Nat
  BY <1>1, ChargesFinite
<1>3. ChargedAt(list, P \cup Q) = A \cup B
  BY <1>1 DEF ChargedAt
<1>4. \A x : (x \in A => x[1] \in P) /\ (x \in B => x[1] \in Q)
  BY <1>1 DEF ChargedAt
<1>5. A \cap B = {} /\ Cardinality({}) = 0
  BY <1>4, FS_EmptySet
<1>6. Cardinality(A \cup B) = Cardinality(A) + Cardinality(B) - Cardinality(A \cap B)
  BY <1>2, FS_Union
<1>7. Cardinality(A \cap B) = 0
  BY <1>5
<1>8. Cardinality(A \cup B) = Cardinality(A) + Cardinality(B)
  BY <1>2, <1>6, <1>7
<1> QED  BY <1>1, <1>3, <1>8

\* A list whose entries are as long as those at some positions of another.
AsLong(l, m, g) == \A k \in DOMAIN l : DOMAIN l[k].body = DOMAIN m[g[k]].body

LEMMA ChargesMoved ==
    ASSUME NEW l \in Seq(CacheEntries), NEW m \in Seq(CacheEntries), NEW P \in SUBSET (DOMAIN m),
           NEW g, Numbers(g, Len(l), P), AsLong(l, m, g)
    PROVE  SumCharges(l) = Cardinality(ChargedAt(m, P)) /\ SumCharges(l) \in Nat
<1>0. /\ g \in [DOMAIN l -> P] /\ \A i \in P : \E k \in DOMAIN l : g[k] = i
      /\ \A j, k \in DOMAIN l : g[j] = g[k] => j = k
      /\ \A k \in DOMAIN l : DOMAIN l[k].body = DOMAIN m[g[k]].body
  <2>1. DOMAIN l = 1..Len(l)
    OBVIOUS
  <2> QED  BY <2>1 DEF Numbers, AsLong
<1>1. PICK S, T : S = ChargedAt(l, DOMAIN l) /\ T = ChargedAt(m, P)
  OBVIOUS
<1>2. IsFiniteSet(S) /\ IsFiniteSet(T) /\ Cardinality(T) \in Nat
  BY <1>1, ChargesFinite
<1>3. PICK h : h = [x \in S |-> <<g[x[1]], x[2]>>]
  OBVIOUS
<1>4. \A k \in DOMAIN l : Charge(l[k]) = Charge(m[g[k]])
  BY <1>0 DEF Charge
<1>5. ASSUME NEW x \in S
      PROVE  \E k \in DOMAIN l : \E b : x = <<k, b>> /\ h[x] = <<g[k], b>> /\ h[x] \in T
  <2>1. PICK k \in DOMAIN l : x \in {k} \X Charge(l[k])
    BY <1>1 DEF ChargedAt
  <2>2. PICK b \in Charge(l[k]) : x = <<k, b>>
    BY <2>1
  <2>3. h[x] = <<g[k], b>> /\ g[k] \in P
    BY <1>0, <1>3, <2>2
  <2> QED  BY <1>1, <1>4, <2>2, <2>3 DEF ChargedAt
<1>6. h \in Injection(S, T)
  <2>1. h \in [S -> T]
    BY <1>3, <1>5
  <2>2. ASSUME NEW x \in S, NEW y \in S, h[x] = h[y] PROVE x = y
    <3>1. PICK j, b : j \in DOMAIN l /\ x = <<j, b>> /\ h[x] = <<g[j], b>>
      BY <1>5
    <3>2. PICK k, c : k \in DOMAIN l /\ y = <<k, c>> /\ h[y] = <<g[k], c>>
      BY <1>5
    <3>3. <<g[j], b>> = <<g[k], c>>
      BY <2>2, <3>1, <3>2
    <3>4. g[j] = g[k] /\ b = c
      BY <3>3
    <3> QED  BY <1>0, <3>1, <3>2, <3>4
  <2> QED  BY <2>1, <2>2 DEF Injection, IsInjective
<1>7. h \in Surjection(S, T)
  <2>1. ASSUME NEW y \in T PROVE \E x \in S : h[x] = y
    <3>1. PICK i \in P : y \in {i} \X Charge(m[i])
      BY <1>1 DEF ChargedAt
    <3>2. PICK k \in DOMAIN l : g[k] = i
      BY <1>0
    <3>3. PICK b \in Charge(l[k]) : y = <<g[k], b>>
      BY <1>4, <3>1, <3>2
    <3>4. <<k, b>> \in S
      BY <1>1 DEF ChargedAt
    <3> QED  BY <1>3, <3>3, <3>4
  <2> QED  BY <1>6, <2>1 DEF Injection, Surjection
<1>8. Cardinality(S) = Cardinality(T)
  BY <1>2, <1>6, <1>7, FS_Injection
<1> QED  BY <1>1, <1>2, <1>8 DEF SumCharges, ChargedAt

\* All of a list, one entry, an entry before a list, and the entries at some positions.
LEMMA ChargesOfList ==
    ASSUME NEW list \in Seq(CacheEntries)
    PROVE  SumCharges(list) = Cardinality(ChargedAt(list, DOMAIN list)) /\ SumCharges(list) \in Nat
BY ChargesFinite DEF SumCharges, ChargedAt

LEMMA ChargesOfOne ==
    ASSUME NEW list \in Seq(CacheEntries), NEW i \in DOMAIN list, NEW e \in CacheEntries,
           DOMAIN e.body = DOMAIN list[i].body
    PROVE  SumCharges(<<e>>) = Cardinality(ChargedAt(list, {i}))
<1>1. PICK one, g : one = <<e>> /\ g = [k \in DOMAIN one |-> i]
  OBVIOUS
<1>2. one \in Seq(CacheEntries) /\ DOMAIN one = {1} /\ one[1] = e
  BY <1>1
<1>3. Numbers(g, Len(one), {i}) /\ AsLong(one, list, g) /\ {i} \in SUBSET (DOMAIN list)
  <2>1. g = [k \in 1..1 |-> i] /\ Len(one) = 1 /\ 1..1 = {1}
    BY <1>1, <1>2
  <2> QED  BY <1>2, <2>1 DEF Numbers, AsLong
<1>4. SumCharges(one) = Cardinality(ChargedAt(list, {i}))
  BY <1>2, <1>3, ChargesMoved
<1> QED  BY <1>1, <1>4

LEMMA ChargesHead ==
    ASSUME NEW list \in Seq(CacheEntries), NEW e \in CacheEntries
    PROVE  /\ SumCharges(<<e>> \o list) = SumCharges(<<e>>) + SumCharges(list)
           /\ SumCharges(<<e>>) \in Nat /\ SumCharges(list) \in Nat
<1>1. PICK all, rest, g : /\ all = <<e>> \o list /\ rest = DOMAIN all \ {1}
                          /\ g = [k \in DOMAIN list |-> k + 1]
  OBVIOUS
<1>2. /\ all \in Seq(CacheEntries) /\ all[1] = e /\ DOMAIN all = 1..Len(list) + 1
      /\ \A k \in DOMAIN list : all[k + 1] = list[k]
  BY <1>1
<1>3. Numbers(g, Len(list), rest)
  <2>1. DOMAIN list = 1..Len(list) /\ \A k \in 1..Len(list) : g[k] = k + 1 /\ k + 1 \in rest
    BY <1>1, <1>2
  <2>2. \A i \in rest : i - 1 \in 1..Len(list) /\ g[i - 1] = i
    BY <1>1, <1>2, <2>1
  <2>3. g \in [1..Len(list) -> rest]
    BY <1>1, <2>1
  <2> QED  BY <2>1, <2>2, <2>3 DEF Numbers
<1>5. AsLong(list, all, g)
  BY <1>1, <1>2 DEF AsLong
<1>6. rest \in SUBSET (DOMAIN all) /\ {1} \in SUBSET (DOMAIN all) /\ rest \cap {1} = {}
      /\ rest \cup {1} = DOMAIN all
  BY <1>1, <1>2
<1>7. SumCharges(list) = Cardinality(ChargedAt(all, rest)) /\ SumCharges(list) \in Nat
  BY <1>2, <1>3, <1>5, <1>6, ChargesMoved
<1>8. SumCharges(<<e>>) = Cardinality(ChargedAt(all, {1})) /\ Cardinality(ChargedAt(all, {1})) \in Nat
  BY <1>2, <1>6, ChargesOfOne, ChargesFinite
<1>9. Cardinality(ChargedAt(all, DOMAIN all)) =
          Cardinality(ChargedAt(all, rest)) + Cardinality(ChargedAt(all, {1}))
  <2>1. Cardinality(ChargedAt(all, rest \cup {1})) =
            Cardinality(ChargedAt(all, rest)) + Cardinality(ChargedAt(all, {1}))
    BY <1>2, <1>6, ChargesApart
  <2> QED  BY <1>6, <2>1
<1>10. SumCharges(all) = Cardinality(ChargedAt(all, DOMAIN all))
  BY <1>2, ChargesOfList
<1> QED  BY <1>1, <1>7, <1>8, <1>9, <1>10

LEMMA ChargesOfPart ==
    ASSUME NEW list \in Seq(CacheEntries), NEW P \in SUBSET (DOMAIN list)
    PROVE  /\ SumCharges(EntriesAt(list, P)) = Cardinality(ChargedAt(list, P))
           /\ SumCharges(EntriesAt(list, P)) \in Nat
<1>1. PICK part : part = EntriesAt(list, P)
  OBVIOUS
<1>2. PICK f : /\ Numbers(f, Cardinality(P), P)
               /\ \A k \in 1..Cardinality(P) : part[k] = list[f[k]]
  BY <1>1, EntriesAtPositions
<1>3. part \in Seq(CacheEntries) /\ DOMAIN part = 1..Cardinality(P) /\ Len(part) = Cardinality(P)
  BY <1>1, EntriesAtPositions
<1>4. AsLong(part, list, f)
  BY <1>2, <1>3 DEF AsLong
<1> QED  BY <1>1, <1>2, <1>3, <1>4, ChargesMoved

\* A list is charged what its two parts are charged.
LEMMA ChargesSplitAt ==
    ASSUME NEW list \in Seq(CacheEntries), NEW n \in 0..Len(list)
    PROVE  SumCharges(list) =
               SumCharges(SubSeq(list, 1, n)) + SumCharges(SubSeq(list, n + 1, Len(list)))
<1>1. PICK head, tail, P, Q, g, h :
         /\ head = SubSeq(list, 1, n) /\ tail = SubSeq(list, n + 1, Len(list))
         /\ P = 1..n /\ Q = n + 1..Len(list)
         /\ g = [k \in DOMAIN head |-> k] /\ h = [k \in DOMAIN tail |-> k + n]
  OBVIOUS
<1>2. head \in Seq(CacheEntries) /\ DOMAIN head = P /\ \A k \in P : head[k] = list[k]
  BY <1>1
<1>3. /\ tail \in Seq(CacheEntries) /\ DOMAIN tail = 1..Len(list) - n
      /\ \A k \in DOMAIN tail : tail[k] = list[k + n]
  BY <1>1
<1>4. P \in SUBSET (DOMAIN list) /\ Q \in SUBSET (DOMAIN list) /\ P \cap Q = {} /\ P \cup Q = DOMAIN list
  <2>1. DOMAIN list = 1..Len(list) /\ Len(list) \in Nat /\ n \in Nat /\ n <= Len(list)
    OBVIOUS
  <2> QED  BY <1>1, <2>1
<1>5. SumCharges(head) = Cardinality(ChargedAt(list, P))
  <2>1. Len(head) = n /\ g = [k \in 1..n |-> k]
    BY <1>1, <1>2
  <2>2. Numbers(g, Len(head), P) /\ AsLong(head, list, g)
    BY <1>1, <1>2, <2>1 DEF Numbers, AsLong
  <2> QED  BY <1>2, <1>4, <2>2, ChargesMoved
<1>6. SumCharges(tail) = Cardinality(ChargedAt(list, Q))
  <2>1. h \in [DOMAIN tail -> Q] /\ \A k \in DOMAIN tail : h[k] = k + n
    BY <1>1, <1>3
  <2>2. \A i \in Q : i - n \in DOMAIN tail /\ h[i - n] = i
    BY <1>1, <1>3, <2>1
  <2>3. DOMAIN tail = 1..Len(tail) /\ \A k \in 1..Len(tail) : k \in Nat /\ n \in Nat
    BY <1>3
  <2>4. Numbers(h, Len(tail), Q)
    BY <2>1, <2>2, <2>3 DEF Numbers
  <2>5. AsLong(tail, list, h)
    BY <1>3, <2>1 DEF AsLong
  <2> QED  BY <1>3, <1>4, <2>4, <2>5, ChargesMoved
<1>7. Cardinality(ChargedAt(list, P \cup Q)) = Cardinality(ChargedAt(list, P)) + Cardinality(ChargedAt(list, Q))
  BY <1>4, ChargesApart
<1>8. SumCharges(list) = Cardinality(ChargedAt(list, DOMAIN list))
  BY ChargesOfList
<1> QED  BY <1>1, <1>4, <1>5, <1>6, <1>7, <1>8

LEMMA ListPart ==
    ASSUME NEW now, NEW replaced, NEW list, ListGood(list, now, replaced), NEW P \in SUBSET (DOMAIN list)
    PROVE  /\ ListGood(EntriesAt(list, P), now, replaced)
           /\ Len(EntriesAt(list, P)) = Cardinality(P) /\ Cardinality(P) \in Nat
BY EntriesAtPositions DEF ListGood

LEMMA ListHead ==
    ASSUME NEW now, NEW replaced, NEW list, ListGood(list, now, replaced),
           NEW e \in CacheEntries, EntryGood(e, now, replaced)
    PROVE  ListGood(<<e>> \o list, now, replaced) /\ Len(<<e>> \o list) = Len(list) + 1
<1>1. list \in Seq(CacheEntries) /\ <<e>> \in Seq(CacheEntries)
  BY DEF ListGood
<1>2. <<e>> \o list \in Seq(CacheEntries) /\ Len(<<e>> \o list) = Len(list) + 1
  BY <1>1
<1>3. \A i \in DOMAIN (<<e>> \o list) : (<<e>> \o list)[i] = IF i = 1 THEN e ELSE list[i - 1]
  BY <1>1, <1>2
<1>4. \A i \in DOMAIN (<<e>> \o list) : i = 1 \/ i - 1 \in DOMAIN list
  BY <1>1, <1>2
<1> QED  BY <1>2, <1>3, <1>4 DEF ListGood

LEMMA OthersCount ==
    ASSUME NEW list \in Seq(CacheEntries), NEW P \in SUBSET (DOMAIN list)
    PROVE  /\ Cardinality(DOMAIN list \ P) = Len(list) - Cardinality(P)
           /\ Cardinality(P) \in Nat /\ Cardinality(P) <= Len(list)
<1>1. PICK n \in Nat : n = Len(list) /\ DOMAIN list = 1..n
  OBVIOUS
<1>2. P \in SUBSET (1..n)
  BY <1>1
<1> QED  BY <1>1, <1>2, SomeAndOthers

LEMMA ListMoved ==
    ASSUME NEW now, NEW replaced, NEW list, ListGood(list, now, replaced), NEW i \in DOMAIN list
    PROVE  /\ ListGood(MoveToHead(list, i), now, replaced)
           /\ Len(MoveToHead(list, i)) = Len(list)
           /\ SumCharges(MoveToHead(list, i)) = SumCharges(list)
<1>1. list \in Seq(CacheEntries) /\ list[i] \in CacheEntries /\ EntryGood(list[i], now, replaced)
  BY DEF ListGood
<1>2. PICK P, rest : P = DOMAIN list \ {i} /\ rest = EntriesAt(list, P)
  OBVIOUS
<1>3. ListGood(rest, now, replaced) /\ Len(rest) = Cardinality(P)
  BY <1>2, ListPart
<1>4. Cardinality(P) = Len(list) - Cardinality({i}) /\ Cardinality({i}) = 1
  BY <1>1, <1>2, OthersCount, FS_Singleton
<1>5. ListGood(<<list[i]>> \o rest, now, replaced) /\ Len(<<list[i]>> \o rest) = Len(rest) + 1
  BY <1>1, <1>3, ListHead
<1>6. SumCharges(<<list[i]>> \o rest) = SumCharges(<<list[i]>>) + SumCharges(rest)
  BY <1>1, <1>3, ChargesHead DEF ListGood
<1>7. SumCharges(<<list[i]>> \o rest) = SumCharges(list)
  <2>1. P \in SUBSET (DOMAIN list) /\ {i} \in SUBSET (DOMAIN list) /\ P \cap {i} = {} /\ P \cup {i} = DOMAIN list
    BY <1>2
  <2>2. SumCharges(rest) = Cardinality(ChargedAt(list, P)) /\ SumCharges(rest) \in Nat
    BY <1>1, <1>2, <2>1, ChargesOfPart
  <2>3. SumCharges(<<list[i]>>) = Cardinality(ChargedAt(list, {i})) /\ Cardinality(ChargedAt(list, {i})) \in Nat
    BY <1>1, <2>1, ChargesOfOne, ChargesFinite
  <2> QED  BY <1>1, <1>6, <2>1, <2>2, <2>3, ChargesApart, ChargesOfList
<1> QED  BY <1>1, <1>2, <1>3, <1>4, <1>5, <1>7 DEF MoveToHead

LEMMA NoneCharged ==
    ASSUME NEW list \in Seq(CacheEntries), Len(list) = 0
    PROVE  SumCharges(list) = 0
<1>1. DOMAIN list = {}
  OBVIOUS
<1> QED  BY <1>1, FS_EmptySet DEF SumCharges

\* Eviction at the tail leaves a list within both limits: an empty one is.
LEMMA EvictToLimitsKeeps ==
    ASSUME NEW now, NEW replaced, NEW list, ListGood(list, now, replaced), NEW used,
           used = SumCharges(list), EvictToLimits(list, used)
    PROVE  ListGood(cacheList', now, replaced) /\ AccountsGood'
<1>1. list \in Seq(CacheEntries) /\ Len(list) \in Nat
  BY DEF ListGood
<1>2. PICK S : S = {n \in 0..Len(list) :
                      \/ n = 0
                      \/ /\ n <= CacheMaxEntries
                         /\ used - SumCharges(SubSeq(list, n + 1, Len(list))) <= CacheMaxBytes}
  OBVIOUS
<1>3. PICK n : n = Max(S)
  OBVIOUS
<1>4. n = Kept(list, used)
  BY <1>2, <1>3 DEF Kept
<1>5. n \in S
  <2>1. S \in SUBSET (0..Len(list)) /\ 0 \in S
    BY <1>1, <1>2
  <2> QED  BY <1>1, <1>3, <2>1, MaxIsMember
<1>6. n \in Nat /\ n <= Len(list)
  BY <1>1, <1>2, <1>5
<1>7. PICK head, tail : head = SubSeq(list, 1, n) /\ tail = SubSeq(list, n + 1, Len(list))
  OBVIOUS
<1>8. /\ head \in Seq(CacheEntries) /\ Len(head) = n
      /\ \A i \in 1..n : head[i] = list[i]
  BY <1>1, <1>6, <1>7
<1>9. SumCharges(list) = SumCharges(head) + SumCharges(tail)
  BY <1>1, <1>6, <1>7, ChargesSplitAt
<1>10. SumCharges(head) \in Nat /\ SumCharges(tail) \in Nat
  <2>1. tail \in Seq(CacheEntries)
    BY <1>1, <1>6, <1>7
  <2> QED  BY <1>8, <2>1, ChargesOfList
<1>12. used - SumCharges(tail) = SumCharges(head)
  BY <1>9, <1>10
<1>13. cacheList' = head /\ cacheCount' = n /\ cacheUsed' = used - SumCharges(tail)
  BY <1>4, <1>7 DEF EvictToLimits
<1>14. AccountsGood'
  <2>1. CacheMaxEntries \in Nat /\ CacheMaxBytes \in Nat
    BY CacheConstants DEF CacheConstants
  <2>2. CASE n = 0
    <3>1. SumCharges(head) = 0
      BY <1>8, <2>2, NoneCharged
    <3> QED  BY <1>8, <1>12, <1>13, <2>1, <2>2, <3>1 DEF AccountsGood
  <2>3. CASE n # 0
    <3>1. n <= CacheMaxEntries /\ used - SumCharges(tail) <= CacheMaxBytes
      BY <1>2, <1>5, <1>7, <2>3
    <3> QED  BY <1>8, <1>12, <1>13, <3>1 DEF AccountsGood
  <2> QED  BY <2>2, <2>3
<1>15. ListGood(head, now, replaced)
  BY <1>1, <1>6, <1>8 DEF ListGood
<1> QED  BY <1>13, <1>14, <1>15

\* Some entries are removed, with what was charged for them.
LEMMA RemovedKeeps ==
    ASSUME NEW now, NEW replaced, ListGood(cacheList, now, replaced), AccountsGood,
           NEW P \in SUBSET (DOMAIN cacheList), NEW rest, rest = EntriesAt(cacheList, DOMAIN cacheList \ P),
           NEW used, used = cacheUsed - SumCharges(EntriesAt(cacheList, P))
    PROVE  /\ ListGood(rest, now, replaced) /\ Len(rest) = cacheCount - Cardinality(P)
           /\ Cardinality(P) \in Nat /\ cacheCount \in Nat /\ Cardinality(P) <= cacheCount
           /\ used = SumCharges(rest) /\ used \in Nat /\ used <= CacheMaxBytes
<1>1. cacheList \in Seq(CacheEntries) /\ Len(cacheList) \in Nat /\ cacheCount = Len(cacheList)
  BY DEF ListGood, AccountsGood
<1>2. ListGood(rest, now, replaced) /\ Len(rest) = Cardinality(DOMAIN cacheList \ P)
  BY ListPart
<1>3. PICK gone : gone = EntriesAt(cacheList, P)
  OBVIOUS
<1>4. ListGood(gone, now, replaced) /\ Len(gone) = Cardinality(P)
  BY <1>3, ListPart
<1>5. /\ Cardinality(DOMAIN cacheList \ P) = Len(cacheList) - Cardinality(P)
      /\ Cardinality(P) \in Nat /\ Cardinality(P) <= Len(cacheList)
  BY <1>1, OthersCount
<1>6. SumCharges(cacheList) = SumCharges(rest) + SumCharges(gone) /\ SumCharges(rest) \in Nat /\ SumCharges(gone) \in Nat
  <2>1. PICK Q : Q = DOMAIN cacheList \ P
    OBVIOUS
  <2>2. Q \in SUBSET (DOMAIN cacheList) /\ Q \cap P = {} /\ Q \cup P = DOMAIN cacheList
    BY <2>1
  <2>3. /\ SumCharges(rest) = Cardinality(ChargedAt(cacheList, Q)) /\ SumCharges(rest) \in Nat
        /\ SumCharges(gone) = Cardinality(ChargedAt(cacheList, P)) /\ SumCharges(gone) \in Nat
    BY <1>1, <1>3, <2>1, <2>2, ChargesOfPart
  <2>4. Cardinality(ChargedAt(cacheList, Q \cup P)) =
            Cardinality(ChargedAt(cacheList, Q)) + Cardinality(ChargedAt(cacheList, P))
    BY <1>1, <2>2, ChargesApart
  <2> QED  BY <1>1, <2>2, <2>3, <2>4, ChargesOfList
<1>7. used = SumCharges(rest) /\ used \in Nat /\ used <= CacheMaxBytes
  <2>1. CacheMaxBytes \in Nat /\ cacheUsed = SumCharges(cacheList) /\ cacheUsed <= CacheMaxBytes
    BY CacheConstants DEF CacheConstants, AccountsGood
  <2> QED  BY <1>3, <1>6, <2>1
<1> QED  BY <1>1, <1>2, <1>5, <1>7

LEMMA HttpCacheInvalidateKeeps ==
    ASSUME NEW now, NEW replaced, ListGood(cacheList, now, replaced), AccountsGood,
           NEW req, HttpCacheInvalidateForRequest(req)
    PROVE  ListGood(cacheList', now, replaced) /\ AccountsGood'
<1>1. PICK same \in SUBSET (DOMAIN cacheList) : same = {k \in DOMAIN cacheList : cacheList[k].url = req.url}
  OBVIOUS
<1>2. /\ cacheList' = EntriesAt(cacheList, DOMAIN cacheList \ same)
      /\ cacheCount' = cacheCount - Cardinality(same)
      /\ cacheUsed' = cacheUsed - SumCharges(EntriesAt(cacheList, same))
  BY <1>1 DEF HttpCacheInvalidateForRequest
<1>3. /\ ListGood(cacheList', now, replaced) /\ Len(cacheList') = cacheCount - Cardinality(same)
      /\ Cardinality(same) \in Nat /\ cacheCount \in Nat
      /\ cacheUsed' = SumCharges(cacheList') /\ cacheUsed' <= CacheMaxBytes
  BY <1>2, RemovedKeeps
<1>4. CacheMaxEntries \in Nat
  BY CacheConstants DEF CacheConstants
<1> QED  BY <1>2, <1>3, <1>4 DEF AccountsGood

----------------------------------------
(* Storing a response *)

\* The entry a response makes is of the version the response is of.
LEMMA NewEntryGood ==
    ASSUME OriginGood, NEW req, NEW resp, RespGood(req, resp, cacheNow, originReplaced),
           req.method = "GET", req.url \in CacheUrls, req.variant \in CacheVariants,
           resp.status \in {200, 206}
    PROVE  NewEntry(req, resp) \in CacheEntries /\ EntryGood(NewEntry(req, resp), cacheNow, originReplaced)
<1>1. PICK v \in CacheVersions :
         OfVersion(resp.body, DOMAIN resp.body, resp.form # "parts", resp.etag, resp.date,
                   req.url, req.variant, v, originReplaced)
  BY DEF RespGood
<1>2. \A q \in Offsets : Byte(req.url, req.variant, v, q) \in CacheBytes
  BY <1>1 DEF CacheBytes
<1>3. Positions \in SUBSET Offsets /\ Unwritten \in CacheBytes
  BY PositionsFinite DEF Positions, Offsets, CacheBytes
<1>4. PICK e : e = NewEntry(req, resp)
  OBVIOUS
<1>5. /\ e.url = req.url /\ e.vary = req.variant /\ e.etag = resp.etag /\ e.date = resp.date
      /\ e.storedAt = cacheNow /\ e.status = resp.status /\ e.partial = Placed(resp)
  BY <1>4 DEF NewEntry
<1>6. /\ e.ranges \in Seq(SUBSET Positions) /\ e.body \in CacheBodies
      /\ OfVersion(e.body, Written(e), ~Misfiled(e), e.etag, e.date, e.url, e.vary, v, originReplaced)
      /\ Misfiled(e) \/ DOMAIN e.body = Positions
  <2>1. CASE Placed(resp)
    <3>1. PICK D : D = DOMAIN resp.body /\ D \in SUBSET Positions
      BY <2>1 DEF RespGood
    <3>2. e.ranges = <<D>> /\ e.body = [p \in Positions |-> IF p \in D THEN resp.body[p] ELSE Unwritten]
      BY <1>4, <2>1, <3>1 DEF NewEntry
    <3>3. Written(e) = D /\ resp.form # "parts"
      <4>1. DOMAIN e.ranges = {1} /\ e.ranges[1] = D
        BY <3>2
      <4>2. UNION {e.ranges[i] : i \in DOMAIN e.ranges} = D
        BY <4>1
      <4> QED  BY <1>5, <2>1, <4>2 DEF Written, Placed
    <3>4. \A p \in D : e.body[p] = Byte(req.url, req.variant, v, p) /\ p \in Offsets
      BY <1>1, <1>3, <3>1, <3>2, <3>3 DEF OfVersion
    <3>5. e.body \in [Positions -> CacheBytes]
      <4>1. \A p \in Positions : e.body[p] \in CacheBytes
        BY <1>2, <1>3, <3>2, <3>4
      <4> QED  BY <3>2, <4>1
    <3>6. e.ranges \in Seq(SUBSET Positions)
      BY <3>1, <3>2
    <3>7. OfVersion(e.body, Written(e), ~Misfiled(e), e.etag, e.date, e.url, e.vary, v, originReplaced)
      BY <1>1, <1>5, <3>3, <3>4 DEF OfVersion
    <3> QED  BY <1>3, <3>2, <3>5, <3>6, <3>7 DEF CacheBodies
  <2>2. CASE ~Placed(resp)
    <3>1. PICK D : D = DOMAIN resp.body /\ D \in SUBSET Offsets /\ D # {}
      <4>1. DOMAIN resp.body # {}
        <5>1. 0 \in Positions
          BY PositionsFinite DEF Positions
        <5> QED  BY <5>1 DEF RespGood
      <4>2. DOMAIN resp.body \in SUBSET Offsets
        BY <2>2 DEF RespGood
      <4> QED  BY <4>1, <4>2
    <3>2. PICK f : f = Min(D) /\ f \in D /\ f \in Nat
      <4>1. D \in SUBSET Nat
        BY <3>1 DEF Offsets
      <4> QED  BY <3>1, <4>1, MinIsMember
    <3>3. PICK E : E = {p - f : p \in D}
      OBVIOUS
    <3>4. e.ranges = <<>> /\ e.body = [k \in E |-> resp.body[f + k]] /\ ~e.partial
      BY <1>4, <1>5, <2>2, <3>1, <3>2, <3>3 DEF NewEntry, AsReceived
    <3>5. \A k \in E : k \in Offsets /\ f + k \in D
      <4>1. ASSUME NEW p \in D PROVE p - f \in Offsets /\ f + (p - f) \in D
        <5>1. f <= p
          <6>1. D \in SUBSET Nat
            BY <3>1 DEF Offsets
          <6>2. PICK t \in D : \A u \in D : t <= u
            BY <3>1, <6>1, LeastNatural
          <6> QED  BY <3>2, <6>2 DEF Min
        <5>2. p \in Nat /\ p <= CacheLength /\ CacheLength \in Nat
          BY <3>1, PositionsFinite DEF Offsets
        <5> QED  BY <3>2, <5>1, <5>2 DEF Offsets
      <4> QED  BY <3>3, <4>1
    <3>6. \A k \in E : \E q \in Offsets : e.body[k] = Byte(req.url, req.variant, v, q)
      BY <1>1, <3>1, <3>4, <3>5 DEF OfVersion
    <3>7. e.body \in [E -> CacheBytes] /\ E \in SUBSET Offsets /\ Written(e) = E
      <4>1. \A k \in E : e.body[k] \in CacheBytes
        BY <1>2, <3>6
      <4> QED  BY <3>4, <3>5, <4>1 DEF Written
    <3>8. CASE Misfiled(e)
      BY <1>1, <1>5, <3>4, <3>6, <3>7, <3>8 DEF OfVersion, CacheBodies
    <3>9. CASE ~Misfiled(e)
      <4>1. resp.status = 200
        BY <1>5, <2>2, <3>4, <3>9 DEF Misfiled
      <4>2. D = Positions /\ resp.form # "parts"
        BY <3>1, <4>1 DEF RespGood
      <4>3. f = 0
        <5>1. 0 \in D /\ D \in SUBSET Nat
          BY <4>2, PositionsFinite DEF Positions
        <5>2. PICK t \in D : \A u \in D : t <= u
          BY <5>1, LeastNatural
        <5>3. \A u \in D : f <= u
          BY <3>2, <5>2 DEF Min
        <5> QED  BY <3>2, <5>1, <5>3
      <4>4. E = Positions
        <5>1. \A p \in D : p - f = p
          BY <3>1, <4>3 DEF Offsets
        <5> QED  BY <3>3, <4>2, <5>1
      <4>5. \A k \in E : e.body[k] = Byte(req.url, req.variant, v, k) /\ k \in Offsets
        <5>1. \A k \in E : f + k = k /\ k \in D
          BY <3>1, <4>2, <4>3, <4>4 DEF Offsets
        <5> QED  BY <1>1, <3>1, <3>4, <3>5, <4>2, <5>1 DEF OfVersion
      <4>6. OfVersion(e.body, Written(e), ~Misfiled(e), e.etag, e.date, e.url, e.vary, v, originReplaced)
        BY <1>1, <1>5, <3>7, <4>5 DEF OfVersion
      <4>7. e.body \in CacheBodies /\ e.ranges \in Seq(SUBSET Positions)
        BY <3>4, <3>7 DEF CacheBodies
      <4> QED  BY <3>4, <4>4, <4>6, <4>7
    <3> QED  BY <3>8, <3>9
  <2> QED  BY <2>1, <2>2
<1>7. resp.etag \in CacheTags /\ resp.control \in Controls /\ resp.date \in Nat /\ cacheNow \in Nat
      /\ resp.date <= cacheNow
  BY DEF RespGood, OriginGood
<1>8. e \in CacheEntries
  <2>1. e = [method |-> req.method, url |-> req.url, vary |-> req.variant, etag |-> resp.etag,
             control |-> resp.control, date |-> resp.date, storedAt |-> cacheNow,
             status |-> resp.status, partial |-> Placed(resp), ranges |-> e.ranges, body |-> e.body]
    BY <1>4 DEF NewEntry
  <2>2. Placed(resp) \in BOOLEAN
    BY DEF Placed
  <2> QED  BY <1>6, <1>7, <2>1, <2>2 DEF CacheEntries
<1> QED  BY <1>4, <1>5, <1>6, <1>7, <1>8 DEF EntryGood

\* Two partial responses with one entity tag are of one version.
LEMMA CombinedGood ==
    ASSUME OriginGood, NEW req, NEW resp, RespGood(req, resp, cacheNow, originReplaced),
           NEW e \in CacheEntries, EntryGood(e, cacheNow, originReplaced), Combines(e, req, resp)
    PROVE  /\ Combined(e, resp) \in CacheEntries /\ EntryGood(Combined(e, resp), cacheNow, originReplaced)
           /\ DOMAIN Combined(e, resp).body = DOMAIN e.body
<1>1. PICK v \in CacheVersions :
         OfVersion(resp.body, DOMAIN resp.body, resp.form # "parts", resp.etag, resp.date,
                   req.url, req.variant, v, originReplaced)
  BY DEF RespGood
<1>2. PICK w \in CacheVersions :
         OfVersion(e.body, Written(e), ~Misfiled(e), e.etag, e.date, e.url, e.vary, w, originReplaced)
  BY DEF EntryGood
<1>3. /\ e.url = req.url /\ e.vary = req.variant /\ e.partial /\ e.etag # NoTag /\ e.etag = resp.etag
      /\ resp.form # "parts" /\ DOMAIN resp.body \in SUBSET Positions
      /\ ~Misfiled(e) /\ DOMAIN e.body = Positions
  BY DEF Combines, Matches, SameValidator, Placed, RespGood, Misfiled, EntryGood
<1>4. v = w
  BY <1>1, <1>2, <1>3 DEF OfVersion, Tag
<1>5. PICK body : body = [p \in Positions |-> IF p \in DOMAIN resp.body THEN resp.body[p] ELSE e.body[p]]
  OBVIOUS
<1>6. PICK ranges : ranges = Append(e.ranges, DOMAIN resp.body)
  OBVIOUS
<1>7. e.url \in CacheUrls /\ e.vary \in CacheVariants /\ e.ranges \in Seq(SUBSET Positions)
      /\ e.body \in [Positions -> CacheBytes]
  BY <1>3 DEF CacheEntries, CacheBodies
<1>8. \A p \in Positions : p \in Offsets /\ Byte(e.url, e.vary, v, p) \in CacheBytes
  <2>1. \A p \in Positions : p \in Offsets
    BY PositionsFinite DEF Positions, Offsets
  <2> QED  BY <1>1, <1>7, <2>1 DEF CacheBytes
<1>9. \A p \in DOMAIN resp.body : p \in Positions /\ body[p] = Byte(e.url, e.vary, v, p)
  BY <1>1, <1>3, <1>5 DEF OfVersion
<1>10. body \in [Positions -> CacheBytes] /\ body \in CacheBodies
  <2>1. body \in [Positions -> CacheBytes]
    BY <1>5, <1>7, <1>8, <1>9
  <2> QED  BY <1>8, <2>1 DEF CacheBodies
<1>11. /\ ranges \in Seq(SUBSET Positions)
       /\ DOMAIN ranges = DOMAIN e.ranges \cup {Len(e.ranges) + 1}
       /\ \A i \in DOMAIN e.ranges : ranges[i] = e.ranges[i]
       /\ ranges[Len(e.ranges) + 1] = DOMAIN resp.body
  BY <1>3, <1>6, <1>7
<1>12. PICK c : c = Combined(e, resp)
  OBVIOUS
<1>13. c = [e EXCEPT !.ranges = ranges, !.body = body]
  BY <1>5, <1>6, <1>12 DEF Combined
<1>14. c \in CacheEntries
  BY <1>10, <1>11, <1>13 DEF CacheEntries
<1>15. /\ c.partial = e.partial /\ c.etag = e.etag /\ c.date = e.date /\ c.url = e.url /\ c.vary = e.vary
       /\ c.storedAt = e.storedAt /\ c.ranges = ranges /\ c.body = body
  BY <1>13 DEF CacheEntries
<1>16. \A p \in Written(c) : p \in Written(e) \/ p \in DOMAIN resp.body
  BY <1>3, <1>11, <1>15 DEF Written
<1>17. \A p \in Written(e) : p \in Positions
  BY <1>3, <1>7 DEF Written
<1>18. \A p \in Written(c) : p \in Offsets /\ c.body[p] = Byte(e.url, e.vary, v, p)
  <2>1. ASSUME NEW p \in Written(c) PROVE p \in Positions /\ c.body[p] = Byte(e.url, e.vary, v, p)
    <3>1. CASE p \in DOMAIN resp.body
      BY <1>9, <1>15, <3>1
    <3>2. CASE p \notin DOMAIN resp.body
      <4>1. p \in Written(e) /\ p \in Positions
        BY <1>16, <1>17, <2>1, <3>2
      <4> QED  BY <1>2, <1>3, <1>4, <1>5, <1>15, <3>2, <4>1 DEF OfVersion
    <3> QED  BY <3>1, <3>2
  <2> QED  BY <1>8, <2>1
<1>19. OfVersion(c.body, Written(c), ~Misfiled(c), c.etag, c.date, c.url, c.vary, v, originReplaced)
  BY <1>2, <1>4, <1>15, <1>18 DEF OfVersion
<1>20. DOMAIN c.body = Positions
  BY <1>10, <1>15
<1> QED  BY <1>1, <1>3, <1>12, <1>14, <1>15, <1>19, <1>20 DEF EntryGood

LEMMA HttpCacheStoreKeeps ==
    ASSUME OriginGood, NEW req, NEW resp, RespGood(req, resp, cacheNow, originReplaced),
           req.method = "GET", req.url \in CacheUrls, req.variant \in CacheVariants,
           resp.status \in {200, 206},
           ListGood(cacheList, cacheNow, originReplaced), AccountsGood,
           HttpCacheStoreResponse(req, resp)
    PROVE  ListGood(cacheList', cacheNow, originReplaced) /\ AccountsGood'
<1>1. cacheList \in Seq(CacheEntries) /\ DOMAIN cacheList = 1..Len(cacheList) /\ Len(cacheList) \in Nat
  BY DEF ListGood
<1>2. PICK hits : hits = {k \in 1..Len(cacheList) : Combines(cacheList[k], req, resp)}
  OBVIOUS
<1>3. PICK i : i = IF hits = {} THEN 0 ELSE Min(hits)
  OBVIOUS
<1>4. i \in Nat /\ (i # 0 => i \in DOMAIN cacheList /\ Combines(cacheList[i], req, resp))
  <2>1. hits \in SUBSET Nat
    BY <1>2
  <2>2. hits # {} => i \in hits
    BY <1>3, <2>1, MinIsMember
  <2> QED  BY <1>1, <1>2, <1>3, <2>2
<1>5. PICK gone \in SUBSET (DOMAIN cacheList) :
         gone = {k \in DOMAIN cacheList : Matches(cacheList[k], req) /\ (i > 0 => k < i)}
  OBVIOUS
<1>6. PICK kept, used : /\ used = cacheUsed - SumCharges(EntriesAt(cacheList, gone))
                        /\ kept = EntriesAt(cacheList, DOMAIN cacheList \ (gone \cup {i}))
  OBVIOUS
<1>7. IF TooLong(resp)
      THEN UNCHANGED cacheStore
      ELSE IF i > 0
      THEN /\ cacheList' = <<Combined(cacheList[i], resp)>> \o kept
           /\ cacheCount' = cacheCount - Cardinality(gone)
           /\ cacheUsed' = used
      ELSE EvictToLimits(<<NewEntry(req, resp)>> \o kept, used + SumCharges(<<NewEntry(req, resp)>>))
  BY <1>2, <1>3, <1>5, <1>6 DEF HttpCacheStoreResponse, FirstEntry
<1>8. PICK rest : rest = EntriesAt(cacheList, DOMAIN cacheList \ gone)
  OBVIOUS
<1>9. /\ ListGood(rest, cacheNow, originReplaced) /\ Len(rest) = cacheCount - Cardinality(gone)
      /\ Cardinality(gone) \in Nat /\ cacheCount \in Nat /\ Cardinality(gone) <= cacheCount
      /\ used = SumCharges(rest) /\ used <= CacheMaxBytes
  BY <1>6, <1>8, RemovedKeeps
<1>10. CASE i > 0 /\ ~TooLong(resp)
  <2>1. cacheList[i] \in CacheEntries /\ EntryGood(cacheList[i], cacheNow, originReplaced)
    BY <1>4, <1>10 DEF ListGood
  <2>2. PICK e : e = Combined(cacheList[i], resp)
    OBVIOUS
  <2>3. e \in CacheEntries /\ EntryGood(e, cacheNow, originReplaced) /\ DOMAIN e.body = DOMAIN cacheList[i].body
    BY <1>4, <1>10, <2>1, <2>2, CombinedGood
  <2>4. PICK out \in SUBSET (DOMAIN cacheList) : out = gone \cup {i}
    <3>1. i \in DOMAIN cacheList
      BY <1>4, <1>10
    <3>2. gone \cup {i} \in SUBSET (DOMAIN cacheList)
      BY <3>1
    <3> QED  BY <3>2
  <2>5. i \notin gone /\ IsFiniteSet(gone)
    <3>1. i \notin gone
      BY <1>4, <1>5, <1>10
    <3> QED  BY <1>1, <3>1, SomeAndOthers
  <2>6. Cardinality(out) = Cardinality(gone) + 1
    BY <2>4, <2>5, FS_AddElement
  <2>7. /\ ListGood(kept, cacheNow, originReplaced) /\ Len(kept) = cacheCount - Cardinality(out)
    BY <1>6, <2>4, RemovedKeeps
  <2>8. /\ ListGood(<<e>> \o kept, cacheNow, originReplaced)
        /\ Len(<<e>> \o kept) = Len(kept) + 1
    BY <2>3, <2>7, ListHead
  <2>9. cacheList' = <<e>> \o kept /\ cacheCount' = cacheCount - Cardinality(gone) /\ cacheUsed' = used
    BY <1>7, <1>10, <2>2
  <2>10. Len(cacheList') = Len(rest)
    BY <1>9, <2>6, <2>7, <2>8, <2>9
  <2>11. PICK P \in SUBSET (DOMAIN cacheList) :
            P = DOMAIN cacheList \ out /\ P \cup {i} = DOMAIN cacheList \ gone /\ P \cap {i} = {}
    <3>1. i \in DOMAIN cacheList /\ i \notin gone
      BY <1>4, <1>10, <2>5
    <3>2. PICK P : P = DOMAIN cacheList \ out
      OBVIOUS
    <3>3. P \in SUBSET (DOMAIN cacheList) /\ P \cup {i} = DOMAIN cacheList \ gone /\ P \cap {i} = {}
      BY <2>4, <3>1, <3>2
    <3> QED  BY <3>2, <3>3
  <2>12. SumCharges(cacheList') = SumCharges(rest)
    <3>1. SumCharges(cacheList') = SumCharges(<<e>>) + SumCharges(kept)
      BY <2>3, <2>7, <2>9, ChargesHead DEF ListGood
    <3>2. /\ SumCharges(kept) = Cardinality(ChargedAt(cacheList, P)) /\ SumCharges(kept) \in Nat
          /\ SumCharges(rest) = Cardinality(ChargedAt(cacheList, P \cup {i}))
      BY <1>1, <1>6, <1>8, <2>4, <2>11, ChargesOfPart
    <3>3. {i} \in SUBSET (DOMAIN cacheList) /\ SumCharges(<<e>>) = Cardinality(ChargedAt(cacheList, {i}))
      BY <1>1, <1>4, <1>10, <2>3, ChargesOfOne
    <3>4. SumCharges(<<e>>) \in Nat
      BY <1>1, <3>3, ChargesFinite
    <3> QED  BY <1>1, <2>11, <3>1, <3>2, <3>3, <3>4, ChargesApart
  <2>13. cacheCount <= CacheMaxEntries /\ CacheMaxEntries \in Nat
    BY CacheConstants DEF AccountsGood, CacheConstants
  <2> QED  BY <1>9, <2>8, <2>9, <2>10, <2>12, <2>13 DEF AccountsGood
<1>11. CASE TooLong(resp)
  BY <1>7, <1>11 DEF cacheStore, AccountsGood
<1>12. CASE ~(i > 0) /\ ~TooLong(resp)
  <2>1. i \notin DOMAIN cacheList
    BY <1>1, <1>12
  <2>2. kept = rest
    <3>1. DOMAIN cacheList \ (gone \cup {i}) = DOMAIN cacheList \ gone
      BY <2>1
    <3> QED  BY <1>6, <1>8, <3>1
  <2>3. PICK e : e = NewEntry(req, resp)
    OBVIOUS
  <2>4. e \in CacheEntries /\ EntryGood(e, cacheNow, originReplaced)
    BY <2>3, NewEntryGood
  <2>5. ListGood(<<e>> \o kept, cacheNow, originReplaced) /\ Len(<<e>> \o kept) = Len(kept) + 1
    BY <1>9, <2>2, <2>4, ListHead
  <2>6. used + SumCharges(<<e>>) = SumCharges(<<e>> \o kept)
    BY <1>9, <2>2, <2>4, ChargesHead DEF ListGood
  <2>7. EvictToLimits(<<e>> \o kept, used + SumCharges(<<e>>))
    BY <1>7, <1>12, <2>3
  <2> QED  BY <2>5, <2>6, <2>7, EvictToLimitsKeeps
<1> QED  BY <1>10, <1>11, <1>12

----------------------------------------
(* Callers and their answers *)

\* Nothing that was of a version stops being so when the version is replaced
\* or the clock goes on.
LEMMA LaterIsGood ==
    ASSUME NEW now \in Nat, NEW later \in Nat, now <= later, NEW replaced, NEW after,
           \A u \in CacheUrls, v \in CacheVersions, d \in Nat :
               d <= now /\ d <= replaced[<<u, v>>] => d <= after[<<u, v>>]
    PROVE  /\ \A list : ListGood(list, now, replaced) => ListGood(list, later, after)
           /\ \A req, resp : req.url \in CacheUrls /\ RespGood(req, resp, now, replaced) =>
                                 RespGood(req, resp, later, after)
           /\ \A call : CallGood(call, now, replaced) => CallGood(call, later, after)
<1>1. ASSUME NEW bytes, NEW filled, NEW placed, NEW tag, NEW d \in Nat, d <= now, NEW u \in CacheUrls, NEW x,
             NEW v \in CacheVersions, OfVersion(bytes, filled, placed, tag, d, u, x, v, replaced)
      PROVE  OfVersion(bytes, filled, placed, tag, d, u, x, v, after)
  BY <1>1 DEF OfVersion
<1>2. ASSUME NEW e \in CacheEntries, EntryGood(e, now, replaced)
      PROVE  EntryGood(e, later, after)
  <2>1. PICK v \in CacheVersions :
           OfVersion(e.body, Written(e), ~Misfiled(e), e.etag, e.date, e.url, e.vary, v, replaced)
    BY <1>2 DEF EntryGood
  <2>2. e.date \in Nat /\ e.storedAt \in Nat /\ e.url \in CacheUrls
    BY DEF CacheEntries
  <2>3. e.date <= e.storedAt /\ e.storedAt <= now
    BY <1>2 DEF EntryGood
  <2>4. e.date <= now /\ e.storedAt <= later
    BY <2>2, <2>3
  <2>5. OfVersion(e.body, Written(e), ~Misfiled(e), e.etag, e.date, e.url, e.vary, v, after)
    BY <1>1, <2>1, <2>2, <2>4
  <2> QED  BY <1>2, <2>3, <2>4, <2>5 DEF EntryGood
<1>3. ASSUME NEW list, ListGood(list, now, replaced)
      PROVE  ListGood(list, later, after)
  <2>1. list \in Seq(CacheEntries) /\ \A i \in DOMAIN list : EntryGood(list[i], now, replaced)
    BY <1>3 DEF ListGood
  <2>2. \A i \in DOMAIN list : list[i] \in CacheEntries
    BY <2>1
  <2>3. \A i \in DOMAIN list : EntryGood(list[i], later, after)
    BY <1>2, <2>1, <2>2
  <2> QED  BY <2>1, <2>3 DEF ListGood
<1>4. ASSUME NEW req, NEW resp, req.url \in CacheUrls, RespGood(req, resp, now, replaced)
      PROVE  RespGood(req, resp, later, after)
  <2>1. PICK v \in CacheVersions :
           OfVersion(resp.body, DOMAIN resp.body, resp.form # "parts", resp.etag, resp.date,
                     req.url, req.variant, v, replaced)
    BY <1>4 DEF RespGood
  <2>2. resp.date \in Nat /\ resp.date <= now
    BY <1>4 DEF RespGood
  <2>3. OfVersion(resp.body, DOMAIN resp.body, resp.form # "parts", resp.etag, resp.date,
                  req.url, req.variant, v, after)
    BY <1>1, <1>4, <2>1, <2>2
  <2>4. resp.date <= later
    BY <2>2
  <2> QED  BY <1>4, <2>3, <2>4 DEF RespGood
<1>5. ASSUME NEW call, CallGood(call, now, replaced)
      PROVE  CallGood(call, later, after)
  BY <1>4, <1>5 DEF CallGood
<1> QED  BY <1>3, <1>4, <1>5

LEMMA CallIs ==
    ASSUME NEW calls, calls = [c \in CacheCallers |-> calls[c]], NEW b \in CacheCallers, NEW call
    PROVE  /\ [calls EXCEPT ![b] = call] = [c \in CacheCallers |-> [calls EXCEPT ![b] = call][c]]
           /\ [calls EXCEPT ![b] = call][b] = call
           /\ \A c \in CacheCallers : c # b => [calls EXCEPT ![b] = call][c] = calls[c]
OBVIOUS

\* One caller moves on, the others stay.
LEMMA CallMovesOn ==
    ASSUME CallsGood, UNCHANGED <<cacheNow, originReplaced>>, NEW c \in CacheCallers, NEW call,
           cacheCall' = [cacheCall EXCEPT ![c] = call], CallGood(call, cacheNow, originReplaced)
    PROVE  CallsGood'
<1>1. /\ cacheCall' = [b \in CacheCallers |-> cacheCall'[b]]
      /\ cacheCall'[c] = call
      /\ \A b \in CacheCallers : b # c => cacheCall'[b] = cacheCall[b]
  BY CallIs DEF CallsGood
<1>2. \A b \in CacheCallers : CallGood(cacheCall'[b], cacheNow, originReplaced)
  BY <1>1 DEF CallsGood
<1> QED  BY <1>1, <1>2 DEF CallsGood

\* An answer of one version, current as far as it has to be.
LEMMA FinishKeeps ==
    ASSUME OriginGood, CallsGood, UNCHANGED <<cacheNow, originReplaced>>, NEW c \in CacheCallers,
           NEW req, NEW status, NEW source, NEW body, Finish(c, req, status, source, body),
           NEW v \in CacheVersions,
           status = 200 => DOMAIN body = Positions,
           \A p \in DOMAIN body :
              /\ \E q \in Offsets : /\ body[p] = Byte(req.url, req.variant, v, q)
                                    /\ source \in {"cache", "validated"} => q = p
              /\ source \in {"cache", "misfiled"} /\ req.directive # "max-stale" =>
                    originReplaced[<<req.url, v>>] > cacheNow - CacheLifetime
    PROVE  CallsGood' /\ AnswerGood'
<1>1. CallsGood'
  <2>1. CallGood(CacheIdle, cacheNow, originReplaced)
    BY DEF CallGood, CacheIdle
  <2> QED  BY <2>1, CallMovesOn DEF Finish
<1>2. cacheAnswer' = [status |-> status, source |-> source, body |-> body, url |-> req.url,
                      variant |-> req.variant, stale |-> req.directive = "max-stale"]
  BY DEF Finish
<1>3. /\ cacheAnswer'.source = source /\ cacheAnswer'.status = status /\ cacheAnswer'.body = body
      /\ cacheAnswer'.url = req.url /\ cacheAnswer'.variant = req.variant
      /\ cacheAnswer'.stale = (req.directive = "max-stale")
  BY <1>2
<1>4. ServedBytesAreOneVersion'
  BY <1>3 DEF ServedBytesAreOneVersion, CacheVersions, Byte
<1>5. FreshAnswersWereCurrent'
  <2>1. ASSUME source \in {"cache", "misfiled"}, req.directive # "max-stale", NEW p \in DOMAIN body
        PROVE  originReplaced[<<req.url, body[p][3]>>] > cacheNow - CacheLifetime
    <3>1. body[p][3] = v
      BY DEF Byte
    <3> QED  BY <2>1, <3>1
  <2> QED  BY <1>3, <2>1 DEF FreshAnswersWereCurrent
<1> QED  BY <1>1, <1>4, <1>5 DEF AnswerGood

\* An answer without a body.
LEMMA EmptyAnswerKeeps ==
    ASSUME OriginGood, CallsGood, UNCHANGED <<cacheNow, originReplaced>>, NEW c \in CacheCallers,
           NEW req, NEW status, status # 200, NEW source, Finish(c, req, status, source, << >>)
    PROVE  CallsGood' /\ AnswerGood'
<1>1. PICK body : body = << >> /\ DOMAIN body = {}
  OBVIOUS
<1>2. 0 \in CacheVersions /\ Finish(c, req, status, source, body)
  BY <1>1, CacheConstants DEF CacheConstants, CacheVersions
<1>3. \A p \in DOMAIN body :
         /\ \E q \in Offsets : /\ body[p] = Byte(req.url, req.variant, 0, q)
                               /\ source \in {"cache", "validated"} => q = p
         /\ source \in {"cache", "misfiled"} /\ req.directive # "max-stale" =>
               originReplaced[<<req.url, 0>>] > cacheNow - CacheLifetime
  BY <1>1
<1> QED  BY <1>2, <1>3, FinishKeeps

LEMMA NoAnswerKeeps ==
    ASSUME cacheAnswer' = NoAnswer
    PROVE  AnswerGood'
<1>1. cacheAnswer'.source = "none" /\ cacheAnswer'.status = 0 /\ cacheAnswer'.body = << >>
  BY DEF NoAnswer
<1>2. DOMAIN cacheAnswer'.body = {}
  BY <1>1
<1>3. 0 \in 0..CacheMaxVersion
  BY CacheConstants DEF CacheConstants
<1>4. ServedBytesAreOneVersion'
  BY <1>1, <1>2, <1>3 DEF ServedBytesAreOneVersion
<1>5. FreshAnswersWereCurrent'
  BY <1>1 DEF FreshAnswersWereCurrent
<1> QED  BY <1>4, <1>5 DEF AnswerGood

LEMMA RequestsAre ==
    ASSUME NEW req \in Requests
    PROVE  /\ req.method \in {"GET", "POST"} /\ req.url \in CacheUrls /\ req.variant \in CacheVariants
           /\ req.range \in AllRanges
           /\ req = [method |-> req.method, url |-> req.url, variant |-> req.variant,
                     range |-> req.range, directive |-> req.directive]
<1>1. CASE req \in [method : {"GET"}, url : CacheUrls, variant : CacheVariants,
                    range : AllRanges, directive : CacheDirectives]
  BY <1>1
<1>2. CASE req \in [method : {"POST"}, url : CacheUrls, variant : CacheVariants,
                    range : {NoRange}, directive : {"default"}]
  BY <1>2 DEF AllRanges
<1> QED  BY <1>1, <1>2 DEF Requests

LEMMA AsksKeeps ==
    ASSUME CallsGood, UNCHANGED <<cacheNow, originReplaced>>, NEW c \in CacheCallers,
           NEW req \in Requests, NEW etag, Asks(c, req, etag)
    PROVE  CallsGood' /\ AnswerGood'
<1>1. PICK d : d = IF req.directive = "no-store" THEN req.directive ELSE "default"
  OBVIOUS
<1>2. PICK asked : asked = [req EXCEPT !.directive = d]
  OBVIOUS
<1>3. asked.method = req.method /\ asked.url = req.url /\ asked.variant = req.variant
      /\ asked.range = req.range
  BY <1>2, RequestsAre
<1>4. PICK call : call = [at |-> "sent", ifNoneMatch |-> etag, req |-> asked]
  OBVIOUS
<1>5. cacheCall' = [cacheCall EXCEPT ![c] = call] /\ cacheAnswer' = NoAnswer
  BY <1>1, <1>2, <1>4 DEF Asks
<1>6. CallGood(call, cacheNow, originReplaced)
  BY <1>3, <1>4, RequestsAre DEF CallGood
<1> QED  BY <1>5, <1>6, CallMovesOn, NoAnswerKeeps

\* What is served without asking was current less than its lifetime ago.
LEMMA ServedIsFresh ==
    ASSUME OriginGood, NEW e \in CacheEntries, NEW req, NEW v \in CacheVersions,
           req.directive # "max-stale", ~RequiresValidation(req, e), e.url \in CacheUrls,
           e.date <= originReplaced[<<e.url, v>>], e.storedAt <= cacheNow
    PROVE  originReplaced[<<e.url, v>>] > cacheNow - CacheLifetime
<1>1. e.date \in Nat /\ e.storedAt \in Nat /\ cacheNow \in Nat
  BY DEF CacheEntries, OriginGood
<1>2. CacheLifetime \in Nat
  BY CacheConstants DEF CacheConstants
<1>3. originReplaced[<<e.url, v>>] \in Nat
  BY DEF OriginGood
<1>4. PICK a \in Int, b \in Int : a = e.storedAt - e.date /\ b = cacheNow - e.storedAt
  BY <1>1
<1>5. PICK x \in Int, y \in Int : x = Max({0, a}) /\ y = Max({0, b}) /\ x >= a /\ y >= b
  BY MaxOfTwo
<1>6. CurrentAgeSeconds(e) = x + y
  BY <1>4, <1>5 DEF CurrentAgeSeconds
<1>7. FreshnessLifetimeSeconds(e) = CacheLifetime
  BY DEF RequiresValidation, FreshnessLifetimeSeconds
<1>8. ~(x + y >= CacheLifetime)
  BY <1>6, <1>7 DEF RequiresValidation
<1> QED  BY <1>1, <1>2, <1>3, <1>4, <1>5, <1>8

\* What a lookup serves was written, and by responses of one version.
LEMMA SnapshotIsWritten ==
    ASSUME NEW e \in CacheEntries, NEW req,
           HasRange(req) => RequestedRangeCovered(e, req.range), HasRange(req) \/ ~e.partial
    PROVE  \A p \in DOMAIN Snapshot(e, req) : p \in Written(e) /\ Snapshot(e, req)[p] = e.body[p]
<1>1. CASE ~HasRange(req)
  BY <1>1 DEF Snapshot, Written
<1>2. CASE HasRange(req)
  <2>1. PICK P : P = Concrete(req.range, BodyLength(e))
    OBVIOUS
  <2>2. Snapshot(e, req) = [p \in P |-> e.body[p]]
    BY <1>2, <2>1 DEF Snapshot
  <2>3. P \subseteq Written(e)
    BY <1>2, <2>1 DEF RequestedRangeCovered, RangeCovered, Written
  <2> QED  BY <2>2, <2>3
<1> QED  BY <1>1, <1>2

\* An answer that is made of an entry.
LEMMA AnswerOfEntry ==
    ASSUME OriginGood, CallsGood, UNCHANGED <<cacheNow, originReplaced>>, NEW c \in CacheCallers,
           NEW req, NEW e \in CacheEntries, EntryGood(e, cacheNow, originReplaced),
           e.url = req.url, e.vary = req.variant, NEW source \in {"cache", "validated"}, NEW body,
           \A p \in DOMAIN body : p \in Written(e) /\ body[p] = e.body[p],
           NEW status, status = 200 => status = e.status /\ body = e.body,
           source = "cache" => ~RequiresValidation(req, e),
           Finish(c, req, status, SourceOf(e, source), body)
    PROVE  CallsGood' /\ AnswerGood'
<1>1. PICK v \in CacheVersions :
         OfVersion(e.body, Written(e), ~Misfiled(e), e.etag, e.date, e.url, e.vary, v, originReplaced)
  BY DEF EntryGood
<1>2. PICK from : from = SourceOf(e, source)
  OBVIOUS
<1>3. /\ from \in {"cache", "validated"} => ~Misfiled(e)
      /\ from \in {"cache", "misfiled"} => source = "cache"
  BY <1>2 DEF SourceOf
<1>4. status = 200 => DOMAIN body = Positions
  BY DEF EntryGood, Misfiled
<1>5. \A p \in DOMAIN body : \E q \in Offsets :
         /\ body[p] = Byte(req.url, req.variant, v, q)
         /\ from \in {"cache", "validated"} => q = p
  BY <1>1, <1>3 DEF OfVersion
<1>6. source = "cache" /\ req.directive # "max-stale" =>
          originReplaced[<<req.url, v>>] > cacheNow - CacheLifetime
  <2>1. e.date <= originReplaced[<<e.url, v>>] /\ e.storedAt <= cacheNow /\ e.url \in CacheUrls
    BY <1>1 DEF OfVersion, EntryGood, CacheEntries
  <2> QED  BY <2>1, ServedIsFresh
<1>7. Finish(c, req, status, from, body)
  BY <1>2
<1> QED  BY <1>3, <1>4, <1>5, <1>6, <1>7, FinishKeeps

LEMMA SendStartsKeeps ==
    ASSUME CacheInv, NEW c \in CacheCallers, SendStarts(c)
    PROVE  CacheInv'
<1>1. PICK req \in Requests : HttpCacheLookup(c, req)
  BY DEF SendStarts
<1>2. /\ UNCHANGED <<cacheCount, cacheUsed, cacheNow, originVersion, originReplaced>>
      /\ OriginGood /\ ListGood(cacheList, cacheNow, originReplaced) /\ AccountsGood /\ CallsGood
  BY DEF SendStarts, cacheOrigin, CacheInv
<1>3. OriginGood'
  BY <1>2 DEF OriginGood
<1>4. cacheList \in Seq(CacheEntries) /\ DOMAIN cacheList = 1..Len(cacheList) /\ Len(cacheList) \in Nat
  BY <1>2 DEF ListGood
<1>5. PICK hits : hits = {k \in 1..Len(cacheList) :
                             /\ Matches(cacheList[k], req)
                             /\ HasRange(req) => RequestedRangeCovered(cacheList[k], req.range)}
  OBVIOUS
<1>6. PICK first : first = IF hits = {} THEN 0 ELSE Min(hits)
  OBVIOUS
<1>7. PICK i : i = IF req.directive \in {"no-store", "bypass"} \/ ~IsMethodSafeForCache(req) THEN 0 ELSE first
  OBVIOUS
<1>8. i \in Nat /\ (i # 0 => i \in hits)
  <2>1. hits \in SUBSET Nat
    BY <1>5
  <2>2. hits # {} => first \in hits
    BY <1>6, <2>1, MinIsMember
  <2> QED  BY <1>6, <1>7, <2>1, <2>2
<1>9. \/ /\ i = 0
         /\ IF req.directive = "only-if-cached" THEN Finish(c, req, 504, "cache", << >>)
            ELSE Asks(c, req, NoTag)
         /\ UNCHANGED cacheList
      \/ /\ i > 0
         /\ IF ~RequiresValidation(req, cacheList[i]) /\ (HasRange(req) \/ ~cacheList[i].partial)
            THEN /\ cacheList' = MoveToHead(cacheList, i)
                 /\ Finish(c, req, IF HasRange(req) THEN 206 ELSE cacheList[i].status,
                           SourceOf(cacheList[i], "cache"), Snapshot(cacheList[i], req))
            ELSE /\ UNCHANGED cacheList
                 /\ IF req.directive = "only-if-cached"
                    THEN Finish(c, req, 504, "cache", << >>)
                    ELSE Asks(c, req, cacheList[i].etag)
  <2>1. i = UsableEntry(req)
    BY <1>5, <1>6, <1>7 DEF UsableEntry, FirstEntry
  <2> QED  BY <1>1, <2>1 DEF HttpCacheLookup
<1>11. ASSUME UNCHANGED cacheList
       PROVE  ListGood(cacheList', cacheNow', originReplaced') /\ AccountsGood'
  BY <1>2, <1>11 DEF AccountsGood
<1>12. ASSUME Finish(c, req, 504, "cache", << >>)
       PROVE  CallsGood' /\ AnswerGood'
  <2>1. PICK status : status = 504 /\ status # 200
    OBVIOUS
  <2> QED  BY <1>2, <1>12, <2>1, EmptyAnswerKeeps
<1>13. ASSUME NEW etag, Asks(c, req, etag)
       PROVE  CallsGood' /\ AnswerGood'
  BY <1>2, <1>13, AsksKeeps
<1>14. CASE i = 0
  <2>1. UNCHANGED cacheList
        /\ (Finish(c, req, 504, "cache", << >>) \/ Asks(c, req, NoTag))
    BY <1>9, <1>14
  <2> QED  BY <1>3, <1>11, <1>12, <1>13, <2>1 DEF CacheInv
<1>15. CASE i > 0 /\ ~(~RequiresValidation(req, cacheList[i]) /\ (HasRange(req) \/ ~cacheList[i].partial))
  <2>1. UNCHANGED cacheList
        /\ (Finish(c, req, 504, "cache", << >>) \/ Asks(c, req, cacheList[i].etag))
    BY <1>9, <1>15
  <2> QED  BY <1>3, <1>11, <1>12, <1>13, <2>1 DEF CacheInv
<1>16. CASE i > 0 /\ ~RequiresValidation(req, cacheList[i]) /\ (HasRange(req) \/ ~cacheList[i].partial)
  <2>1. PICK e : e = cacheList[i]
    OBVIOUS
  <2>2. i \in DOMAIN cacheList /\ i \in hits
    BY <1>4, <1>5, <1>8, <1>16
  <2>3. e \in CacheEntries /\ EntryGood(e, cacheNow, originReplaced)
    BY <1>2, <2>1, <2>2 DEF ListGood
  <2>4. Matches(e, req) /\ (HasRange(req) => RequestedRangeCovered(e, req.range))
    BY <1>5, <2>1, <2>2
  <2>5. e.url = req.url /\ e.vary = req.variant
    BY <2>4 DEF Matches
  <2>6. PICK body, status, source :
           /\ body = Snapshot(e, req) /\ status = (IF HasRange(req) THEN 206 ELSE e.status)
           /\ source = "cache"
    OBVIOUS
  <2>7. status = 200 => status = e.status /\ body = e.body
    BY <2>6 DEF Snapshot
  <2>8. \A p \in DOMAIN body : p \in Written(e) /\ body[p] = e.body[p]
    BY <1>16, <2>1, <2>3, <2>4, <2>6, SnapshotIsWritten
  <2>9. Finish(c, req, status, SourceOf(e, source), body) /\ ~RequiresValidation(req, e)
    BY <1>9, <1>16, <2>1, <2>6
  <2>10. source \in {"cache", "validated"}
    BY <2>6
  <2>11. CallsGood' /\ AnswerGood'
    BY <1>2, <2>3, <2>5, <2>7, <2>8, <2>9, <2>10, AnswerOfEntry
  <2>12. cacheList' = MoveToHead(cacheList, i)
    BY <1>9, <1>16
  <2>13. ListGood(cacheList', cacheNow, originReplaced) /\ Len(cacheList') = Len(cacheList)
         /\ SumCharges(cacheList') = SumCharges(cacheList)
    BY <1>2, <2>2, <2>12, ListMoved
  <2>14. AccountsGood'
    BY <1>2, <2>13 DEF AccountsGood
  <2> QED  BY <1>2, <1>3, <2>11, <2>13, <2>14 DEF CacheInv
<1> QED  BY <1>8, <1>14, <1>15, <1>16

----------------------------------------
(* The origin answers *)

LEMMA RangeNotPost ==
    ASSUME NEW call, CallGood(call, cacheNow, originReplaced), call.at # "idle"
    PROVE  /\ call.req.method \in {"GET", "POST"} /\ call.req.url \in CacheUrls
           /\ call.req.variant \in CacheVariants
           /\ Concrete(call.req.range, CacheLength) \subseteq Positions
BY RangeInside DEF CallGood

\* Bytes that may go with a status: all of them are of version v.
Fits(req, v, status, bytes, form) ==
    /\ DOMAIN bytes \subseteq IF status = 206 /\ form = "placed" THEN Positions ELSE Offsets
    /\ status = 200 => DOMAIN bytes = Positions /\ form # "parts"
    /\ status = 206 => DOMAIN bytes # {}
    /\ req.method = "POST" => status \in {200, 500}
    /\ \A p \in DOMAIN bytes : \E q \in Offsets :
          bytes[p] = Byte(req.url, req.variant, v, q) /\ (form # "parts" => q = p)

\* An answer made at a time.
Replies(req, v, now, status, bytes, form, resp) ==
    /\ status \in {200, 206, 304, 500} /\ Fits(req, v, status, bytes, form)
    /\ \E control \in Controls :
          resp = [status |-> status, control |-> control, date |-> now, body |-> bytes,
                  form |-> form,
                  etag |-> IF control = "no-validator" THEN NoTag ELSE Tag(req.url, req.variant, v)]

\* It is good if the version has not been replaced before.
LEMMA ReplyIsGood ==
    ASSUME NEW now \in Nat, NEW replaced, NEW req, NEW v \in CacheVersions,
           req.url \in CacheUrls, req.variant \in CacheVariants, now <= replaced[<<req.url, v>>],
           NEW status, NEW bytes, NEW form, NEW resp, Replies(req, v, now, status, bytes, form, resp)
    PROVE  RespGood(req, resp, now, replaced)
<1>1. PICK control \in Controls :
         resp = [status |-> status, control |-> control, date |-> now, body |-> bytes,
                 form |-> form,
                 etag |-> IF control = "no-validator" THEN NoTag ELSE Tag(req.url, req.variant, v)]
  BY DEF Replies
<1>2. /\ resp.status = status /\ resp.control = control /\ resp.date = now /\ resp.body = bytes
      /\ resp.form = form
      /\ resp.etag = IF control = "no-validator" THEN NoTag ELSE Tag(req.url, req.variant, v)
  BY <1>1
<1>3. resp.etag \in CacheTags
  BY <1>2 DEF CacheTags
<1>4. OfVersion(resp.body, DOMAIN resp.body, resp.form # "parts", resp.etag, resp.date,
                req.url, req.variant, v, replaced)
  BY <1>2 DEF OfVersion, Replies, Fits
<1> QED  BY <1>2, <1>3, <1>4 DEF RespGood, Replies, Fits, Placed

\* Every answer of the origin is of the version that is current when it is made.
LEMMA OriginAnswersGood ==
    ASSUME OriginGood, CallsGood, NEW c \in CacheCallers, OriginAnswers(c)
    PROVE  LET req == cacheCall[c].req
               v == originVersion[req.url]
           IN  /\ \/ UNCHANGED <<originVersion, originReplaced>>
                  \/ /\ v < CacheMaxVersion
                     /\ originVersion' = [originVersion EXCEPT ![req.url] = v + 1]
                     /\ originReplaced' = [originReplaced EXCEPT ![<<req.url, v>>] = cacheNow]
               /\ \E status, bytes, form, resp :
                     /\ Replies(req, v, cacheNow, status, bytes, form, resp)
                     /\ cacheCall' = [cacheCall EXCEPT ![c] = [at |-> "answered", req |-> req, resp |-> resp]]
<1> DEFINE req == cacheCall[c].req
           v == originVersion[req.url]
           body == [p \in Positions |-> <<req.url, req.variant, v, p>>]
           parts == [p \in Offsets |-> <<req.url, req.variant, v, CacheLength>>]
           asked == Concrete(req.range, CacheLength)
           reply(status, control, bytes, form) ==
               [status |-> status, control |-> control, date |-> cacheNow, body |-> bytes,
                form |-> form,
                etag |-> IF control = "no-validator" THEN NoTag ELSE <<req.url, req.variant, v>>]
           answers(r) == cacheCall' = [cacheCall EXCEPT ![c] = [at |-> "answered", req |-> req, resp |-> r]]
           replies == \E s, b, f, resp : Replies(req, v, cacheNow, s, b, f, resp) /\ answers(resp)
<1>1. cacheCall[c].at = "sent" /\ CallGood(cacheCall[c], cacheNow, originReplaced)
  BY DEF OriginAnswers, CallsGood
<1>2. /\ req.method \in {"GET", "POST"} /\ asked \subseteq Positions
  BY <1>1, RangeNotPost
<1>3. \/ /\ req.method = "GET" /\ answers(reply(304, "max-age", << >>, "whole"))
         /\ UNCHANGED cacheOrigin
      \/ /\ req.method = "GET"
         /\ cacheCall[c].ifNoneMatch # <<req.url, req.variant, v>>
         /\ \E control \in CacheReplies :
               \/ answers(reply(200, control, body, "whole"))
               \/ /\ HasRange(req) /\ asked # {}
                  /\ \E form \in CacheForms \ {"parts"} :
                        answers(reply(206, control, [p \in asked |-> body[p]], form))
               \/ /\ req.range = SeveralRanges /\ "parts" \in CacheForms
                  /\ answers(reply(206, control, parts, "parts"))
         /\ UNCHANGED cacheOrigin
      \/ /\ req.method = "POST" /\ v < CacheMaxVersion
         /\ originVersion' = [originVersion EXCEPT ![req.url] = v + 1]
         /\ originReplaced' = [originReplaced EXCEPT ![<<req.url, v>>] = cacheNow]
         /\ answers(reply(200, "no-store", body, "whole"))
      \/ /\ answers(reply(500, "no-store", << >>, "whole"))
         /\ UNCHANGED cacheOrigin
  BY Zenon DEF OriginAnswers
<1>4. /\ Fits(req, v, 200, body, "whole") /\ Fits(req, v, 500, << >>, "whole")
      /\ req.method = "GET" =>
            /\ Fits(req, v, 304, << >>, "whole") /\ Fits(req, v, 206, parts, "parts")
            /\ asked # {} => \A form : form # "parts" => Fits(req, v, 206, [p \in asked |-> body[p]], form)
  <2>1. DOMAIN << >> = {} /\ DOMAIN body = Positions /\ DOMAIN parts = Offsets
    OBVIOUS
  <2>2. /\ \A p \in Positions : p \in Offsets /\ body[p] = Byte(req.url, req.variant, v, p)
        /\ CacheLength \in Offsets /\ \A p \in Offsets : parts[p] = Byte(req.url, req.variant, v, CacheLength)
    BY PositionsFinite DEF Byte, Positions, Offsets
  <2>3. \A p \in asked : [q \in asked |-> body[q]][p] = body[p] /\ p \in Positions
    BY <1>2
  <2> HIDE DEF body, parts, asked, req, v
  <2>4. Fits(req, v, 200, body, "whole")
    BY <2>1, <2>2 DEF Fits
  <2>5. Fits(req, v, 500, << >>, "whole") /\ (req.method = "GET" => Fits(req, v, 304, << >>, "whole"))
    BY <2>1 DEF Fits
  <2>6. req.method = "GET" => Fits(req, v, 206, parts, "parts")
    BY <2>1, <2>2 DEF Fits
  <2>7. ASSUME req.method = "GET", asked # {}, NEW form, form # "parts"
        PROVE  Fits(req, v, 206, [p \in asked |-> body[p]], form)
    BY <2>2, <2>3, <2>7 DEF Fits
  <2> QED  BY <2>4, <2>5, <2>6, <2>7
<1>5. CacheReplies \subseteq Controls /\ "max-age" \in Controls /\ "no-store" \in Controls
  BY CacheConstants DEF CacheConstants, Controls
<1>6. ASSUME NEW status \in {200, 206, 304, 500}, NEW control \in Controls, NEW bytes, NEW form,
             Fits(req, v, status, bytes, form), answers(reply(status, control, bytes, form))
      PROVE  replies
  <2>1. PICK resp : resp = reply(status, control, bytes, form)
    <3> HIDE DEF reply
    <3> QED  OBVIOUS
  <2>2. Replies(req, v, cacheNow, status, bytes, form, resp)
    BY <1>6, <2>1 DEF Replies, Tag
  <2> HIDE DEF reply, answers
  <2> QED  BY <1>6, <2>1, <2>2
<1>7. replies
  <2> HIDE DEF reply, answers, body, parts, asked, replies
  <2>1. CASE req.method = "GET" /\ answers(reply(304, "max-age", << >>, "whole"))
    BY <1>4, <1>5, <1>6, <2>1
  <2>2. CASE req.method = "GET" /\ \E control \in CacheReplies : answers(reply(200, control, body, "whole"))
    BY <1>4, <1>5, <1>6, <2>2
  <2>3. CASE req.method = "GET" /\ asked # {} /\ \E control \in CacheReplies, form \in CacheForms \ {"parts"} :
                answers(reply(206, control, [p \in asked |-> body[p]], form))
    <3>1. PICK control \in CacheReplies, form \in CacheForms \ {"parts"} :
             answers(reply(206, control, [p \in asked |-> body[p]], form))
      BY <2>3
    <3> QED  BY <1>4, <1>5, <1>6, <2>3, <3>1
  <2>4. CASE req.method = "GET" /\ \E control \in CacheReplies : answers(reply(206, control, parts, "parts"))
    BY <1>4, <1>5, <1>6, <2>4
  <2>5. CASE answers(reply(200, "no-store", body, "whole"))
    BY <1>4, <1>5, <1>6, <2>5
  <2>6. CASE answers(reply(500, "no-store", << >>, "whole"))
    BY <1>4, <1>5, <1>6, <2>6
  <2> QED  BY <1>3, <2>1, <2>2, <2>3, <2>4, <2>5, <2>6
<1>8. \/ UNCHANGED <<originVersion, originReplaced>>
      \/ /\ v < CacheMaxVersion
         /\ originVersion' = [originVersion EXCEPT ![req.url] = v + 1]
         /\ originReplaced' = [originReplaced EXCEPT ![<<req.url, v>>] = cacheNow]
  <2> HIDE DEF reply, answers, body, parts, asked
  <2> QED  BY <1>3 DEF cacheOrigin
<1> HIDE DEF reply, body
<1> QED  BY <1>7, <1>8

LEMMA OriginAnswersKeeps ==
    ASSUME CacheInv, NEW c \in CacheCallers, OriginAnswers(c)
    PROVE  CacheInv'
<1>0. OriginGood /\ CallsGood /\ AccountsGood /\ ListGood(cacheList, cacheNow, originReplaced)
  BY DEF CacheInv
<1>1. PICK req, v : req = cacheCall[c].req /\ v = originVersion[req.url]
  OBVIOUS
<1>2. /\ \/ UNCHANGED <<originVersion, originReplaced>>
         \/ /\ v < CacheMaxVersion
            /\ originVersion' = [originVersion EXCEPT ![req.url] = v + 1]
            /\ originReplaced' = [originReplaced EXCEPT ![<<req.url, v>>] = cacheNow]
      /\ \E status, bytes, form, resp :
            /\ Replies(req, v, cacheNow, status, bytes, form, resp)
            /\ cacheCall' = [cacheCall EXCEPT ![c] = [at |-> "answered", req |-> req, resp |-> resp]]
  BY <1>0, <1>1, OriginAnswersGood
<1>3. cacheAnswer' = NoAnswer /\ UNCHANGED <<cacheList, cacheCount, cacheUsed, cacheNow>>
  BY DEF OriginAnswers, cacheStore
<1>4. cacheCall[c].at = "sent" /\ CallGood(cacheCall[c], cacheNow, originReplaced)
  BY <1>0 DEF OriginAnswers, CallsGood
<1>5. /\ req.method \in {"GET", "POST"} /\ req.url \in CacheUrls /\ req.variant \in CacheVariants
      /\ req.range \in AllRanges
  BY <1>1, <1>4 DEF CallGood
<1>6. v \in CacheVersions /\ cacheNow \in Nat /\ cacheNow <= CacheMaxClock
  BY <1>0, <1>1, <1>5 DEF OriginGood
<1>7. Never \in Nat /\ cacheNow <= Never
  BY <1>6, CacheConstants DEF Never, CacheConstants
<1>8. originReplaced[<<req.url, v>>] = Never
  BY <1>0, <1>1, <1>5, <1>6 DEF OriginGood, CacheVersions
<1>9. /\ OriginGood'
      /\ cacheNow <= originReplaced'[<<req.url, v>>]
      /\ \A u \in CacheUrls, w \in CacheVersions, d \in Nat :
            d <= cacheNow /\ d <= originReplaced[<<u, w>>] => d <= originReplaced'[<<u, w>>]
  <2>1. CASE UNCHANGED <<originVersion, originReplaced>>
    BY <1>0, <1>3, <1>7, <1>8, <2>1 DEF OriginGood
  <2>2. CASE /\ v < CacheMaxVersion
             /\ originVersion' = [originVersion EXCEPT ![req.url] = v + 1]
             /\ originReplaced' = [originReplaced EXCEPT ![<<req.url, v>>] = cacheNow]
    <3>1. originVersion' \in [CacheUrls -> CacheVersions]
      <4>1. v + 1 \in CacheVersions
        BY <1>6, <2>2, CacheConstants DEF CacheVersions, CacheConstants
      <4> QED  BY <1>0, <2>2, <4>1 DEF OriginGood
    <3>2. /\ originReplaced' \in [CacheUrls \X CacheVersions -> Nat]
          /\ \A u \in CacheUrls, w \in CacheVersions :
                originReplaced'[<<u, w>>] = IF u = req.url /\ w = v THEN cacheNow
                                            ELSE originReplaced[<<u, w>>]
      BY <1>0, <1>5, <1>6, <2>2 DEF OriginGood
    <3>3. \A u \in CacheUrls : originVersion'[u] = IF u = req.url THEN v + 1 ELSE originVersion[u]
      BY <1>0, <2>2 DEF OriginGood
    <3>4. \A u \in CacheUrls, w \in CacheVersions : w >= originVersion'[u] => originReplaced'[<<u, w>>] = Never
      <4>1. ASSUME NEW u \in CacheUrls, NEW w \in CacheVersions, w >= originVersion'[u]
            PROVE  originReplaced'[<<u, w>>] = Never
        <5>1. w \in Nat /\ v \in Nat
          BY <1>6, CacheConstants DEF CacheVersions, CacheConstants
        <5>2. w >= originVersion[u] /\ ~(u = req.url /\ w = v)
          BY <1>1, <3>3, <4>1, <5>1
        <5> QED  BY <1>0, <3>2, <5>2 DEF OriginGood
      <4> QED  BY <4>1
    <3>5. OriginGood'
      BY <1>3, <1>6, <3>1, <3>2, <3>4 DEF OriginGood
    <3> QED  BY <1>5, <1>6, <3>2, <3>5
  <2> QED  BY <1>2, <2>1, <2>2
<1>10. PICK resp :
          /\ RespGood(req, resp, cacheNow, originReplaced')
          /\ cacheCall' = [cacheCall EXCEPT ![c] = [at |-> "answered", req |-> req, resp |-> resp]]
  <2>1. PICK status, bytes, form, resp :
            /\ Replies(req, v, cacheNow, status, bytes, form, resp)
            /\ cacheCall' = [cacheCall EXCEPT ![c] = [at |-> "answered", req |-> req, resp |-> resp]]
    BY <1>2
  <2>2. cacheNow <= originReplaced'[<<req.url, v>>] /\ cacheNow \in Nat
    BY <1>6, <1>9
  <2>3. RespGood(req, resp, cacheNow, originReplaced')
    BY <1>5, <1>6, <2>1, <2>2, ReplyIsGood
  <2> QED  BY <2>1, <2>3
<1>11. /\ ListGood(cacheList, cacheNow, originReplaced')
       /\ \A call : CallGood(call, cacheNow, originReplaced) => CallGood(call, cacheNow, originReplaced')
  <2>1. PICK now, before, after : now \in Nat /\ now = cacheNow /\ before = originReplaced /\ after = originReplaced'
    BY <1>6
  <2>2. now <= now
        /\ \A u \in CacheUrls, w \in CacheVersions, d \in Nat :
              d <= now /\ d <= before[<<u, w>>] => d <= after[<<u, w>>]
    BY <1>9, <2>1
  <2>3. /\ \A list : ListGood(list, now, before) => ListGood(list, now, after)
        /\ \A call : CallGood(call, now, before) => CallGood(call, now, after)
    BY <2>1, <2>2, LaterIsGood
  <2> QED  BY <1>0, <2>1, <2>3
<1>12. CallsGood'
  <2>1. PICK call : call = [at |-> "answered", req |-> req, resp |-> resp]
    OBVIOUS
  <2>2. CallGood(call, cacheNow, originReplaced')
    BY <1>5, <1>10, <2>1 DEF CallGood
  <2>3. /\ cacheCall' = [b \in CacheCallers |-> cacheCall'[b]]
        /\ cacheCall'[c] = call
        /\ \A b \in CacheCallers : b # c => cacheCall'[b] = cacheCall[b]
    BY <1>0, <1>10, <2>1, CallIs DEF CallsGood
  <2>4. \A b \in CacheCallers : CallGood(cacheCall'[b], cacheNow, originReplaced')
    BY <1>0, <1>11, <2>2, <2>3 DEF CallsGood
  <2> QED  BY <1>3, <2>3, <2>4 DEF CallsGood
<1>13. AccountsGood' /\ AnswerGood'
  BY <1>0, <1>3, NoAnswerKeeps DEF AccountsGood
<1> QED  BY <1>3, <1>9, <1>11, <1>12, <1>13 DEF CacheInv

----------------------------------------
(* A send ends *)

\* What the last response of a call is of.
LEMMA AnsweredCall ==
    ASSUME CacheInv, NEW c \in CacheCallers, cacheCall[c].at = "answered"
    PROVE  /\ OriginGood /\ CallsGood /\ AccountsGood /\ ListGood(cacheList, cacheNow, originReplaced)
           /\ cacheCall[c].req.method \in {"GET", "POST"} /\ cacheCall[c].req.url \in CacheUrls
           /\ cacheCall[c].req.variant \in CacheVariants
           /\ RespGood(cacheCall[c].req, cacheCall[c].resp, cacheNow, originReplaced)
BY DEF CacheInv, CallsGood, CallGood

\* A revalidated entry is dated as before and was stored now.
LEMMA UpdateNotModifiedKeeps ==
    ASSUME CacheInv, NEW c \in CacheCallers, HttpCacheUpdateNotModified(c)
    PROVE  CacheInv'
<1>1. cacheCall[c].at = "answered"
      /\ UNCHANGED <<cacheCount, cacheUsed, cacheNow, originVersion, originReplaced>>
  BY DEF HttpCacheUpdateNotModified, cacheOrigin
<1>2. PICK req : req = cacheCall[c].req
  OBVIOUS
<1>3. /\ OriginGood /\ CallsGood /\ AccountsGood /\ ListGood(cacheList, cacheNow, originReplaced)
      /\ req.url \in CacheUrls
  BY <1>1, <1>2, AnsweredCall
<1>4. OriginGood' /\ cacheNow \in Nat
  BY <1>1, <1>3 DEF OriginGood
<1>5. cacheList \in Seq(CacheEntries) /\ DOMAIN cacheList = 1..Len(cacheList) /\ Len(cacheList) \in Nat
  BY <1>3 DEF ListGood
<1>6. PICK hits : hits = {k \in 1..Len(cacheList) : Matches(cacheList[k], req) /\ ~cacheList[k].partial}
  OBVIOUS
<1>7. PICK i : i = IF hits = {} THEN 0 ELSE Min(hits)
  OBVIOUS
<1>8. i \in Nat /\ (i # 0 => i \in hits)
  <2>1. hits \in SUBSET Nat
    BY <1>6
  <2>2. hits # {} => i \in hits
    BY <1>7, <2>1, MinIsMember
  <2> QED  BY <1>7, <2>1, <2>2
<1>9. IF i = 0
      THEN UNCHANGED cacheList /\ Finish(c, req, 304, "origin", << >>)
      ELSE /\ cacheList' = MoveToHead([cacheList EXCEPT ![i].storedAt = cacheNow], i)
           /\ Finish(c, req, cacheList[i].status, SourceOf(cacheList[i], "validated"), cacheList[i].body)
  <2>1. i = FirstEntry(LAMBDA e : Matches(e, req) /\ ~e.partial)
    BY <1>6, <1>7 DEF FirstEntry
  <2> QED  BY <1>2, <2>1 DEF HttpCacheUpdateNotModified
<1>10. CASE i = 0
  <2>1. PICK status : status = 304 /\ status # 200
    OBVIOUS
  <2>2. CallsGood' /\ AnswerGood'
    BY <1>1, <1>3, <1>9, <1>10, <2>1, EmptyAnswerKeeps
  <2> QED  BY <1>1, <1>3, <1>4, <1>9, <1>10, <2>2 DEF CacheInv, AccountsGood
<1>11. CASE i # 0
  <2>1. PICK e : e = cacheList[i]
    OBVIOUS
  <2>2. /\ i \in DOMAIN cacheList /\ e \in CacheEntries /\ EntryGood(e, cacheNow, originReplaced)
        /\ Matches(e, req) /\ ~e.partial
    BY <1>3, <1>5, <1>6, <1>8, <1>11, <2>1 DEF ListGood
  <2>3. PICK source, body : source = "validated" /\ body = e.body
    OBVIOUS
  <2>4. Finish(c, req, e.status, SourceOf(e, source), body) /\ DOMAIN body = Written(e)
    BY <1>9, <1>11, <2>1, <2>2, <2>3 DEF Written
  <2>5. CallsGood' /\ AnswerGood'
    <3>1. e.url = req.url /\ e.vary = req.variant /\ source \in {"cache", "validated"} /\ source # "cache"
      BY <2>2, <2>3 DEF Matches
    <3> QED  BY <1>1, <1>3, <2>2, <2>3, <2>4, <3>1, AnswerOfEntry
  <2>6. PICK f : f = [e EXCEPT !.storedAt = cacheNow]
    OBVIOUS
  <2>7. /\ f \in CacheEntries /\ f.body = e.body /\ f.partial = e.partial /\ f.ranges = e.ranges
        /\ f.etag = e.etag /\ f.status = e.status /\ f.date = e.date /\ f.url = e.url /\ f.vary = e.vary /\ f.storedAt = cacheNow
    BY <1>4, <2>2, <2>6 DEF CacheEntries
  <2>8. EntryGood(f, cacheNow, originReplaced)
    <3>1. Written(f) = Written(e) /\ Misfiled(f) = Misfiled(e)
      BY <2>7 DEF Written, Misfiled
    <3>2. e.date <= e.storedAt /\ e.storedAt <= cacheNow /\ e.date \in Nat /\ e.storedAt \in Nat
      BY <2>2 DEF EntryGood, CacheEntries
    <3>3. f.date <= f.storedAt /\ f.storedAt <= cacheNow
      BY <1>4, <2>7, <3>2
    <3> QED  BY <2>2, <2>7, <3>1, <3>3 DEF EntryGood
  <2>9. PICK list : list = [cacheList EXCEPT ![i] = f]
    OBVIOUS
  <2>10. /\ list \in Seq(CacheEntries) /\ Len(list) = Len(cacheList) /\ DOMAIN list = DOMAIN cacheList
         /\ \A k \in DOMAIN cacheList : list[k] = IF k = i THEN f ELSE cacheList[k]
    BY <1>5, <2>2, <2>7, <2>9
  <2>11. ListGood(list, cacheNow, originReplaced)
    BY <1>3, <2>8, <2>10 DEF ListGood
  <2>12. cacheList' = MoveToHead(list, i)
    <3>1. list = [cacheList EXCEPT ![i].storedAt = cacheNow]
      BY <2>1, <2>6, <2>9
    <3> QED  BY <1>9, <1>11, <3>1
  <2>13. ListGood(cacheList', cacheNow, originReplaced) /\ Len(cacheList') = Len(cacheList)
         /\ SumCharges(cacheList') = SumCharges(list)
    BY <2>2, <2>10, <2>11, <2>12, ListMoved
  <2>14. SumCharges(list) = SumCharges(cacheList)
    <3>1. \A k \in DOMAIN list : Charge(list[k]) = Charge(cacheList[k])
      BY <2>1, <2>7, <2>10 DEF Charge
    <3> QED  BY <2>10, <3>1 DEF SumCharges
  <2>15. AccountsGood'
    BY <1>1, <1>3, <2>13, <2>14 DEF AccountsGood
  <2> QED  BY <1>1, <1>4, <2>5, <2>13, <2>15 DEF CacheInv
<1> QED  BY <1>10, <1>11

LEMMA SendEndsKeeps ==
    ASSUME CacheInv, NEW c \in CacheCallers, SendEnds(c)
    PROVE  CacheInv'
<1>1. PICK req, resp : req = cacheCall[c].req /\ resp = cacheCall[c].resp
  OBVIOUS
<1>2. /\ cacheCall[c].at = "answered"
      /\ IF ~IsMethodSafeForCache(req) /\ resp.status < 400
         THEN HttpCacheInvalidateForRequest(req)
         ELSE IF ResponseMayBeStored(req, resp)
         THEN HttpCacheStoreResponse(req, resp)
         ELSE UNCHANGED cacheStore
      /\ Finish(c, req, resp.status, "origin", resp.body)
      /\ UNCHANGED <<cacheNow, originVersion, originReplaced>>
  BY <1>1 DEF SendEnds, cacheOrigin
<1>3. /\ OriginGood /\ CallsGood /\ AccountsGood /\ ListGood(cacheList, cacheNow, originReplaced)
      /\ req.method \in {"GET", "POST"} /\ req.url \in CacheUrls /\ req.variant \in CacheVariants
      /\ RespGood(req, resp, cacheNow, originReplaced)
  BY <1>1, <1>2, AnsweredCall
<1>4. PICK v \in CacheVersions :
         \A p \in DOMAIN resp.body : \E q \in Offsets : resp.body[p] = Byte(req.url, req.variant, v, q)
  BY <1>3 DEF RespGood, OfVersion
<1>5. CallsGood' /\ AnswerGood'
  <2>1. PICK status, body, source : status = resp.status /\ body = resp.body /\ source = "origin"
    OBVIOUS
  <2>2. Finish(c, req, status, source, body)
    BY <1>2, <2>1
  <2>3. source \notin {"cache", "validated", "misfiled"} /\ (status = 200 => DOMAIN body = Positions)
    BY <1>3, <2>1 DEF RespGood
  <2>4. \A p \in DOMAIN body : \E q \in Offsets : body[p] = Byte(req.url, req.variant, v, q)
    BY <1>4, <2>1
  <2>5. \A p \in DOMAIN body :
           /\ \E q \in Offsets : /\ body[p] = Byte(req.url, req.variant, v, q)
                                 /\ source \in {"cache", "validated"} => q = p
           /\ source \in {"cache", "misfiled"} /\ req.directive # "max-stale" =>
                 originReplaced[<<req.url, v>>] > cacheNow - CacheLifetime
    BY <2>3, <2>4
  <2> QED  BY <1>2, <1>3, <2>2, <2>3, <2>5, FinishKeeps
<1>6. ListGood(cacheList', cacheNow, originReplaced) /\ AccountsGood'
  <2>1. CASE ~IsMethodSafeForCache(req) /\ resp.status < 400
    BY <1>2, <1>3, <2>1, HttpCacheInvalidateKeeps
  <2>2. CASE ~(~IsMethodSafeForCache(req) /\ resp.status < 400) /\ ResponseMayBeStored(req, resp)
    <3>1. resp.status \in {200, 206}
      BY <2>2 DEF ResponseMayBeStored
    <3>2. req.method = "GET"
      BY <2>2, <3>1 DEF IsMethodSafeForCache
    <3> QED  BY <1>2, <1>3, <2>2, <3>1, <3>2, HttpCacheStoreKeeps
  <2>3. CASE ~(~IsMethodSafeForCache(req) /\ resp.status < 400) /\ ~ResponseMayBeStored(req, resp)
    <3>1. UNCHANGED <<cacheList, cacheCount, cacheUsed>>
      BY <1>2, <2>3 DEF cacheStore
    <3> QED  BY <1>3, <3>1 DEF AccountsGood
  <2> QED  BY <2>1, <2>2, <2>3
<1>7. OriginGood'
  BY <1>2, <1>3 DEF OriginGood
<1> QED  BY <1>2, <1>5, <1>6, <1>7 DEF CacheInv

LEMMA StoreFailsKeeps ==
    ASSUME CacheInv, NEW c \in CacheCallers, StoreFails(c)
    PROVE  CacheInv'
<1>1. /\ UNCHANGED <<cacheList, cacheCount, cacheUsed, cacheNow, originVersion, originReplaced>>
      /\ Finish(c, cacheCall[c].req, 0, "failed", << >>)
  BY DEF StoreFails, cacheStore, cacheOrigin
<1>2. OriginGood /\ CallsGood /\ AccountsGood /\ ListGood(cacheList, cacheNow, originReplaced)
  BY DEF CacheInv
<1>3. PICK status : status = 0 /\ status # 200
  OBVIOUS
<1>4. CallsGood' /\ AnswerGood'
  BY <1>1, <1>2, <1>3, EmptyAnswerKeeps
<1>5. OriginGood' /\ AccountsGood'
  BY <1>1, <1>2 DEF OriginGood, AccountsGood
<1> QED  BY <1>1, <1>2, <1>4, <1>5 DEF CacheInv

----------------------------------------
(* The other steps *)

LEMMA NothingListed ==
    /\ ListGood(<< >>, cacheNow, originReplaced)
    /\ SumCharges(<< >>) = 0 /\ Len(<< >>) = 0
<1>1. << >> \in Seq(CacheEntries) /\ Len(<< >>) = 0 /\ DOMAIN << >> = {}
  OBVIOUS
<1>2. SumCharges(<< >>) = 0
  BY <1>1, NoneCharged
<1> QED  BY <1>1, <1>2 DEF ListGood

LEMMA ClearKeeps ==
    ASSUME CacheInv, HttpCacheClear
    PROVE  CacheInv'
<1>1. /\ cacheList' = << >> /\ cacheCount' = 0 /\ cacheUsed' = 0 /\ cacheAnswer' = NoAnswer
      /\ UNCHANGED <<cacheNow, originVersion, originReplaced, cacheCall>>
  BY DEF HttpCacheClear, cacheOrigin
<1>2. OriginGood' /\ CallsGood'
  BY <1>1 DEF CacheInv, OriginGood, CallsGood
<1>3. AccountsGood'
  BY <1>1, NothingListed, CacheConstants DEF AccountsGood, CacheConstants
<1>4. ListGood(<< >>, cacheNow, originReplaced) /\ AnswerGood'
  BY <1>1, NothingListed, NoAnswerKeeps
<1> QED  BY <1>1, <1>2, <1>3, <1>4 DEF CacheInv

LEMMA TickKeeps ==
    ASSUME CacheInv, CacheTick
    PROVE  CacheInv'
<1>1. /\ cacheNow < CacheMaxClock /\ cacheNow' = cacheNow + 1 /\ cacheAnswer' = NoAnswer
      /\ UNCHANGED <<cacheList, cacheCount, cacheUsed, originVersion, originReplaced, cacheCall>>
  BY DEF CacheTick, cacheStore, cacheOrigin
<1>2. OriginGood /\ CallsGood /\ AccountsGood /\ ListGood(cacheList, cacheNow, originReplaced)
  BY DEF CacheInv
<1>3. OriginGood' /\ cacheNow \in Nat /\ cacheNow' \in Nat /\ cacheNow <= cacheNow'
  BY <1>1, <1>2, CacheConstants DEF OriginGood, CacheConstants
<1>4. AccountsGood' /\ AnswerGood'
  BY <1>1, <1>2, NoAnswerKeeps DEF AccountsGood
<1>5. PICK later \in Nat : later = cacheNow' /\ cacheNow <= later
  BY <1>3
<1>6. /\ \A list : ListGood(list, cacheNow, originReplaced) => ListGood(list, later, originReplaced)
      /\ \A call : CallGood(call, cacheNow, originReplaced) => CallGood(call, later, originReplaced)
  BY <1>3, <1>5, LaterIsGood
<1>7. ListGood(cacheList', cacheNow', originReplaced')
  BY <1>1, <1>2, <1>5, <1>6
<1>8. CallsGood'
  BY <1>1, <1>2, <1>5, <1>6 DEF CallsGood
<1> QED  BY <1>3, <1>4, <1>7, <1>8 DEF CacheInv

LEMMA CacheInitHolds == CacheInit => CacheInv
<1> SUFFICES ASSUME CacheInit PROVE CacheInv
  OBVIOUS
<1>1. /\ cacheList = << >> /\ cacheCount = 0 /\ cacheUsed = 0 /\ cacheNow = 0
      /\ originVersion = [u \in CacheUrls |-> 0]
      /\ originReplaced = [uv \in CacheUrls \X CacheVersions |-> Never]
      /\ cacheCall = [c \in CacheCallers |-> CacheIdle]
      /\ cacheAnswer = NoAnswer
  BY DEF CacheInit, CacheVersions
<1>2. OriginGood
  <2>1. Never \in Nat /\ 0 \in CacheVersions /\ CacheMaxClock >= 0
    BY CacheConstants DEF CacheConstants, Never, CacheVersions
  <2> QED  BY <1>1, <2>1 DEF OriginGood
<1>3. ListGood(cacheList, cacheNow, originReplaced) /\ AccountsGood
  BY <1>1, NothingListed, CacheConstants DEF AccountsGood, CacheConstants
<1>4. CallsGood
  BY <1>1 DEF CallsGood, CallGood, CacheIdle
<1>5. AnswerGood
  <2>1. cacheAnswer.source = "none" /\ cacheAnswer.status = 0 /\ cacheAnswer.body = << >>
    BY <1>1 DEF NoAnswer
  <2>2. DOMAIN cacheAnswer.body = {} /\ 0 \in 0..CacheMaxVersion
    BY <2>1, CacheConstants DEF CacheConstants
  <2> QED  BY <2>1, <2>2 DEF AnswerGood, ServedBytesAreOneVersion, FreshAnswersWereCurrent
<1> QED  BY <1>2, <1>3, <1>4, <1>5 DEF CacheInv

LEMMA CacheNextKeeps == CacheInv /\ [CacheNext]_cacheVars => CacheInv'
<1> SUFFICES ASSUME CacheInv, [CacheNext]_cacheVars PROVE CacheInv'
  OBVIOUS
<1>1. ASSUME NEW c \in CacheCallers, SendStarts(c) PROVE CacheInv'
  BY <1>1, SendStartsKeeps
<1>2. ASSUME NEW c \in CacheCallers, OriginAnswers(c) PROVE CacheInv'
  BY <1>2, OriginAnswersKeeps
<1>3. ASSUME NEW c \in CacheCallers, HttpCacheUpdateNotModified(c) PROVE CacheInv'
  BY <1>3, UpdateNotModifiedKeeps
<1>4. ASSUME NEW c \in CacheCallers, SendEnds(c) PROVE CacheInv'
  BY <1>4, SendEndsKeeps
<1>5. ASSUME NEW c \in CacheCallers, StoreFails(c) PROVE CacheInv'
  BY <1>5, StoreFailsKeeps
<1>6. CASE HttpCacheClear
  BY <1>6, ClearKeeps
<1>7. CASE CacheTick
  BY <1>7, TickKeeps
<1>8. CASE UNCHANGED cacheVars
  BY <1>8 DEF cacheVars, CacheInv, OriginGood, AccountsGood, CallsGood, AnswerGood,
              ServedBytesAreOneVersion, FreshAnswersWereCurrent
<1> QED  BY <1>1, <1>2, <1>3, <1>4, <1>5, <1>6, <1>7, <1>8 DEF CacheNext

\* The response cache (HttpCache.cpp, HttpCachePolicy.cpp and the send loop
\* that uses them), for any callers, resources, limits and lifetime, and any
\* form of partial responses: what it serves is bytes of one version, at their
\* places unless it is made of a part filed as whole, a 200 is all of it and
\* current as far as it may tell, and the entries stay within the limits.
THEOREM CacheSound == CacheSpec => []CacheIsSound
<1>1. CacheInv => CacheIsSound
  BY DEF CacheInv, AnswerGood, AccountsGood, CacheIsSound, CacheWithinLimits
<1> QED  BY <1>1, CacheInitHolds, CacheNextKeeps, PTL DEF CacheSpec

----------------------------------------
\* The cookie jar. Its bytes are the number of the positions charged, so
\* that what a cookie adds or takes is a difference of cardinalities. A
\* cookie's domain is a suffix of the host it is stored for and, when it
\* is sent, of the host of the request: from there both hosts have one
\* registrable domain (SameSite).

LEMMA LastLabelsOf ==
    ASSUME NEW host \in Seq(STRING), NEW n \in 0 .. Len(host)
    PROVE  /\ LastLabels(host, n) \in Seq(STRING) /\ Len(LastLabels(host, n)) = n
           /\ \A k \in 1 .. n : LastLabels(host, n)[k] = host[Len(host) - n + k]
BY DEF LastLabels

LEMMA LastOfLast ==
    ASSUME NEW host \in Seq(STRING), NEW n \in 0 .. Len(host), NEW m \in 0 .. n
    PROVE  LastLabels(LastLabels(host, n), m) = LastLabels(host, m)
<1>1. PICK d : d = LastLabels(host, n)
  OBVIOUS
<1>2. d \in Seq(STRING) /\ Len(d) = n /\ \A k \in 1 .. n : d[k] = host[Len(host) - n + k]
  BY <1>1, LastLabelsOf
<1>3. m \in 0 .. Len(host) /\ m \in 0 .. Len(d)
  BY <1>2
<1>4. /\ LastLabels(d, m) \in Seq(STRING) /\ Len(LastLabels(d, m)) = m
      /\ \A k \in 1 .. m : LastLabels(d, m)[k] = d[Len(d) - m + k]
  BY <1>2, <1>3, LastLabelsOf
<1>5. /\ LastLabels(host, m) \in Seq(STRING) /\ Len(LastLabels(host, m)) = m
      /\ \A k \in 1 .. m : LastLabels(host, m)[k] = host[Len(host) - m + k]
  BY <1>3, LastLabelsOf
<1>6. \A k \in 1 .. m : LastLabels(d, m)[k] = LastLabels(host, m)[k]
  <2> SUFFICES ASSUME NEW k \in 1 .. m PROVE LastLabels(d, m)[k] = LastLabels(host, m)[k]
    OBVIOUS
  <2>1. n - m + k \in 1 .. n /\ Len(host) - n + (n - m + k) = Len(host) - m + k
    BY <1>3
  <2>2. d[n - m + k] = host[Len(host) - m + k]
    BY <1>2, <2>1
  <2> QED  BY <1>2, <1>4, <1>5, <2>2
<1> QED  BY <1>1, <1>4, <1>5, <1>6

\* The numbers of labels a listed suffix of a host has.
Listed(host) == {n \in 1 .. Len(host) - 1 : CookieIsPublicSuffix(LastLabels(host, n))}

\* Hosts under one domain that is no suffix have its listed suffixes, and so
\* its registrable domain.
LEMMA SiteOfDomain ==
    ASSUME NEW d \in Seq(STRING), NEW host \in JarHosts,
           CookieDomainMatch(d, host), ~CookieIsPublicSuffix(d), ~MissingSuffix(d)
    PROVE  CookieRegistrableDomain(host) = CookieRegistrableDomain(d)
<1>1. host \in Seq(STRING) /\ ~CookieIsPublicSuffix(host) /\ PublicSuffixes \subseteq Seq(STRING)
  BY JarConstants DEF CookieIsPublicSuffix
<1>2. PICK m \in Nat : m = Len(d)
  OBVIOUS
<1>3. m <= Len(host) /\ LastLabels(host, m) = d /\ d # << >> /\ Len(host) \in Nat
  BY <1>1, <1>2 DEF CookieDomainMatch
<1>4. m > 1
  <2>1. m # 0 /\ m # 1
    BY <1>2, <1>3 DEF MissingSuffix
  <2> QED  BY <2>1
<1>5. ASSUME NEW n \in 0 .. m PROVE LastLabels(host, n) = LastLabels(d, n)
  <2>1. LastLabels(LastLabels(host, m), n) = LastLabels(host, n)
    BY <1>1, <1>3, LastOfLast
  <2> QED  BY <1>3, <2>1
<1>6. ASSUME NEW n \in Listed(host) PROVE n < m
  <2>1. n \in 1 .. Len(host) - 1 /\ LastLabels(host, n) \in PublicSuffixes
    BY DEF Listed, CookieIsPublicSuffix
  <2>2. n # m
    BY <1>3, <2>1 DEF CookieIsPublicSuffix
  <2>3. CASE n > m
    <3>1. PICK p \in PublicSuffixes : p = LastLabels(host, n)
      BY <2>1
    <3>2. n \in 0 .. Len(host)
      BY <1>3, <2>1
    <3>3. Len(p) = n /\ LastLabels(p, m) = LastLabels(host, m)
      BY <1>1, <2>3, <3>1, <3>2, LastLabelsOf, LastOfLast
    <3>4. CookieDomainMatch(d, p) /\ p # d
      BY <1>2, <1>3, <2>3, <3>2, <3>3 DEF CookieDomainMatch
    <3> QED  BY <3>4 DEF MissingSuffix
  <2> QED  BY <2>1, <2>2, <2>3
<1>7. Listed(host) = Listed(d)
  <2>1. ASSUME NEW n \in Listed(host) PROVE n \in Listed(d)
    <3>1. n \in 1 .. m - 1
      BY <1>6 DEF Listed
    <3>2. LastLabels(host, n) = LastLabels(d, n)
      BY <1>5, <3>1
    <3> QED  BY <1>2, <3>1, <3>2 DEF Listed
  <2>2. ASSUME NEW n \in Listed(d) PROVE n \in Listed(host)
    <3>1. n \in 1 .. m - 1
      BY <1>2 DEF Listed
    <3>2. LastLabels(host, n) = LastLabels(d, n)
      BY <1>5, <3>1
    <3>3. n \in 1 .. Len(host) - 1
      BY <1>3, <3>1
    <3> QED  BY <3>2, <3>3 DEF Listed
  <2> QED  BY <2>1, <2>2
<1>8. PICK c : c = IF Listed(d) = {} THEN 2 ELSE 1 + Max(Listed(d))
  OBVIOUS
<1>9. ASSUME NEW l \in Nat, l > 1 PROVE Min({2, l}) = 2
  <2>1. Min({2, l}) \in {2, l}
    BY MinIsMember
  <2>2. \E x \in {2, l} : \A y \in {2, l} : x <= y
    BY <1>9
  <2>3. \A y \in {2, l} : Min({2, l}) <= y
    BY <2>2 DEF Min
  <2> QED  BY <1>9, <2>1, <2>3
<1>10. c \in 0 .. m
  <2>1. CASE Listed(d) = {}
    BY <1>4, <1>8, <2>1
  <2>2. CASE Listed(d) # {}
    <3>1. Listed(d) \in SUBSET (0 .. m)
      BY <1>2 DEF Listed
    <3>2. Max(Listed(d)) \in Listed(d)
      BY <2>2, <3>1, MaxIsMember
    <3>3. Max(Listed(d)) \in 1 .. m - 1
      BY <1>2, <3>2 DEF Listed
    <3> QED  BY <1>8, <2>2, <3>3
  <2> QED  BY <2>1, <2>2
<1>11. CookieRegistrableDomain(host) = LastLabels(host, c)
  <2>1. Min({2, Len(host)}) = 2
    BY <1>3, <1>4, <1>9
  <2> QED  BY <1>1, <1>7, <1>8, <2>1 DEF CookieRegistrableDomain, Listed
<1>12. CookieRegistrableDomain(d) = LastLabels(d, c)
  <2>1. Min({2, Len(d)}) = 2
    BY <1>2, <1>4, <1>9
  <2> QED  BY <1>8, <2>1 DEF CookieRegistrableDomain, Listed
<1> QED  BY <1>5, <1>10, <1>11, <1>12

\* What the jar holds: the domain of a cookie is its host or a name above it.
JarCookies ==
    {c \in [name : JarNames, length : 0 .. JarMaxValue, kind : {"lax", "secure", "none", "none secure"},
            hostOnly : BOOLEAN, storedFor : JarHosts, domain : Seq(STRING),
            path : {CookieDefaultPath(<<"a", "b">>)}, expires : Nat] :
        IF c.hostOnly THEN c.domain = c.storedFor
        ELSE CookieDomainMatch(c.domain, c.storedFor) /\ ~CookieIsPublicSuffix(c.domain)}

JarTyped ==
    /\ jar \in Seq(JarCookies) /\ jarNow \in Nat
    /\ jarCall \in [JarThreads -> {JarIdle} \cup [at : {"sent"}, url : JarUrls]]

JarInv == JarTyped /\ JarBytesAreExact /\ CookieStaysOnItsSite

LEMMA SentToItsSite ==
    ASSUME NEW c \in JarCookies, NEW url \in JarUrls, SendsCookie(c, url)
    PROVE  /\ ~MissingSuffix(c.domain) =>
                CookieRegistrableDomain(c.storedFor) = CookieRegistrableDomain(url.host)
           /\ c.hostOnly => c.storedFor = url.host
<1>1. url.host \in JarHosts /\ c.storedFor \in JarHosts /\ c.domain \in Seq(STRING) /\ c.hostOnly \in BOOLEAN
  BY DEF JarUrls, JarCookies
<1>2. CASE c.hostOnly
  BY <1>1, <1>2 DEF JarCookies, SendsCookie
<1>3. CASE ~c.hostOnly
  <2>1. /\ CookieDomainMatch(c.domain, c.storedFor) /\ CookieDomainMatch(c.domain, url.host)
        /\ ~CookieIsPublicSuffix(c.domain)
    BY <1>3 DEF JarCookies, SendsCookie
  <2> QED  BY <1>1, <1>3, <2>1, SiteOfDomain
<1> QED  BY <1>1, <1>2, <1>3

\* What the cookies at the positions D are charged.
ChargesAt(items, D) == UNION {{i} \X (1 .. CookieBytes(items[i])) : i \in D}

LEMMA JarNumbers ==
    JarMaxValue \in Nat /\ JarMaxClock \in Nat /\ JarMaxBytes \in Nat /\ JarMaxCookies \in Nat
<1>1. JarMaxBytes \in Nat \ {0} /\ JarMaxCookies \in Nat \ {0}
  BY JarConstants
<1>2. JarMaxValue \in Nat /\ JarMaxClock \in Nat
  BY JarConstants
<1> QED  BY <1>1, <1>2

LEMMA ChargeOfCookie ==
    ASSUME NEW c \in JarCookies
    PROVE  CookieBytes(c) \in 1 .. JarMaxValue + 1
<1>1. c.length \in 0 .. JarMaxValue
  BY DEF JarCookies
<1>2. \A l, m \in Int : l \in 0 .. m => 1 + l \in 1 .. m + 1
  OBVIOUS
<1> QED  BY <1>1, <1>2, JarNumbers DEF CookieBytes

LEMMA ChargesAreFinite ==
    ASSUME NEW items \in Seq(JarCookies), NEW D \in SUBSET (DOMAIN items)
    PROVE  IsFiniteSet(ChargesAt(items, D)) /\ Cardinality(ChargesAt(items, D)) \in Nat
<1>1. PICK A, B : A = 1 .. Len(items) /\ B = 1 .. JarMaxValue + 1
  OBVIOUS
<1>2. IsFiniteSet(A) /\ IsFiniteSet(B)
  <2>1. Len(items) \in Int /\ JarMaxValue + 1 \in Int /\ 1 \in Int
    BY JarNumbers
  <2> QED  BY <1>1, <2>1, FS_Interval
<1>3. IsFiniteSet(A \X B)
  BY <1>2, FS_Product
<1>4. ASSUME NEW x \in ChargesAt(items, D) PROVE x \in A \X B
  <2>1. PICK i \in D : x \in {i} \X (1 .. CookieBytes(items[i]))
    BY DEF ChargesAt
  <2>2. i \in A /\ items[i] \in JarCookies
    BY <1>1
  <2>3. PICK b \in 1 .. CookieBytes(items[i]) : x = <<i, b>>
    BY <2>1
  <2>4. b \in B
    BY <1>1, <2>2, <2>3, ChargeOfCookie, JarNumbers
  <2> QED  BY <2>2, <2>3, <2>4
<1>5. ChargesAt(items, D) \in SUBSET (A \X B)
  BY <1>4
<1> QED  BY <1>3, <1>5, FS_Subset, FS_CardinalityType

LEMMA ChargesSplit ==
    ASSUME NEW items \in Seq(JarCookies), NEW D \in SUBSET (DOMAIN items),
           NEW i \in DOMAIN items, i \notin D
    PROVE  Cardinality(ChargesAt(items, D \cup {i})) = Cardinality(ChargesAt(items, D)) + CookieBytes(items[i])
<1>1. PICK A, B, n : A = ChargesAt(items, D) /\ n = CookieBytes(items[i]) /\ B = {i} \X (1 .. n)
  OBVIOUS
<1>2. n \in Nat
  <2>1. items[i] \in JarCookies
    OBVIOUS
  <2> QED  BY <1>1, <2>1, ChargeOfCookie, JarNumbers
<1>3. IsFiniteSet(B) /\ Cardinality(B) = n
  <2>1. IsFiniteSet(1 .. n) /\ Cardinality(1 .. n) = n
    BY <1>2, FS_Interval
  <2>2. IsFiniteSet({i}) /\ Cardinality({i}) = 1
    BY FS_Singleton
  <2>3. IsFiniteSet({i} \X (1 .. n)) /\ Cardinality({i} \X (1 .. n)) = 1 * n
    BY <2>1, <2>2, FS_Product
  <2> QED  BY <1>1, <1>2, <2>3
<1>4. IsFiniteSet(A) /\ Cardinality(A) \in Nat
  BY <1>1, ChargesAreFinite
<1>5. A \cap B = {}
  <2>1. ASSUME NEW x \in A, x \in B PROVE FALSE
    <3>1. PICK j \in D : x \in {j} \X (1 .. CookieBytes(items[j]))
      BY <1>1 DEF ChargesAt
    <3>2. x[1] = j /\ x[1] = i
      BY <1>1, <2>1, <3>1
    <3> QED  BY <3>2
  <2> QED  BY <2>1
<1>6. ChargesAt(items, D \cup {i}) = A \cup B
  <2>1. ASSUME NEW x \in ChargesAt(items, D \cup {i}) PROVE x \in A \cup B
    <3>1. PICK j \in D \cup {i} : x \in {j} \X (1 .. CookieBytes(items[j]))
      BY DEF ChargesAt
    <3> QED  BY <1>1, <3>1 DEF ChargesAt
  <2>2. ASSUME NEW x \in A \cup B PROVE x \in ChargesAt(items, D \cup {i})
    <3>1. CASE x \in A
      <4>1. PICK j \in D : x \in {j} \X (1 .. CookieBytes(items[j]))
        BY <1>1, <3>1 DEF ChargesAt
      <4> QED  BY <4>1 DEF ChargesAt
    <3>2. CASE x \in B
      BY <1>1, <3>2 DEF ChargesAt
    <3> QED  BY <2>2, <3>1, <3>2
  <2> QED  BY <2>1, <2>2
<1>7. Cardinality(A \cap B) = 0
  BY <1>5, FS_EmptySet
<1>8. Cardinality(A \cup B) = Cardinality(A) + Cardinality(B) - Cardinality(A \cap B)
  BY <1>3, <1>4, FS_Union
<1>9. Cardinality(A \cup B) = Cardinality(A) + n
  BY <1>2, <1>3, <1>4, <1>7, <1>8
<1> QED  BY <1>1, <1>6, <1>9

LEMMA ChargesAgree ==
    ASSUME NEW items, NEW others, NEW D, \A i \in D : items[i] = others[i]
    PROVE  ChargesAt(items, D) = ChargesAt(others, D)
BY DEF ChargesAt

LEMMA TotalIsCharges ==
    ASSUME NEW items \in Seq(JarCookies)
    PROVE  JarTotal(items) = Cardinality(ChargesAt(items, DOMAIN items)) /\ JarTotal(items) \in Nat
<1>1. JarTotal(items) = Cardinality(ChargesAt(items, DOMAIN items))
  BY DEF JarTotal, ChargesAt
<1> QED  BY <1>1, ChargesAreFinite

LEMMA TotalOfNone ==
    JarTotal(<< >>) = 0
<1>1. UNION {{i} \X (1 .. CookieBytes(<< >>[i])) : i \in DOMAIN << >>} = {}
  OBVIOUS
<1> QED  BY <1>1, FS_EmptySet DEF JarTotal

\* A cookie more.
LEMMA TotalOfAppend ==
    ASSUME NEW items \in Seq(JarCookies), NEW c \in JarCookies
    PROVE  JarTotal(Append(items, c)) = JarTotal(items) + CookieBytes(c)
<1>1. PICK more, n, D : more = Append(items, c) /\ n = Len(items) + 1 /\ D = DOMAIN items
  OBVIOUS
<1>2. /\ more \in Seq(JarCookies) /\ DOMAIN more = D \cup {n} /\ n \notin D /\ more[n] = c
      /\ D \in SUBSET (DOMAIN more) /\ n \in DOMAIN more
      /\ \A i \in D : items[i] = more[i]
  BY <1>1
<1>3. Cardinality(ChargesAt(more, D \cup {n})) = Cardinality(ChargesAt(more, D)) + CookieBytes(c)
  BY <1>2, ChargesSplit
<1>4. ChargesAt(items, D) = ChargesAt(more, D)
  BY <1>2, ChargesAgree
<1>5. JarTotal(items) = Cardinality(ChargesAt(items, D)) /\ JarTotal(more) = Cardinality(ChargesAt(more, D \cup {n}))
  BY <1>1, <1>2, TotalIsCharges
<1> QED  BY <1>1, <1>3, <1>4, <1>5

\* One cookie for another.
LEMMA TotalOfReplaced ==
    ASSUME NEW items \in Seq(JarCookies), NEW i \in DOMAIN items, NEW c \in JarCookies
    PROVE  JarTotal([items EXCEPT ![i] = c]) = JarTotal(items) - CookieBytes(items[i]) + CookieBytes(c)
<1>1. PICK new, D : new = [items EXCEPT ![i] = c] /\ D = (DOMAIN items) \ {i}
  OBVIOUS
<1>2. /\ new \in Seq(JarCookies) /\ DOMAIN new = D \cup {i} /\ DOMAIN items = D \cup {i} /\ i \notin D
      /\ new[i] = c /\ D \in SUBSET (DOMAIN new) /\ i \in DOMAIN new /\ D \in SUBSET (DOMAIN items)
      /\ \A j \in D : items[j] = new[j]
  <2>1. new \in Seq(JarCookies) /\ DOMAIN new = DOMAIN items
    BY <1>1
  <2>2. new[i] = c /\ \A j \in D : items[j] = new[j]
    BY <1>1
  <2>3. DOMAIN items = D \cup {i} /\ i \notin D /\ D \in SUBSET (DOMAIN items)
    BY <1>1
  <2> QED  BY <2>1, <2>2, <2>3
<1>3. Cardinality(ChargesAt(new, D \cup {i})) = Cardinality(ChargesAt(new, D)) + CookieBytes(c)
  BY <1>2, ChargesSplit
<1>4. Cardinality(ChargesAt(items, D \cup {i})) = Cardinality(ChargesAt(items, D)) + CookieBytes(items[i])
  BY <1>2, ChargesSplit
<1>5. ChargesAt(items, D) = ChargesAt(new, D)
  BY <1>2, ChargesAgree
<1>6. JarTotal(items) = Cardinality(ChargesAt(items, D \cup {i})) /\ JarTotal(new) = Cardinality(ChargesAt(new, D \cup {i}))
  BY <1>2, TotalIsCharges
<1>7. Cardinality(ChargesAt(items, D)) \in Nat
  BY <1>2, ChargesAreFinite
<1>8. CookieBytes(items[i]) \in Nat /\ CookieBytes(c) \in Nat
  <2>1. items[i] \in JarCookies
    OBVIOUS
  <2> QED  BY <2>1, ChargeOfCookie, JarNumbers
<1> QED  BY <1>1, <1>3, <1>4, <1>5, <1>6, <1>7, <1>8

LEMMA ElementsJoined ==
    ASSUME NEW S, NEW head \in Seq(S), NEW tail \in Seq(S)
    PROVE  /\ head \o tail \in Seq(S) /\ Len(head \o tail) = Len(head) + Len(tail)
           /\ \A k \in 1 .. Len(head) + Len(tail) :
                 (head \o tail)[k] = IF k <= Len(head) THEN head[k] ELSE tail[k - Len(head)]
OBVIOUS

\* The sequence without one position.
LEMMA WithoutOne ==
    ASSUME NEW items \in Seq(JarCookies), NEW i \in DOMAIN items
    PROVE  /\ RemoveAt(items, i) \in Seq(JarCookies) /\ Len(RemoveAt(items, i)) = Len(items) - 1
           /\ \A k \in DOMAIN RemoveAt(items, i) :
                 RemoveAt(items, i)[k] = items[IF k < i THEN k ELSE k + 1]
<1>1. PICK head, tail : head = SubSeq(items, 1, i - 1) /\ tail = SubSeq(items, i + 1, Len(items))
  OBVIOUS
<1>2. head \in Seq(JarCookies) /\ Len(head) = i - 1 /\ \A k \in 1 .. i - 1 : head[k] = items[k]
  BY <1>1
<1>3. tail \in Seq(JarCookies) /\ Len(tail) = Len(items) - i /\ \A k \in 1 .. Len(items) - i : tail[k] = items[i + k]
  BY <1>1
<1>4. RemoveAt(items, i) = head \o tail
  BY <1>1 DEF RemoveAt
<1>5. /\ head \o tail \in Seq(JarCookies) /\ Len(head \o tail) = Len(items) - 1
      /\ \A k \in 1 .. Len(items) - 1 : (head \o tail)[k] = IF k < i THEN head[k] ELSE tail[k - (i - 1)]
  <2>1. i \in 1 .. Len(items) /\ Len(items) \in Nat
    OBVIOUS
  <2>2. PICK a, b \in Nat : a = i - 1 /\ b = Len(items) - i
    BY <2>1
  <2>3. Len(head) = a /\ Len(tail) = b /\ a + b = Len(items) - 1
    BY <1>2, <1>3, <2>1, <2>2
  <2>4. head \o tail \in Seq(JarCookies) /\ Len(head \o tail) = Len(head) + Len(tail)
    BY <1>2, <1>3, ElementsJoined
  <2>5. \A k \in 1 .. Len(head) + Len(tail) :
           (head \o tail)[k] = IF k <= Len(head) THEN head[k] ELSE tail[k - Len(head)]
    BY <1>2, <1>3, ElementsJoined
  <2>6. \A k, l \in Int : k <= l - 1 <=> k < l
    OBVIOUS
  <2> QED  BY <2>2, <2>3, <2>4, <2>5, <2>6
<1>6. ASSUME NEW k \in 1 .. Len(items) - 1
      PROVE  (head \o tail)[k] = items[IF k < i THEN k ELSE k + 1]
  <2>1. CASE k < i
    BY <1>2, <1>5, <2>1
  <2>2. CASE ~(k < i)
    <3>1. k - (i - 1) \in 1 .. Len(items) - i /\ i + (k - (i - 1)) = k + 1
      BY <2>2
    <3> QED  BY <1>3, <1>5, <2>2, <3>1
  <2> QED  BY <2>1, <2>2
<1>7. DOMAIN (head \o tail) = 1 .. Len(items) - 1
  BY <1>5
<1> QED  BY <1>4, <1>5, <1>6, <1>7

\* A cookie less.
LEMMA TotalOfRest ==
    ASSUME NEW items \in Seq(JarCookies), NEW i \in DOMAIN items
    PROVE  JarTotal(RemoveAt(items, i)) <= JarTotal(items) - CookieBytes(items[i])
<1>1. PICK rest, D : rest = RemoveAt(items, i) /\ D = (DOMAIN items) \ {i}
  OBVIOUS
<1>2. /\ rest \in Seq(JarCookies) /\ Len(rest) = Len(items) - 1
      /\ \A k \in DOMAIN rest : rest[k] = items[IF k < i THEN k ELSE k + 1]
  BY <1>1, WithoutOne
<1>3. D \in SUBSET (DOMAIN items) /\ i \notin D /\ DOMAIN items = D \cup {i}
  BY <1>1
<1>4. PICK S, T : S = ChargesAt(rest, DOMAIN rest) /\ T = ChargesAt(items, D)
  OBVIOUS
<1>5. IsFiniteSet(S) /\ Cardinality(S) \in Nat /\ IsFiniteSet(T) /\ Cardinality(T) \in Nat
  BY <1>2, <1>3, <1>4, ChargesAreFinite
<1>6. PICK f : f = [x \in S |-> <<IF x[1] < i THEN x[1] ELSE x[1] + 1, x[2]>>]
  OBVIOUS
<1>7. ASSUME NEW x \in S
      PROVE  \E k \in 1 .. Len(items) - 1, b \in Nat :
                /\ x = <<k, b>> /\ f[x] = <<IF k < i THEN k ELSE k + 1, b>> /\ f[x] \in T
  <2>1. PICK k \in DOMAIN rest : x \in {k} \X (1 .. CookieBytes(rest[k]))
    BY <1>4 DEF ChargesAt
  <2>2. PICK j : j = IF k < i THEN k ELSE k + 1
    OBVIOUS
  <2>3. k \in 1 .. Len(items) - 1 /\ rest[k] = items[j]
    BY <1>2, <2>1, <2>2
  <2>4. j \in D
    BY <1>1, <2>2, <2>3
  <2>5. PICK b \in 1 .. CookieBytes(items[j]) : x = <<k, b>>
    BY <2>1, <2>3
  <2>6. f[x] = <<j, b>>
    BY <1>6, <2>2, <2>5
  <2>7. <<j, b>> \in T
    BY <1>4, <2>4 DEF ChargesAt
  <2>8. b \in Nat
    BY <2>5
  <2> QED  BY <2>2, <2>3, <2>5, <2>6, <2>7, <2>8
<1>8. f \in Injection(S, T)
  <2>1. f \in [S -> T]
    BY <1>6, <1>7
  <2>2. ASSUME NEW x \in S, NEW y \in S, f[x] = f[y] PROVE x = y
    <3>1. PICK k \in 1 .. Len(items) - 1, b \in Nat : x = <<k, b>> /\ f[x] = <<IF k < i THEN k ELSE k + 1, b>>
      BY <1>7
    <3>2. PICK l \in 1 .. Len(items) - 1, c \in Nat : y = <<l, c>> /\ f[y] = <<IF l < i THEN l ELSE l + 1, c>>
      BY <1>7
    <3>3. b = c /\ (IF k < i THEN k ELSE k + 1) = (IF l < i THEN l ELSE l + 1)
      BY <2>2, <3>1, <3>2
    <3>4. k = l
      BY <3>3
    <3> QED  BY <3>1, <3>2, <3>3, <3>4
  <2> QED  BY <2>1, <2>2 DEF Injection, IsInjective
<1>9. Cardinality(S) <= Cardinality(T)
  BY <1>5, <1>8, FS_Injection
<1>10. Cardinality(ChargesAt(items, D \cup {i})) = Cardinality(T) + CookieBytes(items[i])
  BY <1>3, <1>4, ChargesSplit
<1>11. JarTotal(rest) = Cardinality(S) /\ JarTotal(items) = Cardinality(ChargesAt(items, D \cup {i}))
  BY <1>2, <1>3, <1>4, TotalIsCharges
<1>12. CookieBytes(items[i]) \in Nat
  <2>1. items[i] \in JarCookies
    OBVIOUS
  <2> QED  BY <2>1, ChargeOfCookie, JarNumbers
<1> QED  BY <1>1, <1>5, <1>9, <1>10, <1>11, <1>12

\* Storing keeps the accounts and the limits, whichever way it ends.
LEMMA SetKeepsAccounts ==
    ASSUME JarInv, NEW c \in JarCookies, CookieJarSetLocked(c)
    PROVE  jar' \in Seq(JarCookies) /\ JarBytesAreExact'
<1>1. /\ jar \in Seq(JarCookies) /\ jarBytes = JarTotal(jar) /\ jarBytes <= JarMaxBytes
      /\ Len(jar) <= JarMaxCookies /\ \A i, j \in DOMAIN jar : i # j => ~SameCookie(jar[i], jar[j])
  BY DEF JarInv, JarTyped, JarBytesAreExact
<1>2. jarBytes \in Nat /\ JarMaxBytes \in Nat /\ JarMaxCookies \in Nat /\ CookieBytes(c) \in Nat /\ Len(jar) \in Nat
  BY <1>1, TotalIsCharges, ChargeOfCookie, JarNumbers
<1>3. PICK old : old = {i \in DOMAIN jar : SameCookie(jar[i], c)}
  OBVIOUS
<1>4. CASE old # {}
  <2>1. PICK i : i = Min(old)
    OBVIOUS
  <2>2. old \in SUBSET Nat
    BY <1>1, <1>3
  <2>3. i \in DOMAIN jar /\ SameCookie(jar[i], c)
    BY <1>3, <1>4, <2>1, <2>2, MinIsMember
  <2>4. CookieBytes(jar[i]) \in Nat
    <3>1. jar[i] \in JarCookies
      BY <1>1, <2>3
    <3> QED  BY <3>1, ChargeOfCookie, JarNumbers
  <2>5. PICK bytes : bytes = jarBytes - CookieBytes(jar[i]) + CookieBytes(c)
    OBVIOUS
  <2>6. IF bytes > JarMaxBytes
        THEN jar' = RemoveAt(jar, i) /\ jarBytes' = JarTotal(RemoveAt(jar, i))
        ELSE jar' = [jar EXCEPT ![i] = c] /\ jarBytes' = bytes
    BY <1>3, <1>4, <2>1, <2>5 DEF CookieJarSetLocked
  <2>7. CASE bytes > JarMaxBytes
    <3>1. /\ jar' \in Seq(JarCookies) /\ Len(jar') = Len(jar) - 1
          /\ \A k \in DOMAIN jar' : jar'[k] = jar[IF k < i THEN k ELSE k + 1]
      BY <1>1, <2>3, <2>6, <2>7, WithoutOne
    <3>2. jarBytes' = JarTotal(jar') /\ JarTotal(jar') <= jarBytes - CookieBytes(jar[i]) /\ jarBytes' \in Nat
      BY <1>1, <2>3, <2>6, <2>7, <3>1, TotalOfRest, TotalIsCharges
    <3>3. jarBytes' <= JarMaxBytes /\ Len(jar') <= JarMaxCookies
      BY <1>1, <1>2, <2>4, <3>1, <3>2
    <3>4. ASSUME NEW k \in DOMAIN jar', NEW l \in DOMAIN jar', k # l PROVE ~SameCookie(jar'[k], jar'[l])
      <4>1. PICK m, n : m = (IF k < i THEN k ELSE k + 1) /\ n = (IF l < i THEN l ELSE l + 1)
        OBVIOUS
      <4>2. k \in 1 .. Len(jar) - 1 /\ l \in 1 .. Len(jar) - 1 /\ i \in Nat
        BY <1>1, <2>3, <3>1
      <4>3. m \in DOMAIN jar /\ n \in DOMAIN jar /\ m # n
        BY <1>1, <3>4, <4>1, <4>2
      <4> QED  BY <1>1, <3>1, <4>1, <4>3
    <3> QED  BY <3>1, <3>2, <3>3, <3>4 DEF JarBytesAreExact
  <2>8. CASE ~(bytes > JarMaxBytes)
    <3>1. jar' = [jar EXCEPT ![i] = c] /\ jarBytes' = bytes
      BY <2>6, <2>8
    <3>2. jar' \in Seq(JarCookies) /\ Len(jar') = Len(jar) /\ DOMAIN jar' = DOMAIN jar
      BY <1>1, <2>3, <3>1
    <3>3. JarTotal(jar') = bytes
      BY <1>1, <2>3, <2>5, <3>1, TotalOfReplaced
    <3>4. jarBytes' <= JarMaxBytes
      BY <1>2, <2>4, <2>5, <2>8, <3>1
    <3>5. ASSUME NEW k \in DOMAIN jar', NEW l \in DOMAIN jar', k # l PROVE ~SameCookie(jar'[k], jar'[l])
      <4>1. \A n \in DOMAIN jar : n # i => ~SameCookie(jar[n], c) /\ ~SameCookie(c, jar[n])
        BY <1>1, <2>3 DEF SameCookie
      <4>2. \A n \in DOMAIN jar : jar'[n] = IF n = i THEN c ELSE jar[n]
        BY <1>1, <2>3, <3>1
      <4> QED  BY <1>1, <3>2, <3>5, <4>1, <4>2
    <3> QED  BY <1>1, <3>1, <3>2, <3>3, <3>4, <3>5 DEF JarBytesAreExact
  <2> QED  BY <2>7, <2>8
<1>5. CASE old = {}
  <2>1. CASE Len(jar) < JarMaxCookies /\ jarBytes + CookieBytes(c) <= JarMaxBytes
    <3>1. jar' = Append(jar, c) /\ jarBytes' = jarBytes + CookieBytes(c)
      BY <1>3, <1>5, <2>1 DEF CookieJarSetLocked
    <3>2. jar' \in Seq(JarCookies) /\ Len(jar') = Len(jar) + 1
      BY <1>1, <3>1
    <3>3. JarTotal(jar') = jarBytes'
      BY <1>1, <3>1, TotalOfAppend
    <3>4. jarBytes' <= JarMaxBytes /\ Len(jar') <= JarMaxCookies
      BY <1>2, <2>1, <3>1, <3>2
    <3>5. ASSUME NEW k \in DOMAIN jar', NEW l \in DOMAIN jar', k # l PROVE ~SameCookie(jar'[k], jar'[l])
      <4>1. \A n \in DOMAIN jar : ~SameCookie(jar[n], c) /\ ~SameCookie(c, jar[n])
        BY <1>3, <1>5 DEF SameCookie
      <4>2. \A n \in DOMAIN jar' : (n \in DOMAIN jar /\ jar'[n] = jar[n]) \/ (n = Len(jar) + 1 /\ jar'[n] = c)
        BY <1>1, <3>1
      <4> QED  BY <1>1, <3>5, <4>1, <4>2
    <3> QED  BY <3>2, <3>3, <3>4, <3>5 DEF JarBytesAreExact
  <2>2. CASE ~(Len(jar) < JarMaxCookies /\ jarBytes + CookieBytes(c) <= JarMaxBytes)
    <3>1. UNCHANGED <<jar, jarBytes>>
      BY <1>3, <1>5, <2>2 DEF CookieJarSetLocked
    <3> QED  BY <1>1, <3>1 DEF JarBytesAreExact
  <2> QED  BY <2>1, <2>2
<1> QED  BY <1>4, <1>5

\* What a Set-Cookie line makes is such a cookie.
LEMMA StoreKeepsAccounts ==
    ASSUME JarInv, NEW line \in SetCookieLines, NEW url \in JarUrls, CookieJarStoreFromSetCookie(line, url)
    PROVE  jar' \in Seq(JarCookies) /\ JarBytesAreExact'
<1>1. jar \in Seq(JarCookies) /\ JarBytesAreExact /\ jarNow \in Nat
  BY DEF JarInv, JarTyped
<1>2. CASE CookieValidateDomainAttribute(url.host, line.domain) /\ line.kind # "none"
  <2>1. CookieJarSetLocked(NewCookie(line, url))
    BY <1>2 DEF CookieJarStoreFromSetCookie
  <2>2. /\ line.name \in JarNames /\ line.length \in 0 .. JarMaxValue /\ line.domain \in Seq(STRING)
        /\ line.kind \in {"lax", "secure", "none", "none secure"} /\ line.age \in Nat
        /\ url.host \in JarHosts /\ url.path = <<"a", "b">>
    <3>1. /\ line.name \in JarNames /\ line.length \in 0 .. JarMaxValue /\ line.domain \in JarDomains
          /\ line.kind \in {"lax", "secure", "none", "none secure"} /\ line.age \in {0, 1, SessionCookie}
      BY DEF SetCookieLines
    <3>2. JarDomains \subseteq Seq(STRING)
      BY JarConstants
    <3>3. SessionCookie \in Nat
      BY JarNumbers DEF SessionCookie
    <3>4. url.host \in JarHosts /\ url.path = <<"a", "b">>
      BY DEF JarUrls
    <3>5. \A a, n : n \in Nat /\ a \in {0, 1, n} => a \in Nat
      OBVIOUS
    <3>6. line.age \in Nat
      BY <3>1, <3>3, <3>5, Zenon
    <3> QED  BY <3>1, <3>2, <3>4, <3>6
  <2>3. url.host \in Seq(STRING) /\ ~CookieIsPublicSuffix(url.host)
    BY <2>2, JarConstants DEF CookieIsPublicSuffix
  <2>4. PICK c : c = NewCookie(line, url)
    OBVIOUS
  <2>5. c \in [name : JarNames, length : 0 .. JarMaxValue, kind : {"lax", "secure", "none", "none secure"},
               hostOnly : BOOLEAN, storedFor : JarHosts, domain : Seq(STRING),
               path : {CookieDefaultPath(<<"a", "b">>)}, expires : Nat]
    <3>1. PICK e : e = IF line.age = SessionCookie THEN SessionCookie ELSE jarNow + line.age
      OBVIOUS
    <3>2. e \in Nat
      <4>1. SessionCookie \in Nat
        BY JarNumbers DEF SessionCookie
      <4>2. \A a, n \in Nat : a + n \in Nat
        OBVIOUS
      <4>3. jarNow + line.age \in Nat
        BY <1>1, <2>2, <4>2
      <4> QED  BY <3>1, <4>1, <4>3
    <3>3. PICK d : d = IF line.domain = << >> THEN url.host ELSE line.domain
      OBVIOUS
    <3>4. d \in Seq(STRING)
      BY <2>2, <2>3, <3>3
    <3> QED  BY <2>2, <2>4, <3>1, <3>2, <3>3, <3>4 DEF NewCookie
  <2>6. IF c.hostOnly THEN c.domain = c.storedFor
        ELSE CookieDomainMatch(c.domain, c.storedFor) /\ ~CookieIsPublicSuffix(c.domain)
    BY <1>2, <2>3, <2>4 DEF NewCookie, CookieValidateDomainAttribute
  <2>7. c \in JarCookies
    BY <2>5, <2>6 DEF JarCookies
  <2> QED  BY <2>1, <2>4, <2>7, SetKeepsAccounts
<1>3. CASE ~(CookieValidateDomainAttribute(url.host, line.domain) /\ line.kind # "none")
  <2>1. UNCHANGED <<jar, jarBytes>>
    BY <1>3 DEF CookieJarStoreFromSetCookie
  <2> QED  BY <1>1, <2>1 DEF JarBytesAreExact
<1> QED  BY <1>2, <1>3

LEMMA JarInitially ==
    JarInit => JarInv
<1> SUFFICES ASSUME JarInit PROVE JarInv
  OBVIOUS
<1>1. JarTyped
  BY DEF JarInit, JarTyped
<1>2. JarBytesAreExact
  BY TotalOfNone, JarNumbers DEF JarInit, JarBytesAreExact
<1>3. CookieStaysOnItsSite
  BY DEF JarInit, NothingSent, CookieStaysOnItsSite
<1> QED  BY <1>1, <1>2, <1>3 DEF JarInv

LEMMA JarSteps ==
    JarInv /\ [JarNext]_jarVars => JarInv'
<1> SUFFICES ASSUME JarInv, [JarNext]_jarVars PROVE JarInv'
  OBVIOUS
<1>1. JarTyped /\ JarBytesAreExact /\ CookieStaysOnItsSite
  BY DEF JarInv
<1>2. ASSUME NEW t \in JarThreads, PrepareRequest(t) PROVE JarInv'
  <2>1. PICK url \in JarUrls :
           /\ jarSent' = [cookies |-> CookieJarBuildHeader(url), url |-> url]
           /\ jarCall' = [jarCall EXCEPT ![t] = [at |-> "sent", url |-> url]]
    BY <1>2 DEF PrepareRequest
  <2>2. UNCHANGED <<jar, jarBytes, jarNow>>
    BY <1>2 DEF PrepareRequest
  <2>3. JarTyped'
    BY <1>1, <2>1, <2>2 DEF JarTyped
  <2>4. JarBytesAreExact'
    BY <1>1, <2>2 DEF JarBytesAreExact
  <2>5. CookieStaysOnItsSite'
    <3> SUFFICES ASSUME NEW c \in jarSent'.cookies
                 PROVE  /\ ~MissingSuffix(c.domain) =>
                             CookieRegistrableDomain(c.storedFor) = CookieRegistrableDomain(jarSent'.url.host)
                        /\ c.hostOnly => c.storedFor = jarSent'.url.host
      BY DEF CookieStaysOnItsSite
    <3>1. c \in CookieJarBuildHeader(url) /\ jarSent'.url = url
      BY <2>1
    <3>2. PICK i \in DOMAIN jar : c = jar[i] /\ SendsCookie(jar[i], url)
      BY <3>1 DEF CookieJarBuildHeader
    <3>3. c \in JarCookies /\ SendsCookie(c, url)
      BY <1>1, <3>2 DEF JarTyped
    <3> QED  BY <3>1, <3>3, SentToItsSite
  <2> QED  BY <2>3, <2>4, <2>5 DEF JarInv
<1>3. ASSUME jarSent' = NothingSent PROVE CookieStaysOnItsSite'
  BY <1>3 DEF NothingSent, CookieStaysOnItsSite
<1>4. ASSUME NEW t \in JarThreads, SendCore(t) PROVE JarInv'
  <2>1. jarCall[t].at = "sent" /\ jarCall' = [jarCall EXCEPT ![t] = JarIdle] /\ jarNow' = jarNow /\ jarSent' = NothingSent
    BY <1>4 DEF SendCore
  <2>2. jarCall[t].url \in JarUrls
    BY <1>1, <2>1 DEF JarTyped, JarIdle
  <2>3. jar' \in Seq(JarCookies) /\ JarBytesAreExact'
    <3>1. CASE UNCHANGED <<jar, jarBytes>>
      BY <1>1, <3>1 DEF JarTyped, JarBytesAreExact
    <3>2. CASE \E line \in SetCookieLines : CookieJarStoreFromSetCookie(line, jarCall[t].url)
      BY <2>2, <3>2, StoreKeepsAccounts
    <3> QED  BY <1>4, <3>1, <3>2 DEF SendCore
  <2>4. JarTyped'
    BY <1>1, <2>1, <2>3 DEF JarTyped
  <2> QED  BY <1>3, <2>1, <2>3, <2>4 DEF JarInv
<1>5. ASSUME CookieJarClear PROVE JarInv'
  <2>1. jar' = << >> /\ jarBytes' = 0 /\ jarSent' = NothingSent /\ UNCHANGED <<jarNow, jarCall>>
    BY <1>5 DEF CookieJarClear
  <2>2. JarTyped'
    BY <1>1, <2>1 DEF JarTyped
  <2>3. JarBytesAreExact'
    BY <2>1, TotalOfNone, JarNumbers DEF JarBytesAreExact
  <2> QED  BY <1>3, <2>1, <2>2, <2>3 DEF JarInv
<1>6. ASSUME JarTick PROVE JarInv'
  <2>1. jarNow' = jarNow + 1 /\ jarSent' = NothingSent /\ UNCHANGED <<jar, jarBytes, jarCall>>
    BY <1>6 DEF JarTick
  <2>2. JarTyped'
    BY <1>1, <2>1 DEF JarTyped
  <2>3. JarBytesAreExact'
    BY <1>1, <2>1 DEF JarBytesAreExact
  <2> QED  BY <1>3, <2>1, <2>2, <2>3 DEF JarInv
<1>7. CASE UNCHANGED jarVars
  BY <1>1, <1>7 DEF JarInv, JarTyped, JarBytesAreExact, CookieStaysOnItsSite, jarVars
<1> QED  BY <1>2, <1>4, <1>5, <1>6, <1>7 DEF JarNext

(* With any hosts, table of suffixes, names, values and limits, the bytes     *)
(* charged are those of the cookies held, no cookie is held twice, and a       *)
(* cookie goes to the site of the request it was stored for                    *)
(* (CookieJarSetLocked, CookieValidateDomainAttribute, CookieJarBuildHeader).  *)
THEOREM JarSound == JarSpec => []JarIsSound
<1>1. JarInv => JarIsSound
  BY DEF JarInv, JarIsSound
<1> QED  BY <1>1, JarInitially, JarSteps, PTL DEF JarSpec

----------------------------------------
\* Redirects. The credentials among the headers belong to the origin in
\* the URL (RqSendOK), which is the one the redirects led to; a name in
\* the Host buffer fits the host wherever TLS is used (NameFits).

RqHeaderNames == RqNames \cup {"content-type"}
HeadersOK(h) == \E V : h \in Seq([name : RqHeaderNames, value : V])

RequestOK(r) ==
    /\ r = [state |-> "live", url |-> r.url, method |-> r.method, headers |-> r.headers,
            trailers |-> r.trailers, body |-> r.body, mode |-> r.mode, tls |-> r.tls,
            override |-> r.override, pooled |-> r.pooled, family |-> r.family,
            boundary |-> r.boundary]
    /\ HeadersOK(r.headers)
    /\ r.override \in BOOLEAN /\ (~r.override => r.tls.at \in {"none", "host"})

UrlOK(p) == p.port # 0 /\ RqNormalizeHost(p.host) = p.host

NameFits(r) ==
    r.url.scheme = "https" /\ ~r.override => r.tls.at = "none" \/ r.tls.sized = r.url.host

Carries(r) == \E i \in DOMAIN r.headers : r.headers[i].name \in RqSensitive

RqRequestsOK ==
    /\ rqCalls = [setters |-> rqCalls.setters, urls |-> rqCalls.urls] /\ rqCalls.urls \in Nat
    /\ rqReq # RqGone =>
        /\ RequestOK(rqReq)
        /\ rqReq.url = RqGone \/ UrlOK(rqReq.url)
        /\ rqCalls.urls = 0 => rqReq.url = RqGone /\ (rqReq.override \/ rqReq.tls.at = "none")
        /\ rqCalls.urls = 1 => rqReq.url = RqGone \/ NameFits(rqReq)

IsMust(m) == m = [first |-> m.first, origin |-> m.origin, target |-> m.target,
                  method |-> m.method, body |-> m.body, secure |-> m.secure]

\* What a send owes to the redirects followed so far.
OwnsUp(r, must) ==
    /\ RequestOK(r) /\ UrlOK(r.url) /\ IsMust(must)
    /\ must.origin = RqOrigin(r.url) /\ must.method = r.method
    /\ must.secure => r.url.scheme = "https"
    /\ Carries(r) => must.first = RqOrigin(r.url)

RqSendOK ==
    rqPhase # "idle" =>
        /\ rqFollowed \in Nat
        /\ rqClone # RqGone \/ (~rqAsync /\ rqFollowed = 0 /\ rqReq # RqGone /\ rqReq.url # RqGone)
        /\ OwnsUp(RqCurrent, rqMust)
        /\ rqClone # RqGone \/ rqCalls.urls = 1 => NameFits(RqCurrent)

\* A message goes where the redirects led, with the method they leave.
HopsKeepTheirCourse ==
    rqPhase = "answer" => rqWire.origin = rqMust.origin /\ rqWire.method = rqMust.method

RqInv == RqRequestsOK /\ RqSendOK /\ CredentialsStayWithOrigin /\ HopsKeepTheirCourse

----------------------------------------
(* The setters *)

SameAddress(r, q) == q.url = r.url /\ q.tls = r.tls /\ q.override = r.override

\* Every outcome is a request at the same address.
Good(r, outs) == \A o \in outs : RequestOK(o.req) /\ SameAddress(r, o.req)

LEMMA AppendedHeader ==
    ASSUME NEW h, HeadersOK(h), NEW n \in RqHeaderNames, NEW v
    PROVE  HeadersOK(Append(h, [name |-> n, value |-> v]))
<1>1. PICK V : h \in Seq([name : RqHeaderNames, value : V])
  BY DEF HeadersOK
<1>a. PICK A, B : A = [name : RqHeaderNames, value : V] /\ B = [name : RqHeaderNames, value : V \cup {v}]
  OBVIOUS
<1>b. A \subseteq B
  BY <1>a
<1>c. h \in Seq(A)
  BY <1>1, <1>a
<1>d. h \in Seq(B)
  BY <1>b, <1>c
<1>2. h \in Seq([name : RqHeaderNames, value : V \cup {v}])
  BY <1>a, <1>d
<1>3. [name |-> n, value |-> v] \in [name : RqHeaderNames, value : V \cup {v}]
  OBVIOUS
<1>4. Append(h, [name |-> n, value |-> v]) \in Seq([name : RqHeaderNames, value : V \cup {v}])
  BY <1>2, <1>3
<1> QED  BY <1>4 DEF HeadersOK

\* Headers that are left are among those there were.
LEMMA RemovedHeaders ==
    ASSUME NEW h, HeadersOK(h), NEW P \in SUBSET (DOMAIN h), NEW rest, rest = EntriesAt(h, P)
    PROVE  HeadersOK(rest) /\ \A k \in DOMAIN rest : \E i \in P : rest[k] = h[i]
<1>1. PICK V : h \in Seq([name : RqHeaderNames, value : V])
  BY DEF HeadersOK
<1>2. PICK S : S = [name : RqHeaderNames, value : V]
  OBVIOUS
<1>3. h \in Seq(S)
  BY <1>1, <1>2
<1>4. /\ EntriesAt(h, P) \in Seq(S)
      /\ \A k \in DOMAIN EntriesAt(h, P) : \E i \in P : EntriesAt(h, P)[k] = h[i]
  BY <1>3, EntriesAtPositions
<1>5. rest \in Seq([name : RqHeaderNames, value : V])
  BY <1>2, <1>4
<1> QED  BY <1>4, <1>5 DEF HeadersOK

LEMMA HeadersChange ==
    ASSUME NEW r, RequestOK(r), NEW h, HeadersOK(h), NEW q, q = [r EXCEPT !.headers = h]
    PROVE  RequestOK(q) /\ SameAddress(r, q) /\ q.headers = h /\ q.method = r.method
BY DEF RequestOK, SameAddress

LEMMA ModeChanges ==
    ASSUME NEW r, RequestOK(r), NEW m, NEW q, q = [r EXCEPT !.mode = m]
    PROVE  RequestOK(q) /\ SameAddress(r, q)
BY DEF RequestOK, SameAddress

LEMMA FieldsChange ==
    ASSUME NEW r, RequestOK(r)
    PROVE  /\ \A b : RequestOK([r EXCEPT !.body = b]) /\ SameAddress(r, [r EXCEPT !.body = b])
           /\ \A m : RequestOK([r EXCEPT !.mode = m]) /\ SameAddress(r, [r EXCEPT !.mode = m])
           /\ \A m : RequestOK([r EXCEPT !.method = m]) /\ SameAddress(r, [r EXCEPT !.method = m])
           /\ \A x : RequestOK([r EXCEPT !.pooled = x]) /\ SameAddress(r, [r EXCEPT !.pooled = x])
           /\ \A x : RequestOK([r EXCEPT !.family = x]) /\ SameAddress(r, [r EXCEPT !.family = x])
           /\ \A x : RequestOK([r EXCEPT !.boundary = x]) /\ SameAddress(r, [r EXCEPT !.boundary = x])
           /\ \A x : RequestOK([r EXCEPT !.trailers = x]) /\ SameAddress(r, [r EXCEPT !.trailers = x])
           /\ \A b, m : RequestOK([r EXCEPT !.body = b, !.mode = m])
                        /\ SameAddress(r, [r EXCEPT !.body = b, !.mode = m])
<1>1. \A b : RequestOK([r EXCEPT !.body = b]) /\ SameAddress(r, [r EXCEPT !.body = b])
  BY DEF RequestOK, SameAddress
<1>2. \A m : RequestOK([r EXCEPT !.mode = m]) /\ SameAddress(r, [r EXCEPT !.mode = m])
  BY DEF RequestOK, SameAddress
<1>3. \A m : RequestOK([r EXCEPT !.method = m]) /\ SameAddress(r, [r EXCEPT !.method = m])
  BY DEF RequestOK, SameAddress
<1>4. \A x : RequestOK([r EXCEPT !.pooled = x]) /\ SameAddress(r, [r EXCEPT !.pooled = x])
  BY DEF RequestOK, SameAddress
<1>5. \A x : RequestOK([r EXCEPT !.family = x]) /\ SameAddress(r, [r EXCEPT !.family = x])
  BY DEF RequestOK, SameAddress
<1>6. \A x : RequestOK([r EXCEPT !.boundary = x]) /\ SameAddress(r, [r EXCEPT !.boundary = x])
  BY DEF RequestOK, SameAddress
<1>7. \A x : RequestOK([r EXCEPT !.trailers = x]) /\ SameAddress(r, [r EXCEPT !.trailers = x])
  BY DEF RequestOK, SameAddress
<1>8. ASSUME NEW b, NEW m
      PROVE  RequestOK([r EXCEPT !.body = b, !.mode = m]) /\ SameAddress(r, [r EXCEPT !.body = b, !.mode = m])
  <2>1. PICK q : q = [r EXCEPT !.body = b]
    OBVIOUS
  <2>2. [r EXCEPT !.body = b, !.mode = m] = [q EXCEPT !.mode = m]
    BY <2>1
  <2>3. RequestOK(q) /\ SameAddress(r, q)
    BY <1>1, <2>1
  <2>4. RequestOK([q EXCEPT !.mode = m]) /\ SameAddress(q, [q EXCEPT !.mode = m])
    BY <2>3, ModeChanges
  <2> QED  BY <2>2, <2>3, <2>4 DEF SameAddress
<1> QED  BY <1>1, <1>2, <1>3, <1>4, <1>5, <1>6, <1>7, <1>8

\* A call that always succeeds.
LEMMA OneOutcome ==
    ASSUME NEW r, NEW q, RequestOK(q), SameAddress(r, q)
    PROVE  Good(r, {RqOk(q)})
BY DEF Good, RqOk

LEMMA RemoveHeaders ==
    ASSUME NEW r, RequestOK(r), NEW names, NEW q, q = RqRemoveHeaders(r, names)
    PROVE  /\ RequestOK(q) /\ SameAddress(r, q) /\ q.method = r.method
           /\ \A k \in DOMAIN q.headers : \E i \in DOMAIN r.headers :
                 q.headers[k] = r.headers[i] /\ r.headers[i].name \notin names
<1>a. PICK P : P = {i \in DOMAIN r.headers : r.headers[i].name \notin names}
  OBVIOUS
<1>1. PICK rest : rest = EntriesAt(r.headers, P)
  OBVIOUS
<1>2. q = [r EXCEPT !.headers = rest]
  BY <1>a, <1>1 DEF RqRemoveHeaders
<1>3. /\ HeadersOK(rest)
      /\ \A k \in DOMAIN rest : \E i \in DOMAIN r.headers :
            rest[k] = r.headers[i] /\ r.headers[i].name \notin names
  <2>1. PICK h : h = r.headers
    OBVIOUS
  <2>2. HeadersOK(h) /\ P \in SUBSET (DOMAIN h) /\ rest = EntriesAt(h, P)
    BY <1>a, <1>1, <2>1 DEF RequestOK
  <2>3. HeadersOK(rest) /\ \A k \in DOMAIN rest : \E i \in P : rest[k] = h[i]
    BY <2>2, RemovedHeaders
  <2> QED  BY <1>a, <2>1, <2>3
<1>4. RequestOK(q) /\ SameAddress(r, q) /\ q.headers = rest /\ q.method = r.method
  BY <1>2, <1>3, HeadersChange
<1> QED  BY <1>3, <1>4

LEMMA AddHeader ==
    ASSUME NEW r, RequestOK(r), NEW n \in RqHeaderNames, NEW v
    PROVE  Good(r, RqAddStoredHeader(r, n, v))
<1>a. PICK h : h = Append(r.headers, [name |-> n, value |-> v])
  OBVIOUS
<1>1. HeadersOK(h)
  BY <1>a, AppendedHeader DEF RequestOK
<1>b. PICK q : q = [r EXCEPT !.headers = h]
  OBVIOUS
<1>2. q = [r EXCEPT !.headers = Append(@, [name |-> n, value |-> v])]
  BY <1>a, <1>b
<1>3. RequestOK(q) /\ SameAddress(r, q) /\ SameAddress(r, r)
  BY <1>1, <1>b, HeadersChange DEF SameAddress
<1>4. \A o \in RqAddStoredHeader(r, n, v) : o.req \in {r, q}
  BY <1>2 DEF RqAddStoredHeader, RqShort, RqFails, RqOk
<1> QED  BY <1>3, <1>4 DEF Good

LEMMA AddTrailer ==
    ASSUME NEW r, RequestOK(r), NEW n
    PROVE  Good(r, RqAddStoredTrailer(r, n))
<1>1. PICK q : q = [r EXCEPT !.trailers = Append(@, n)]
  OBVIOUS
<1>2. RequestOK(q) /\ SameAddress(r, q) /\ SameAddress(r, r)
  BY <1>1, FieldsChange DEF SameAddress
<1>3. \A o \in RqAddStoredTrailer(r, n) : o.req \in {r, q}
  BY <1>1 DEF RqAddStoredTrailer, RqShort, RqFails, RqOk
<1> QED  BY <1>2, <1>3 DEF Good

LEMMA ReplaceContentType ==
    ASSUME NEW r, RequestOK(r), NEW v
    PROVE  Good(r, RqReplaceContentType(r, v))
<1>1. PICK q : q = RqRemoveStoredHeaders(r, "content-type")
  OBVIOUS
<1>2. RequestOK(q) /\ SameAddress(r, q)
  BY <1>1, RemoveHeaders DEF RqRemoveStoredHeaders
<1>3. Good(q, RqAddStoredHeader(q, "content-type", v))
  BY <1>2, AddHeader DEF RqHeaderNames
<1> QED  BY <1>1, <1>2, <1>3 DEF RqReplaceContentType, Good, SameAddress

LEMMA BuildOwnedBody ==
    ASSUME NEW r, RequestOK(r), NEW items
    PROVE  Good(r, RqBuildOwnedBody(r, items)) /\ Good(r, RqAppendFile(r, items))
<1>1. PICK b, q : /\ q = [r EXCEPT !.body = RqNoBody]
                  /\ b = [r EXCEPT !.body = [has |-> TRUE, from |-> "owned", items |-> items, known |-> TRUE]]
  OBVIOUS
<1>2. RequestOK(q) /\ SameAddress(r, q) /\ RequestOK(b) /\ SameAddress(r, b)
  BY <1>1, FieldsChange
<1>3. \A o \in RqAppendFile(r, items) : o.req \in {q, b}
  BY <1>1 DEF RqAppendFile, RqBuildOwnedBody, RqAbortOwnedBodyBuild, RqShort, RqFails, RqOk
<1>4. RqBuildOwnedBody(r, items) \subseteq RqAppendFile(r, items)
  BY DEF RqAppendFile
<1> QED  BY <1>2, <1>3, <1>4 DEF Good

LEMMA ThenType ==
    ASSUME NEW r, NEW outs, Good(r, outs), NEW v
    PROVE  Good(r, RqThenType(outs, v))
<1>1. ASSUME NEW o \in outs, NEW p \in RqReplaceContentType(o.req, v)
      PROVE  RequestOK(p.req) /\ SameAddress(r, p.req)
  <2>1. Good(o.req, RqReplaceContentType(o.req, v)) /\ SameAddress(r, o.req)
    BY <1>1, ReplaceContentType DEF Good
  <2> QED  BY <1>1, <2>1 DEF Good, SameAddress
<1>2. ASSUME NEW p \in RqThenType(outs, v)
      PROVE  \E o \in outs : p = o \/ p \in RqReplaceContentType(o.req, v)
  BY <1>2 DEF RqThenType
<1> QED  BY <1>1, <1>2 DEF Good

LEMMA BodySetters ==
    ASSUME NEW r, RequestOK(r), NEW t
    PROVE  /\ Good(r, RqSetUrlEncodedBody(r, t)) /\ Good(r, RqSetMultipart(r, t))
           /\ Good(r, RqSetTextBody(r, t)) /\ Good(r, RqSetRawBody(r, t)) /\ Good(r, RqSetFileBody(r, t))
           /\ Good(r, RqSetBody(r)) /\ (\A known : Good(r, RqSetBodySource(r, t, known)))
           /\ Good(r, RqClearBody(r)) /\ (\A m : Good(r, RqSetBodyMode(r, m)))
<1>1. Good(r, RqSetUrlEncodedBody(r, t))
  BY BuildOwnedBody, ThenType DEF RqSetUrlEncodedBody
<1>2. Good(r, RqSetMultipart(r, t))
  <2>1. PICK g : g = RqGenerateMultipartBoundary(r)
    OBVIOUS
  <2>2. RequestOK(g) /\ SameAddress(r, g)
    BY <2>1, FieldsChange DEF RqGenerateMultipartBoundary
  <2>3. PICK items, b : RqSetMultipart(r, t) = RqThenType(RqBuildOwnedBody(g, items), b)
    BY <2>1 DEF RqSetMultipart
  <2>4. Good(g, RqThenType(RqBuildOwnedBody(g, items), b))
    BY <2>2, BuildOwnedBody, ThenType
  <2> QED  BY <2>2, <2>3, <2>4 DEF Good, SameAddress
<1>3. Good(r, RqSetTextBody(r, t)) /\ Good(r, RqSetRawBody(r, t)) /\ Good(r, RqSetFileBody(r, t))
  BY BuildOwnedBody, ThenType DEF RqSetTextBody, RqSetRawBody, RqSetFileBody
<1>4. PICK q : q = RqReleaseOwnedBody(r)
  OBVIOUS
<1>5. RequestOK(q) /\ SameAddress(r, q)
  BY <1>4, FieldsChange DEF RqReleaseOwnedBody
<1>6. Good(r, RqSetBody(r))
  <2>1. PICK b : RqSetBody(r) = {RqOk([q EXCEPT !.body = b])}
    BY <1>4 DEF RqSetBody
  <2>2. PICK p : p = [q EXCEPT !.body = b]
    OBVIOUS
  <2>3. RequestOK(p) /\ SameAddress(q, p)
    BY <1>5, <2>2, FieldsChange
  <2>4. SameAddress(r, p)
    BY <1>5, <2>3 DEF SameAddress
  <2> QED  BY <2>1, <2>2, <2>3, <2>4, OneOutcome
<1>7. ASSUME NEW known PROVE Good(r, RqSetBodySource(r, t, known))
  <2>1. PICK b, m : RqSetBodySource(r, t, known) = {RqOk([q EXCEPT !.body = b, !.mode = m])}
    BY <1>4 DEF RqSetBodySource
  <2>2. PICK p : p = [q EXCEPT !.body = b, !.mode = m]
    OBVIOUS
  <2>3. RequestOK(p) /\ SameAddress(q, p)
    BY <1>5, <2>2, FieldsChange
  <2>4. SameAddress(r, p)
    BY <1>5, <2>3 DEF SameAddress
  <2> QED  BY <2>1, <2>2, <2>3, <2>4, OneOutcome
<1>8. Good(r, RqClearBody(r))
  <2>1. RequestOK(RqRemoveStoredHeaders(q, "content-type")) /\ SameAddress(q, RqRemoveStoredHeaders(q, "content-type"))
    BY <1>5, RemoveHeaders DEF RqRemoveStoredHeaders
  <2> QED  BY <1>4, <1>5, <2>1 DEF Good, SameAddress, RqOk, RqClearBody
<1>9. ASSUME NEW m PROVE Good(r, RqSetBodyMode(r, m))
  <2>1. PICK p : p = [r EXCEPT !.mode = m]
    OBVIOUS
  <2>2. RequestOK(p) /\ SameAddress(r, p) /\ SameAddress(r, r)
    BY <2>1, FieldsChange DEF SameAddress
  <2>3. \A o \in RqSetBodyMode(r, m) : o.req \in {r, p}
    BY <2>1 DEF RqSetBodyMode, RqFails, RqOk
  <2> QED  BY <2>2, <2>3 DEF Good
<1> QED  BY <1>1, <1>2, <1>3, <1>6, <1>7, <1>8, <1>9

----------------------------------------
(* The application's calls *)

LEMMA UrlChanges ==
    ASSUME NEW r, RequestOK(r), NEW p, NEW q, q = [r EXCEPT !.url = p]
    PROVE  /\ RequestOK(q) /\ q.url = p /\ q.tls = r.tls /\ q.override = r.override
           /\ q.headers = r.headers /\ q.method = r.method
BY DEF RequestOK

LEMMA TlsChanges ==
    ASSUME NEW r, RequestOK(r), NEW t, ~r.override => t.at \in {"none", "host"},
           NEW q, q = [r EXCEPT !.tls = t]
    PROVE  /\ RequestOK(q) /\ q.url = r.url /\ q.tls = t /\ q.override = r.override
           /\ q.headers = r.headers /\ q.method = r.method
BY DEF RequestOK

\* A request gets the URL that was parsed, and a name of its own if it has none.
LEMMA SetUrl ==
    ASSUME NEW r, RequestOK(r), NEW u, NEW o \in RqHttpRequestSetUrl(r, u)
    PROVE  \/ o.req = r /\ o.st # "ok"
           \/ /\ o.st = "ok" /\ RqParseStatus(u) = "ok"
              /\ RequestOK(o.req) /\ o.req.url = RqParseUrl(u) /\ o.req.override = r.override
              /\ o.req.headers = r.headers /\ o.req.method = r.method
              /\ o.req.tls = IF ~r.override /\ r.tls.at = "none" /\ RqParseUrl(u).scheme = "https"
                             THEN [at |-> "host", sized |-> RqParseUrl(u).host] ELSE r.tls
<1>1. PICK p : p = RqParseUrl(u)
  OBVIOUS
<1>2. PICK t : t = IF ~r.override /\ r.tls.at = "none" /\ p.scheme = "https"
                   THEN [at |-> "host", sized |-> p.host] ELSE r.tls
  OBVIOUS
<1>3. PICK q : q = [r EXCEPT !.url = p,
                             !.tls = IF ~r.override /\ r.tls.at = "none" /\ p.scheme = "https"
                                     THEN [at |-> "host", sized |-> p.host] ELSE @]
  OBVIOUS
<1>4. ~r.override => t.at \in {"none", "host"}
  BY <1>2 DEF RequestOK
<1>a. PICK v : v = [r EXCEPT !.url = p]
  OBVIOUS
<1>b. q = [v EXCEPT !.tls = t]
  BY <1>2, <1>3, <1>a DEF RequestOK
<1>c. /\ RequestOK(v) /\ v.url = p /\ v.tls = r.tls /\ v.override = r.override
      /\ v.headers = r.headers /\ v.method = r.method
  BY <1>a, UrlChanges
<1>5. /\ RequestOK(q) /\ q.url = p /\ q.tls = t /\ q.override = r.override
      /\ q.headers = r.headers /\ q.method = r.method
  BY <1>4, <1>b, <1>c, TlsChanges
<1>d. RqParseStatus(u) # "ok" => o \in {RqFails(r, RqParseStatus(u))}
  BY DEF RqHttpRequestSetUrl
<1>e. RqParseStatus(u) = "ok" => o \in {RqOk(q)} \cup RqShort(r)
  BY <1>1, <1>3 DEF RqHttpRequestSetUrl
<1>6. \/ RqParseStatus(u) # "ok" /\ o \in {RqFails(r, RqParseStatus(u))}
      \/ RqParseStatus(u) = "ok" /\ o \in {RqOk(q)} \cup RqShort(r)
  BY <1>d, <1>e
<1>7. RqShort(r) \subseteq {RqFails(r, "INSUFFICIENT_RESOURCES")}
  BY DEF RqShort
<1>8. \/ o.req = r /\ o.st # "ok"
      \/ RqParseStatus(u) = "ok" /\ o.req = q /\ o.st = "ok"
  BY <1>6, <1>7 DEF RqFails, RqOk
<1> QED  BY <1>1, <1>2, <1>5, <1>8

\* A URL that is taken is written in one way.
LEMMA Parsed ==
    ASSUME NEW u, RqParseStatus(u) = "ok"
    PROVE  /\ UrlOK(RqParseUrl(u)) /\ RqParseUrl(u).scheme = u.scheme
           /\ u.scheme \in {"http", "https"} /\ RqParseUrl(u).host = RqNormalizeHost(u.host)
           /\ RqParseUrl(u).port = RqParsePort(u)
<1>1. u.scheme \in {"http", "https"}
  BY DEF RqParseStatus
<1>2. RqParsePort(u) # 0
  BY DEF RqParsePort
<1>3. \A h : RqNormalizeHost(RqNormalizeHost(h)) = RqNormalizeHost(h)
  BY DEF RqNormalizeHost
<1> QED  BY <1>1, <1>2, <1>3 DEF RqParseUrl, UrlOK

\* While the application may call, the send in progress has a clone.
LEMMA ApplicationStep ==
    ASSUME RqInv, rqPhase = "idle" \/ rqAsync, UNCHANGED RqIdle, RqRequestsOK'
    PROVE  RqInv'
<1>1. CASE rqPhase = "idle"
  BY <1>1 DEF RqInv, RqIdle, RqSendOK, CredentialsStayWithOrigin, HopsKeepTheirCourse
<1>2. CASE rqPhase # "idle" /\ rqAsync
  <2>1. rqClone # RqGone
    BY <1>2 DEF RqInv, RqSendOK
  <2>2. RqCurrent' = RqCurrent
    BY <2>1 DEF RqCurrent, RqIdle
  <2>3. RqSendOK'
    BY <1>2, <2>1, <2>2 DEF RqInv, RqSendOK, RqIdle
  <2>4. CredentialsStayWithOrigin'
    BY <1>2 DEF RqInv, CredentialsStayWithOrigin, RqIdle
  <2> QED  BY <2>3, <2>4 DEF RqInv, HopsKeepTheirCourse, RqIdle
<1> QED  BY <1>1, <1>2

LEMMA SetterStep ==
    ASSUME RqInv, NEW outs, RqMayCall, Good(rqReq, outs), NEW o \in outs, rqReq' = o.req,
           rqCalls' = [rqCalls EXCEPT !.setters = @ + 1], UNCHANGED RqIdle
    PROVE  RqInv'
<1>1. RequestOK(rqReq') /\ SameAddress(rqReq, rqReq')
  BY DEF Good
<1>2. rqCalls'.urls = rqCalls.urls /\ rqCalls' = [setters |-> rqCalls'.setters, urls |-> rqCalls'.urls]
  BY DEF RqInv, RqRequestsOK
<1>3. NameFits(rqReq) => NameFits(rqReq')
  BY <1>1 DEF NameFits, SameAddress
<1>4. RqRequestsOK'
  BY <1>1, <1>2, <1>3 DEF RqInv, RqRequestsOK, RqMayCall, SameAddress
<1> QED  BY <1>4, ApplicationStep DEF RqMayCall

LEMMA CallStep ==
    ASSUME RqInv, NEW outs, Good(rqReq, outs), RqCall(outs)
    PROVE  RqInv'
BY SetterStep DEF RqCall

LEMMA BodyCallStep ==
    ASSUME RqInv, NEW outs, NEW asked, Good(rqReq, outs), RqBodyCall(outs, asked)
    PROVE  RqInv'
BY SetterStep DEF RqBodyCall

\* A send that is over owes nothing.
LEMMA FinishStep ==
    ASSUME RqInv, rqPhase' = "idle", UNCHANGED <<rqReq, rqCalls>>
    PROVE  RqInv'
BY DEF RqInv, RqRequestsOK, RqSendOK, CredentialsStayWithOrigin, HopsKeepTheirCourse

----------------------------------------
(* The message *)

\* Every element of c is one of s or of t.
FromBoth(c, s, t) ==
    \A i \in DOMAIN c : (\E k \in DOMAIN s : c[i] = s[k]) \/ (\E k \in DOMAIN t : c[i] = t[k])

LEMMA Concatenated ==
    ASSUME NEW S, NEW s \in Seq(S), NEW t \in Seq(S), NEW c, c = s \o t
    PROVE  c \in Seq(S) /\ FromBoth(c, s, t)
<1>1. Len(s) \in Nat /\ Len(t) \in Nat /\ DOMAIN c = 1..(Len(s) + Len(t))
  OBVIOUS
<1>2. ASSUME NEW i \in DOMAIN c, i <= Len(s) PROVE \E k \in DOMAIN s : c[i] = s[k]
  <2>1. i \in DOMAIN s /\ c[i] = s[i]
    BY <1>1, <1>2
  <2> QED  BY <2>1
<1>3. ASSUME NEW i \in DOMAIN c, ~(i <= Len(s)) PROVE \E k \in DOMAIN t : c[i] = t[k]
  <2>1. i - Len(s) \in DOMAIN t /\ c[i] = t[i - Len(s)]
    BY <1>1, <1>3
  <2> QED  BY <2>1
<1>4. c \in Seq(S)
  OBVIOUS
<1> QED  BY <1>2, <1>3, <1>4 DEF FromBoth

\* The names of headers.
LEMMA HeaderNames ==
    ASSUME NEW h, HeadersOK(h)
    PROVE  /\ DOMAIN h = 1..Len(h) /\ Len(h) \in Nat
           /\ \A j \in DOMAIN h : h[j].name \in RqHeaderNames
<1>1. PICK V : h \in Seq([name : RqHeaderNames, value : V])
  BY DEF HeadersOK
<1>2. PICK F : F = [name : RqHeaderNames, value : V]
  OBVIOUS
<1>3. h \in Seq(F)
  BY <1>1, <1>2
<1>4. DOMAIN h = 1..Len(h) /\ Len(h) \in Nat /\ \A j \in DOMAIN h : h[j] \in F
  BY <1>3
<1>5. \A x \in F : x.name \in RqHeaderNames
  BY <1>2
<1> QED  BY <1>4, <1>5

\* The fields of a message are the request's headers and what the library adds.
LEMMA FieldsAre ==
    ASSUME NEW r, HeadersOK(r.headers), NEW i \in DOMAIN RqFieldNames(r)
    PROVE  \/ \E k \in DOMAIN r.headers : RqFieldNames(r)[i] = r.headers[k].name
           \/ RqFieldNames(r)[i] \in {"accept-encoding", "expect"}
           \/ RqFieldNames(r)[i] = "proxy-credentials" /\ RqAbsoluteForm(r)
<1>1. PICK h : h = [j \in DOMAIN r.headers |-> r.headers[j].name]
  OBVIOUS
<1>2. PICK a : a = IF RqHas(r, "accept-encoding") THEN << >> ELSE << "accept-encoding" >>
  OBVIOUS
<1>3. PICK e : e = IF r.body.has /\ "expect" \in rqSendFlags THEN << "expect" >> ELSE << >>
  OBVIOUS
<1>4. PICK p : p = IF RqAbsoluteForm(r) THEN << "proxy-credentials" >> ELSE << >>
  OBVIOUS
<1>5. PICK S : S = RqHeaderNames \cup {"accept-encoding", "expect", "proxy-credentials"}
  OBVIOUS
<1>6. h \in Seq(S)
  <2>1. /\ DOMAIN r.headers = 1..Len(r.headers) /\ Len(r.headers) \in Nat
        /\ \A j \in DOMAIN r.headers : r.headers[j].name \in RqHeaderNames
    BY HeaderNames
  <2>2. \A j \in DOMAIN r.headers : r.headers[j].name \in S
    BY <2>1, <1>5
  <2> QED  BY <1>1, <2>1, <2>2
<1>7. a \in Seq(S) /\ e \in Seq(S) /\ p \in Seq(S)
  <2>1. << >> \in Seq(S)
    OBVIOUS
  <2>2. \A x \in S : << x >> \in Seq(S)
    OBVIOUS
  <2>3. "accept-encoding" \in S /\ "expect" \in S /\ "proxy-credentials" \in S
    BY <1>5
  <2>4. a \in {<< >>, << "accept-encoding" >>} /\ e \in {<< >>, << "expect" >>}
        /\ p \in {<< >>, << "proxy-credentials" >>}
    BY <1>2, <1>3, <1>4
  <2> QED  BY <2>1, <2>2, <2>3, <2>4
<1>a. PICK c : c = h \o a
  OBVIOUS
<1>b. PICK d : d = c \o e
  OBVIOUS
<1>8. PICK f : f = d \o p
  OBVIOUS
<1>9. RqFieldNames(r) = f
  BY <1>1, <1>2, <1>3, <1>4, <1>a, <1>b, <1>8 DEF RqFieldNames
<1>10. c \in Seq(S) /\ FromBoth(c, h, a)
  BY <1>6, <1>7, <1>a, Concatenated
<1>11. d \in Seq(S) /\ FromBoth(d, c, e)
  BY <1>7, <1>b, <1>10, Concatenated
<1>12. FromBoth(f, d, p)
  BY <1>7, <1>8, <1>11, Concatenated
<1>13. \/ \E j \in DOMAIN h : RqFieldNames(r)[i] = h[j]
       \/ \E j \in DOMAIN a : RqFieldNames(r)[i] = a[j]
       \/ \E j \in DOMAIN e : RqFieldNames(r)[i] = e[j]
       \/ \E j \in DOMAIN p : RqFieldNames(r)[i] = p[j]
  BY <1>9, <1>10, <1>11, <1>12 DEF FromBoth
<1>14. /\ \A j \in DOMAIN a : a[j] = "accept-encoding"
       /\ \A j \in DOMAIN e : e[j] = "expect"
       /\ \A j \in DOMAIN p : p[j] = "proxy-credentials" /\ RqAbsoluteForm(r)
  BY <1>2, <1>3, <1>4
<1> QED  BY <1>1, <1>13, <1>14

LEMMA OriginOf ==
    ASSUME NEW p
    PROVE  RqOrigin(p).scheme = p.scheme /\ RqOrigin(p).host = p.host /\ RqOrigin(p).port = p.port
BY DEF RqOrigin

\* A message that is built from a request that owns up is one.
LEMMA MessageStep ==
    ASSUME RqInv, rqPhase = "send", rqPhase' = "answer", rqWire' = RqBuildRequest(RqCurrent),
           UNCHANGED <<rqReq, rqClone, rqAsync, rqFollowed, rqCalls, rqMust>>
    PROVE  RqInv'
<1>1. PICK r : r = RqCurrent
  OBVIOUS
<1>2. RqRequestsOK' /\ RqSendOK'
  BY DEF RqInv, RqRequestsOK, RqSendOK, RqCurrent
<1>3. /\ OwnsUp(r, rqMust) /\ rqFollowed \in Nat
      /\ rqClone # RqGone \/ (~rqAsync /\ rqFollowed = 0)
      /\ rqClone # RqGone \/ rqCalls.urls = 1 => NameFits(r)
  BY <1>1 DEF RqInv, RqSendOK
<1>4. /\ rqWire'.origin = RqOrigin(r.url) /\ rqWire'.method = r.method
      /\ rqWire'.fields = RqFieldNames(r) /\ rqWire'.chosen = r.override
      /\ rqWire'.to = IF RqAbsoluteForm(r) THEN "proxy" ELSE "origin"
      /\ rqWire'.name = IF r.url.scheme = "https" THEN RqTlsServerName(r) ELSE ""
  BY <1>1 DEF RqBuildRequest
<1>5. PICK names : names = {rqWire'.fields[i] : i \in DOMAIN rqWire'.fields}
  OBVIOUS
<1>6. ASSUME NEW n \in names
      PROVE  \/ \E k \in DOMAIN r.headers : n = r.headers[k].name
             \/ n \in {"accept-encoding", "expect"}
             \/ n = "proxy-credentials" /\ RqAbsoluteForm(r)
  <2>1. PICK i \in DOMAIN RqFieldNames(r) : n = RqFieldNames(r)[i]
    BY <1>4, <1>5, <1>6
  <2>2. HeadersOK(r.headers)
    BY <1>3 DEF OwnsUp, RequestOK
  <2> QED  BY <2>1, <2>2, FieldsAre
<1>7. names \cap RqSensitive # {} => rqWire'.origin = rqMust'.first
  <2>1. SUFFICES ASSUME NEW n \in names, n \in RqSensitive
                 PROVE  rqMust.first = RqOrigin(r.url)
    BY <1>4
  <2>2. \E k \in DOMAIN r.headers : n = r.headers[k].name
    BY <1>6, <2>1 DEF RqSensitive
  <2> QED  BY <1>3, <2>1, <2>2 DEF OwnsUp, Carries
<1>8. rqMust'.secure => rqWire'.origin.scheme = "https"
  <2>1. rqMust.secure => r.url.scheme = "https"
    BY <1>3 DEF OwnsUp
  <2>2. rqWire'.origin.scheme = r.url.scheme
    BY <1>4, OriginOf
  <2> QED  BY <2>1, <2>2
<1>9. ASSUME rqWire'.origin.scheme = "https", ~rqWire'.chosen,
             rqAsync' \/ rqFollowed' > 0 \/ rqCalls'.urls = 1
      PROVE  rqWire'.name = rqWire'.origin.host
  <2>1. r.url.scheme = "https" /\ ~r.override /\ rqWire'.origin.host = r.url.host
    <3>1. rqWire'.origin.scheme = r.url.scheme /\ rqWire'.origin.host = r.url.host
      BY <1>4, OriginOf
    <3> QED  BY <1>4, <1>9, <3>1
  <2>2. NameFits(r)
    BY <1>3, <1>9
  <2>3. r.tls.at \in {"none", "host"} /\ (r.tls.at = "none" \/ r.tls.sized = r.url.host)
    BY <1>3, <2>1, <2>2 DEF OwnsUp, RequestOK, NameFits
  <2>4. RqTlsServerName(r) = r.url.host
    BY <2>3 DEF RqTlsServerName
  <2> QED  BY <1>4, <2>1, <2>4
<1>10. "proxy-credentials" \in names => rqWire'.to = "proxy"
  <2>1. \A k \in DOMAIN r.headers : r.headers[k].name \in RqHeaderNames
    BY <1>3, HeaderNames DEF OwnsUp, RequestOK
  <2>2. "proxy-credentials" \notin RqHeaderNames
    BY RqInputsAssumption DEF RqHeaderNames
  <2> QED  BY <1>4, <1>6, <2>1, <2>2
<1>11. CredentialsStayWithOrigin'
  BY <1>5, <1>7, <1>8, <1>9, <1>10 DEF CredentialsStayWithOrigin
<1>12. HopsKeepTheirCourse'
  BY <1>3, <1>4 DEF HopsKeepTheirCourse, OwnsUp
<1> QED  BY <1>2, <1>11, <1>12 DEF RqInv

----------------------------------------
(* Redirects *)

IsLocation(loc) ==
    loc = [kind |-> loc.kind, scheme |-> loc.scheme, host |-> loc.host, port |-> loc.port, path |-> loc.path,
           query |-> loc.query, fragment |-> loc.fragment, fault |-> loc.fault]

LEMMA BuiltUrl ==
    ASSUME NEW r, NEW loc, IsLocation(loc), NEW u, u = RqBuildRedirectUrl(r, loc)
    PROVE  /\ loc.kind = "absolute" => u.scheme = loc.scheme /\ u.host = loc.host /\ u.port = loc.port
           /\ loc.kind = "authority" => u.scheme = r.url.scheme /\ u.host = loc.host /\ u.port = loc.port
           /\ loc.kind \notin {"absolute", "authority"} =>
                 u.scheme = r.url.scheme /\ u.host = r.url.host /\ u.port = r.url.port
<1>1. CASE loc.kind = "absolute"
  BY <1>1 DEF RqBuildRedirectUrl, IsLocation
<1>2. CASE loc.kind = "authority"
  BY <1>2 DEF RqBuildRedirectUrl, IsLocation
<1>3. CASE loc.kind \notin {"absolute", "authority"}
  <2>1. PICK p, q, f :
          u = [loc EXCEPT !.scheme = r.url.scheme, !.host = r.url.host, !.port = r.url.port,
                          !.path = p, !.query = q, !.fragment = f]
    BY <1>3 DEF RqBuildRedirectUrl
  <2> QED  BY <1>3, <2>1 DEF IsLocation
<1> QED  BY <1>1, <1>2, <1>3

LEMMA OriginParsed ==
    ASSUME NEW x, NEW y, x.scheme = y.scheme, x.host = y.host, x.port = y.port
    PROVE  RqOrigin(RqParseUrl(x)) = RqOrigin(RqParseUrl(y))
<1>1. RqParsePort(x) = RqParsePort(y)
  BY DEF RqParsePort
<1> QED  BY <1>1 DEF RqOrigin, RqParseUrl

\* The URL of the request is where the redirect leads.
LEMMA RedirectLeads ==
    ASSUME NEW r, UrlOK(r.url), NEW loc, IsLocation(loc), NEW must, must.origin = RqOrigin(r.url),
           NEW u, u = RqBuildRedirectUrl(r, loc)
    PROVE  RqOrigin(RqParseUrl(u)) = RqOrigin(RefResolve(must, loc))
<1>1. must.origin.scheme = r.url.scheme /\ must.origin.host = r.url.host /\ must.origin.port = r.url.port
  BY OriginOf
<1>2. CASE loc.kind = "absolute"
  <2>1. RefResolve(must, loc) = RqParseUrl(loc)
    BY <1>2 DEF RefResolve
  <2> QED  BY <1>2, <2>1, BuiltUrl, OriginParsed
<1>3. CASE loc.kind = "authority"
  <2>1. PICK v : v = [loc EXCEPT !.scheme = must.origin.scheme]
    OBVIOUS
  <2>2. RefResolve(must, loc) = RqParseUrl(v)
    BY <1>3, <2>1 DEF RefResolve
  <2>3. v.scheme = r.url.scheme /\ v.host = loc.host /\ v.port = loc.port
    BY <1>1, <2>1 DEF IsLocation
  <2>4. u.scheme = r.url.scheme /\ u.host = loc.host /\ u.port = loc.port
    BY <1>3, BuiltUrl
  <2> QED  BY <2>2, <2>3, <2>4, OriginParsed
<1>4. CASE loc.kind \notin {"absolute", "authority"}
  <2>1. u.scheme = r.url.scheme /\ u.host = r.url.host /\ u.port = r.url.port
    BY <1>4, BuiltUrl
  <2>2. RqParsePort(u) = r.url.port
    BY <2>1 DEF RqParsePort, UrlOK
  <2>3. RqOrigin(RqParseUrl(u)) = [scheme |-> r.url.scheme, host |-> r.url.host, port |-> r.url.port]
    BY <2>1, <2>2 DEF RqOrigin, RqParseUrl, UrlOK
  <2>4. PICK v : v = RefResolve(must, loc)
    OBVIOUS
  <2>6. PICK p, q : v = [scheme |-> must.origin.scheme, host |-> must.origin.host, port |-> must.origin.port,
                         path |-> p, fragment |-> "", query |-> q]
    BY <1>4, <2>4 DEF RefResolve
  <2>7. v.scheme = r.url.scheme /\ v.host = r.url.host /\ v.port = r.url.port
    BY <1>1, <2>6
  <2>5. RqOrigin(RefResolve(must, loc)) = [scheme |-> r.url.scheme, host |-> r.url.host, port |-> r.url.port]
    BY <2>4, <2>7 DEF RqOrigin
  <2> QED  BY <2>3, <2>5
<1> QED  BY <1>2, <1>3, <1>4

LEMMA MustRedirected ==
    ASSUME NEW must, IsMust(must), NEW status, NEW loc, NEW m, m = RefRedirected(must, status, loc)
    PROVE  /\ IsMust(m) /\ m.first = must.first /\ m.origin = RqOrigin(RefResolve(must, loc))
           /\ m.method = (IF RqRewritesToGet(status, must.method) THEN "GET" ELSE must.method)
           /\ m.secure => must.secure \/ m.origin.scheme = "https"
<1>1. PICK to : to = RefResolve(must, loc)
  OBVIOUS
<1>a. PICK get : get = IF RqRewritesToGet(status, must.method) THEN "GET" ELSE must.method
  OBVIOUS
<1>b. PICK s : s = (must.secure \/ to.scheme = "https")
  OBVIOUS
<1>2. PICK b : m = [first |-> must.first, origin |-> RqOrigin(to), target |-> RqTarget(to),
                    method |-> get, body |-> b, secure |-> s]
  BY <1>1, <1>a, <1>b DEF IsMust, RefRedirected, RqRewritesToGet
<1>3. RqOrigin(to).scheme = to.scheme
  BY OriginOf
<1>4. /\ IsMust(m) /\ m.first = must.first /\ m.origin = RqOrigin(to)
      /\ m.method = get /\ m.secure = s
  BY <1>2 DEF IsMust
<1>5. m.secure => must.secure \/ to.scheme = "https"
  BY <1>4, <1>b
<1> QED  BY <1>1, <1>a, <1>3, <1>4, <1>5

LEMMA BodyChanges ==
    ASSUME NEW r, RequestOK(r), NEW b, NEW q, q = [r EXCEPT !.body = b]
    PROVE  RequestOK(q) /\ SameAddress(r, q) /\ q.headers = r.headers /\ q.method = r.method
BY DEF RequestOK, SameAddress

LEMMA MethodChanges ==
    ASSUME NEW r, RequestOK(r), NEW m, NEW q, q = [r EXCEPT !.method = m]
    PROVE  RequestOK(q) /\ SameAddress(r, q) /\ q.headers = r.headers /\ q.method = m
BY DEF RequestOK, SameAddress

\* A redirect may take the body and the method, nothing else.
LEMMA Rewritten ==
    ASSUME NEW r, RequestOK(r), NEW status, NEW o \in RqRewritten(r, status)
    PROVE  /\ RequestOK(o.req) /\ SameAddress(r, o.req)
           /\ Carries(o.req) => Carries(r)
           /\ o.req.method = IF RqRewritesToGet(status, r.method) THEN "GET" ELSE r.method
<1>1. CASE ~RqRewritesToGet(status, r.method)
  <2>1. o.req = r
    BY <1>1 DEF RqRewritten, RqOk
  <2> QED  BY <1>1, <2>1 DEF SameAddress
<1>2. CASE RqRewritesToGet(status, r.method)
  <2>1. PICK g : g = [r EXCEPT !.method = "GET"]
    OBVIOUS
  <2>2. PICK b : b = RqReleaseOwnedBody(g)
    OBVIOUS
  <2>3. PICK q : q = RqRemoveHeaders(b, {"content-type"})
    OBVIOUS
  <2>4. o.req = q
    BY <1>2, <2>1, <2>2, <2>3 DEF RqRewritten, RqOk, RqClearBody, RqRemoveStoredHeaders
  <2>5. RequestOK(g) /\ SameAddress(r, g) /\ g.headers = r.headers /\ g.method = "GET"
    BY <2>1, MethodChanges
  <2>6. RequestOK(b) /\ SameAddress(g, b) /\ b.headers = g.headers /\ b.method = g.method
    BY <2>2, <2>5, BodyChanges DEF RqReleaseOwnedBody
  <2>7. /\ RequestOK(q) /\ SameAddress(b, q) /\ q.method = b.method
        /\ \A k \in DOMAIN q.headers : \E i \in DOMAIN b.headers : q.headers[k] = b.headers[i]
    BY <2>3, <2>6, RemoveHeaders
  <2>8. Carries(q) => Carries(r)
    BY <2>5, <2>6, <2>7 DEF Carries
  <2> QED  BY <1>2, <2>4, <2>5, <2>6, <2>7, <2>8 DEF SameAddress
<1> QED  BY <1>1, <1>2

LEMMA NoDowngrade ==
    ASSUME NEW r, NEW u, ~RqIsHttpsDowngrade(r, u), RqParseStatus(u) = "ok", r.url.scheme = "https"
    PROVE  RqParseUrl(u).scheme = "https"
BY Parsed DEF RqIsHttpsDowngrade

\* The request that leaves an origin has none of its credentials and no name of its.
LEMMA LeavesOrigin ==
    ASSUME NEW r, RequestOK(r), NEW q, q = RqLeaveOrigin(r)
    PROVE  /\ RequestOK(q) /\ q.url = r.url /\ q.override = r.override /\ q.method = r.method
           /\ ~Carries(q) /\ NameFits(q)
<1>1. PICK t : t = IF r.url.scheme = "https" THEN [at |-> "host", sized |-> r.url.host] ELSE r.tls
  OBVIOUS
<1>2. PICK v : v = [r EXCEPT !.tls = t]
  OBVIOUS
<1>3. q = RqRemoveHeaders(v, RqSensitive)
  <2>1. v = [r EXCEPT !.tls = IF r.url.scheme = "https" THEN [at |-> "host", sized |-> r.url.host] ELSE @]
    BY <1>1, <1>2 DEF RequestOK
  <2> QED  BY <2>1 DEF RqLeaveOrigin, RqRemoveSensitive
<1>4. ~r.override => t.at \in {"none", "host"}
  BY <1>1 DEF RequestOK
<1>5. /\ RequestOK(v) /\ v.url = r.url /\ v.tls = t /\ v.override = r.override
      /\ v.headers = r.headers /\ v.method = r.method
  BY <1>2, <1>4, TlsChanges
<1>6. /\ RequestOK(q) /\ SameAddress(v, q) /\ q.method = v.method
      /\ \A k \in DOMAIN q.headers : \E i \in DOMAIN v.headers :
            q.headers[k] = v.headers[i] /\ v.headers[i].name \notin RqSensitive
  BY <1>3, <1>5, RemoveHeaders
<1>7. ~Carries(q)
  BY <1>6 DEF Carries
<1>8. NameFits(q)
  BY <1>1, <1>5, <1>6 DEF NameFits, SameAddress
<1> QED  BY <1>5, <1>6, <1>7, <1>8 DEF SameAddress

\* ApplyRedirectToRequest before the method is looked at: at another origin the
\* request has left the first one.
LEMMA Moves ==
    ASSUME NEW r, RequestOK(r), NameFits(r), NEW u, NEW s \in RqHttpRequestSetUrl(r, u), s.st = "ok",
           NEW status, NEW o \in RqMoved(r, s.req, status), o.st = "ok",
           ~RqIsHttpsDowngrade(r, u)
    PROVE  \E x : /\ RequestOK(x) /\ x.url = RqParseUrl(u) /\ x.method = r.method /\ NameFits(x)
                  /\ Carries(x) => Carries(r) /\ RqOrigin(x.url) = RqOrigin(r.url)
                  /\ o \in RqRewritten(x, status)
<1>1. PICK q : q = s.req
  OBVIOUS
<1>2. /\ RqParseStatus(u) = "ok" /\ RequestOK(q) /\ q.url = RqParseUrl(u) /\ q.override = r.override
      /\ q.headers = r.headers /\ q.method = r.method
      /\ q.tls = IF ~r.override /\ r.tls.at = "none" /\ RqParseUrl(u).scheme = "https"
                 THEN [at |-> "host", sized |-> RqParseUrl(u).host] ELSE r.tls
  BY <1>1, SetUrl
<1>3. CASE ~RqIsCrossOrigin(RqOrigin(r.url), RqOrigin(q.url))
  <2>1. r.url.scheme = q.url.scheme /\ r.url.host = q.url.host /\ r.url.port = q.url.port
    BY <1>3, OriginOf DEF RqIsCrossOrigin
  <2>2. RqOrigin(q.url) = RqOrigin(r.url)
    BY <2>1 DEF RqOrigin
  <2>3. NameFits(q)
    BY <1>2, <2>1 DEF NameFits
  <2>4. Carries(q) => Carries(r)
    BY <1>2 DEF Carries
  <2>5. o \in RqRewritten(q, status)
    BY <1>1, <1>3 DEF RqMoved
  <2> QED  BY <1>2, <2>2, <2>3, <2>4, <2>5
<1>4. CASE RqIsCrossOrigin(RqOrigin(r.url), RqOrigin(q.url))
  <2>1. PICK x : x = RqLeaveOrigin(q)
    OBVIOUS
  <2>2. /\ RequestOK(x) /\ x.url = q.url /\ x.method = q.method
        /\ ~Carries(x) /\ NameFits(x)
    BY <1>2, <2>1, LeavesOrigin
  <2>3. o \in {RqFails(q, "NOT_SUPPORTED")} \cup RqRewritten(x, status)
    BY <1>1, <1>4, <2>1 DEF RqMoved
  <2>4. o # RqFails(q, "NOT_SUPPORTED")
    BY DEF RqFails
  <2> QED  BY <1>2, <2>2, <2>3, <2>4
<1> QED  BY <1>3, <1>4

\* A request that owns up owns up to the next redirect.
LEMMA RedirectOwnsUp ==
    ASSUME NEW r, NEW must, OwnsUp(r, must), NameFits(r), NEW loc, IsLocation(loc), NEW status,
           NEW o \in RqApplyRedirect(r, status, loc), o.st = "ok",
           NEW m, m = RefRedirected(must, status, loc)
    PROVE  OwnsUp(o.req, m) /\ NameFits(o.req)
<1>1. PICK u : u = RqBuildRedirectUrl(r, loc)
  OBVIOUS
<1>2. /\ ~RqIsHttpsDowngrade(r, u)
      /\ \E s \in RqHttpRequestSetUrl(r, u) : o \in (IF s.st # "ok" THEN {s} ELSE RqMoved(r, s.req, status))
  <2>1. \A q, t : t # "ok" => o # RqFails(q, t)
    BY DEF RqFails
  <2>2. loc.kind \notin {"empty", "other"} /\ ~RqIsHttpsDowngrade(r, u)
    BY <1>1, <2>1 DEF RqApplyRedirect
  <2> QED  BY <1>1, <2>2 DEF RqApplyRedirect
<1>3. PICK s \in RqHttpRequestSetUrl(r, u) : s.st = "ok" /\ o \in RqMoved(r, s.req, status)
  BY <1>2
<1>4. RequestOK(r) /\ UrlOK(r.url) /\ IsMust(must) /\ must.origin = RqOrigin(r.url) /\ must.method = r.method
  BY DEF OwnsUp
<1>5. PICK x : /\ RequestOK(x) /\ x.url = RqParseUrl(u) /\ x.method = r.method /\ NameFits(x)
               /\ Carries(x) => Carries(r) /\ RqOrigin(x.url) = RqOrigin(r.url)
               /\ o \in RqRewritten(x, status)
  BY <1>2, <1>3, <1>4, Moves
<1>6. RqParseStatus(u) = "ok"
  BY <1>3, <1>4, SetUrl
<1>7. /\ RequestOK(o.req) /\ SameAddress(x, o.req)
      /\ Carries(o.req) => Carries(x)
      /\ o.req.method = IF RqRewritesToGet(status, x.method) THEN "GET" ELSE x.method
  BY <1>5, Rewritten
<1>8. UrlOK(o.req.url) /\ o.req.url = RqParseUrl(u)
  BY <1>5, <1>6, <1>7, Parsed DEF SameAddress
<1>9. /\ IsMust(m) /\ m.first = must.first /\ m.origin = RqOrigin(RefResolve(must, loc))
      /\ m.method = (IF RqRewritesToGet(status, must.method) THEN "GET" ELSE must.method)
      /\ m.secure => must.secure \/ m.origin.scheme = "https"
  BY <1>4, MustRedirected
<1>10. m.origin = RqOrigin(o.req.url) /\ m.method = o.req.method
  BY <1>1, <1>4, <1>5, <1>7, <1>8, <1>9, RedirectLeads
<1>11. m.secure => o.req.url.scheme = "https"
  <2>1. must.secure => r.url.scheme = "https"
    BY DEF OwnsUp
  <2>2. m.origin.scheme = o.req.url.scheme
    BY <1>10, OriginOf
  <2>3. r.url.scheme = "https" => o.req.url.scheme = "https"
    BY <1>2, <1>6, <1>8, NoDowngrade
  <2> QED  BY <1>9, <2>1, <2>2, <2>3
<1>12. Carries(o.req) => m.first = RqOrigin(o.req.url)
  <2>1. Carries(r) => must.first = RqOrigin(r.url)
    BY DEF OwnsUp
  <2> QED  BY <1>5, <1>7, <1>8, <1>9, <2>1
<1>13. NameFits(o.req)
  BY <1>5, <1>7 DEF NameFits, SameAddress
<1> QED  BY <1>7, <1>8, <1>9, <1>10, <1>11, <1>12, <1>13 DEF OwnsUp

\* A clone stands in for its original, with a name that fits.
LEMMA CloneOwnsUp ==
    ASSUME NEW r, NEW must, OwnsUp(r, must), NEW c, c = RqCloneRequest(r)
    PROVE  OwnsUp(c, must) /\ NameFits(c)
<1>1. PICK t : t = CASE r.tls.at = "host" -> [at |-> "host", sized |-> r.url.host]
                     [] r.tls.at = "app"  -> [at |-> "owned", sized |-> r.tls.sized]
                     [] OTHER             -> r.tls
  OBVIOUS
<1>2. RequestOK(r)
  BY DEF OwnsUp
<1>3. PICK b : c = [r EXCEPT !.boundary = 0, !.tls = t, !.body = b]
  <2>1. PICK b : b = IF r.body.from \in {"source", "none"} THEN r.body
                     ELSE [has |-> TRUE, from |-> "owned", items |-> RqItems(r), known |-> TRUE]
    OBVIOUS
  <2>2. c = [r EXCEPT !.boundary = 0, !.tls = t, !.body = b]
    BY <1>1, <1>2, <2>1 DEF RqCloneRequest, RequestOK
  <2> QED  BY <2>2
<1>4. PICK v : v = [r EXCEPT !.boundary = 0]
  OBVIOUS
<1>a. PICK w : w = [v EXCEPT !.tls = t]
  OBVIOUS
<1>5. c = [w EXCEPT !.body = b]
  BY <1>2, <1>3, <1>4, <1>a DEF RequestOK
<1>6. RequestOK(v) /\ SameAddress(r, v) /\ v.headers = r.headers /\ v.method = r.method
  BY <1>2, <1>4 DEF RequestOK, SameAddress
<1>7. ~v.override => t.at \in {"none", "host"}
  BY <1>1, <1>2, <1>6 DEF RequestOK, SameAddress
<1>8. /\ RequestOK(w) /\ w.url = v.url /\ w.tls = t /\ w.override = v.override
      /\ w.headers = v.headers /\ w.method = v.method
  BY <1>a, <1>6, <1>7, TlsChanges
<1>9. RequestOK(c) /\ SameAddress(w, c) /\ c.headers = w.headers /\ c.method = w.method
  BY <1>5, <1>8, BodyChanges
<1>10. c.url = r.url /\ c.override = r.override /\ c.tls = t /\ c.headers = r.headers /\ c.method = r.method
  BY <1>6, <1>8, <1>9 DEF SameAddress
<1>11. NameFits(c)
  BY <1>1, <1>2, <1>10 DEF NameFits, RequestOK
<1> QED  BY <1>9, <1>10, <1>11 DEF OwnsUp, Carries

----------------------------------------
(* The steps *)

LEMMA SetUrlStep ==
    ASSUME RqInv, RqCallSetUrl
    PROVE  RqInv'
<1>a. PICK u \in RqUrls : \E o \in RqHttpRequestSetUrl(rqReq, u) : rqReq' = o.req
  BY DEF RqCallSetUrl
<1>1. PICK o \in RqHttpRequestSetUrl(rqReq, u) : rqReq' = o.req
  BY <1>a
<1>2. RequestOK(rqReq) /\ rqCalls.urls \in Nat
  BY DEF RqInv, RqRequestsOK, RqCallSetUrl
<1>3. rqCalls'.urls = rqCalls.urls + 1 /\ rqCalls' = [setters |-> rqCalls'.setters, urls |-> rqCalls'.urls]
  BY DEF RqInv, RqRequestsOK, RqCallSetUrl
<1>4. rqReq.url = RqGone \/ UrlOK(rqReq.url)
  BY DEF RqInv, RqRequestsOK, RqCallSetUrl
<1>5. CASE o.req = rqReq
  <2>1. rqCalls.urls = 0 => rqReq'.url = RqGone
    BY <1>1, <1>5 DEF RqInv, RqRequestsOK, RqCallSetUrl
  <2>2. RqRequestsOK'
    BY <1>1, <1>2, <1>3, <1>4, <1>5, <2>1 DEF RqRequestsOK
  <2> QED  BY <2>2, ApplicationStep DEF RqCallSetUrl
<1>6. CASE o.req # rqReq
  <2>1. /\ RqParseStatus(u) = "ok"
        /\ RequestOK(o.req) /\ o.req.url = RqParseUrl(u) /\ o.req.override = rqReq.override
        /\ o.req.tls = IF ~rqReq.override /\ rqReq.tls.at = "none" /\ RqParseUrl(u).scheme = "https"
                       THEN [at |-> "host", sized |-> RqParseUrl(u).host] ELSE rqReq.tls
    BY <1>2, <1>6, SetUrl
  <2>2. UrlOK(rqReq'.url)
    BY <1>1, <2>1, Parsed
  <2>3. rqCalls.urls = 0 => NameFits(rqReq')
    <3>1. rqCalls.urls = 0 => rqReq.override \/ rqReq.tls.at = "none"
      BY DEF RqInv, RqRequestsOK, RqCallSetUrl
    <3> QED  BY <1>1, <2>1, <3>1 DEF NameFits
  <2>4. RqRequestsOK'
    BY <1>1, <1>2, <1>3, <2>1, <2>2, <2>3 DEF RqRequestsOK
  <2> QED  BY <2>4, ApplicationStep DEF RqCallSetUrl
<1> QED  BY <1>5, <1>6

LEMMA CreateStep ==
    ASSUME RqInv, RqHttpRequestCreate
    PROVE  RqInv'
<1>1. HeadersOK(<< >>)
  <2>1. << >> \in Seq([name : RqHeaderNames, value : {}])
    OBVIOUS
  <2> QED  BY <2>1 DEF HeadersOK
<1>2. RequestOK(RqCreated) /\ RqCreated.url = RqGone /\ RqCreated.tls.at = "none"
  BY <1>1 DEF RequestOK, RqCreated
<1>3. RqRequestsOK'
  BY <1>2 DEF RqInv, RqRequestsOK, RqHttpRequestCreate
<1> QED  BY <1>3, ApplicationStep DEF RqHttpRequestCreate

LEMMA ReleaseStep ==
    ASSUME RqInv, RqHttpRequestRelease
    PROVE  RqInv'
<1>1. RqRequestsOK'
  BY DEF RqInv, RqRequestsOK, RqHttpRequestRelease
<1> QED  BY <1>1, ApplicationStep DEF RqHttpRequestRelease

LEMMA OverrideChanges ==
    ASSUME NEW r, RequestOK(r), NEW q, q = [r EXCEPT !.override = TRUE]
    PROVE  RequestOK(q) /\ q.url = r.url /\ q.override = TRUE
<1>1. \A x : LET v == [r EXCEPT !.override = x]
             IN  v = [state |-> "live", url |-> r.url, method |-> r.method, headers |-> r.headers,
                      trailers |-> r.trailers, body |-> r.body, mode |-> r.mode, tls |-> r.tls,
                      override |-> x, pooled |-> r.pooled, family |-> r.family, boundary |-> r.boundary]
  BY DEF RequestOK
<1>2. q = [state |-> "live", url |-> r.url, method |-> r.method, headers |-> r.headers,
           trailers |-> r.trailers, body |-> r.body, mode |-> r.mode, tls |-> r.tls,
           override |-> TRUE, pooled |-> r.pooled, family |-> r.family, boundary |-> r.boundary]
  BY <1>1
<1>3. /\ q.state = "live" /\ q.url = r.url /\ q.method = r.method /\ q.headers = r.headers
      /\ q.trailers = r.trailers /\ q.body = r.body /\ q.mode = r.mode /\ q.tls = r.tls
      /\ q.override = TRUE /\ q.pooled = r.pooled /\ q.family = r.family /\ q.boundary = r.boundary
  BY <1>2
<1> QED  BY <1>2, <1>3 DEF RequestOK

LEMMA TlsOptionsStep ==
    ASSUME RqInv, RqCallSetTlsOptions
    PROVE  RqInv'
<1>1. PICK n \in RqTlsNames :
         RqCall({RqOk([rqReq EXCEPT !.tls = [at |-> IF n = "" THEN "none" ELSE "app", sized |-> n],
                                    !.override = TRUE])})
  BY DEF RqCallSetTlsOptions
<1>2. PICK t : t = [at |-> IF n = "" THEN "none" ELSE "app", sized |-> n]
  OBVIOUS
<1>3. PICK q : q = [rqReq EXCEPT !.tls = t, !.override = TRUE]
  OBVIOUS
<1>4. RqCall({RqOk(q)})
  BY <1>1, <1>2, <1>3
<1>5. rqReq' = q /\ RqMayCall /\ UNCHANGED RqIdle
  BY <1>4 DEF RqCall, RqOk
<1>6. RequestOK(rqReq)
  BY <1>5 DEF RqInv, RqRequestsOK, RqMayCall
<1>7. RequestOK(q) /\ q.url = rqReq.url /\ q.override = TRUE
  <2>1. PICK w : w = [rqReq EXCEPT !.override = TRUE]
    OBVIOUS
  <2>2. RequestOK(w) /\ w.url = rqReq.url /\ w.override = TRUE
    BY <1>6, <2>1, OverrideChanges
  <2>3. q = [w EXCEPT !.tls = t]
    BY <1>3, <2>1
  <2> QED  BY <2>2, <2>3, TlsChanges
<1>8. rqCalls' = [rqCalls EXCEPT !.setters = @ + 1]
  BY <1>4 DEF RqCall
<1>9. rqCalls'.urls = rqCalls.urls /\ rqCalls' = [setters |-> rqCalls'.setters, urls |-> rqCalls'.urls]
  BY <1>8 DEF RqInv, RqRequestsOK
<1>10. NameFits(q)
  BY <1>7 DEF NameFits
<1>11. RqRequestsOK'
  BY <1>5, <1>7, <1>9, <1>10 DEF RqInv, RqRequestsOK, RqMayCall
<1> QED  BY <1>5, <1>11, ApplicationStep DEF RqMayCall

LEMMA SetterSteps ==
    ASSUME RqInv,
           \/ RqCallSetMethod \/ RqCallSetHeader \/ RqCallGeneratedHeader \/ RqCallAddTrailer
           \/ RqCallSetBodyMode \/ RqCallSetConnectionPolicy \/ RqCallSetAddressFamily
           \/ RqCallBuildBody \/ RqCallSetBody \/ RqCallSetBodySource \/ RqCallClearBody
    PROVE  RqInv'
<1>1. RqMayCall => RequestOK(rqReq)
  BY DEF RqMayCall, RqInv, RqRequestsOK
<1>2. RqMayCall
  BY DEF RqCallSetMethod, RqCallSetHeader, RqCallGeneratedHeader, RqCallAddTrailer,
         RqCallSetBodyMode, RqCallSetConnectionPolicy, RqCallSetAddressFamily, RqCallBuildBody,
         RqCallSetBody, RqCallSetBodySource, RqCallClearBody, RqCall, RqBodyCall
<1>3. CASE RqCallSetMethod
  <2>1. PICK m \in RqMethods : RqCall({RqOk([rqReq EXCEPT !.method = m])})
    BY <1>3 DEF RqCallSetMethod
  <2>2. Good(rqReq, {RqOk([rqReq EXCEPT !.method = m])})
    BY <1>1, <1>2, FieldsChange, OneOutcome
  <2> QED  BY <2>1, <2>2, CallStep
<1>4. CASE RqCallSetHeader
  <2>1. PICK n \in RqNames : RqCall(RqAddStoredHeader(rqReq, n, "v"))
    BY <1>4 DEF RqCallSetHeader
  <2>2. Good(rqReq, RqAddStoredHeader(rqReq, n, "v"))
    BY <1>1, <1>2, AddHeader DEF RqHeaderNames
  <2> QED  BY <2>1, <2>2, CallStep
<1>5. CASE RqCallGeneratedHeader
  <2>1. PICK n \in {"range", "if-none-match"} \cap RqNames : RqCall(RqAddStoredHeader(rqReq, n, "generated"))
    BY <1>5 DEF RqCallGeneratedHeader
  <2>2. Good(rqReq, RqAddStoredHeader(rqReq, n, "generated"))
    BY <1>1, <1>2, AddHeader DEF RqHeaderNames
  <2> QED  BY <2>1, <2>2, CallStep
<1>6. CASE RqCallAddTrailer
  BY <1>1, <1>2, <1>6, AddTrailer, CallStep DEF RqCallAddTrailer
<1>7. CASE RqCallSetBodyMode
  BY <1>1, <1>2, <1>7, BodySetters, CallStep DEF RqCallSetBodyMode
<1>8. CASE RqCallSetConnectionPolicy
  <2>1. PICK x : x = ~rqReq.pooled
    OBVIOUS
  <2>2. RqCall({RqOk([rqReq EXCEPT !.pooled = x])})
    BY <1>1, <1>2, <1>8, <2>1 DEF RqCallSetConnectionPolicy, RequestOK
  <2>3. Good(rqReq, {RqOk([rqReq EXCEPT !.pooled = x])})
    BY <1>1, <1>2, FieldsChange, OneOutcome
  <2> QED  BY <2>2, <2>3, CallStep
<1>9. CASE RqCallSetAddressFamily
  <2>1. Good(rqReq, {RqOk([rqReq EXCEPT !.family = "ipv4"])})
    BY <1>1, <1>2, FieldsChange, OneOutcome
  <2> QED  BY <1>9, <2>1, CallStep DEF RqCallSetAddressFamily
<1>10. CASE RqCallBuildBody
  <2>1. PICK t \in RqTexts, s \in RqSetters \cap {"form", "multipart", "text", "raw", "file"} :
          RqBodyCall(CASE s = "form"      -> RqSetUrlEncodedBody(rqReq, t)
                       [] s = "multipart" -> RqSetMultipart(rqReq, t)
                       [] s = "text"      -> RqSetTextBody(rqReq, t)
                       [] s = "raw"       -> RqSetRawBody(rqReq, t)
                       [] s = "file"      -> RqSetFileBody(rqReq, t),
                     [kind |-> s, text |-> t])
    BY <1>10 DEF RqCallBuildBody
  <2>2. PICK outs : outs = CASE s = "form"      -> RqSetUrlEncodedBody(rqReq, t)
                             [] s = "multipart" -> RqSetMultipart(rqReq, t)
                             [] s = "text"      -> RqSetTextBody(rqReq, t)
                             [] s = "raw"       -> RqSetRawBody(rqReq, t)
                             [] s = "file"      -> RqSetFileBody(rqReq, t)
    OBVIOUS
  <2>3. /\ Good(rqReq, RqSetUrlEncodedBody(rqReq, t)) /\ Good(rqReq, RqSetMultipart(rqReq, t))
        /\ Good(rqReq, RqSetTextBody(rqReq, t)) /\ Good(rqReq, RqSetRawBody(rqReq, t))
        /\ Good(rqReq, RqSetFileBody(rqReq, t))
    BY <1>1, <1>2, BodySetters
  <2>4. Good(rqReq, outs)
    BY <2>2, <2>3
  <2> QED  BY <2>1, <2>2, <2>4, BodyCallStep
<1>11. CASE RqCallSetBody
  <2>1. PICK t : RqBodyCall(RqSetBody(rqReq), [kind |-> "raw", text |-> t])
    BY <1>11 DEF RqCallSetBody
  <2>2. Good(rqReq, RqSetBody(rqReq))
    BY <1>1, <1>2, BodySetters
  <2> QED  BY <2>1, <2>2, BodyCallStep
<1>12. CASE RqCallSetBodySource
  <2>1. PICK t, known : RqBodyCall(RqSetBodySource(rqReq, t, known), [kind |-> "source", text |-> t])
    BY <1>12 DEF RqCallSetBodySource
  <2>2. Good(rqReq, RqSetBodySource(rqReq, t, known))
    BY <1>1, <1>2, BodySetters
  <2> QED  BY <2>1, <2>2, BodyCallStep
<1>13. CASE RqCallClearBody
  <2>1. Good(rqReq, RqClearBody(rqReq))
    BY <1>1, <1>2, BodySetters
  <2> QED  BY <1>13, <2>1, BodyCallStep DEF RqCallClearBody
<1> QED  BY <1>3, <1>4, <1>5, <1>6, <1>7, <1>8, <1>9, <1>10, <1>11, <1>12, <1>13

\* A clone is a request.
LEMMA IsThere ==
    ASSUME NEW r, RequestOK(r)
    PROVE  r # RqGone
BY DEF RequestOK, RqGone

LEMMA SendStep ==
    ASSUME RqInv, NEW async \in BOOLEAN, RqHttpSend(async)
    PROVE  RqInv'
<1>1. RequestOK(rqReq) /\ UrlOK(rqReq.url) /\ (rqCalls.urls = 1 => NameFits(rqReq))
  BY DEF RqInv, RqRequestsOK, RqHttpSend
<1>2. rqMust' = RqExpected(rqAsked, rqReq)
  BY DEF RqHttpSend
<1>3. OwnsUp(rqReq, rqMust')
  BY <1>1, <1>2 DEF OwnsUp, RqExpected, IsMust
<1>4. RqRequestsOK'
  BY DEF RqInv, RqRequestsOK, RqHttpSend
<1>5. CASE async
  <2>1. PICK c : c = RqCloneRequest(rqReq)
    OBVIOUS
  <2>2. OwnsUp(c, rqMust') /\ NameFits(c)
    BY <1>3, <2>1, CloneOwnsUp
  <2>3. rqClone' = c /\ c # RqGone /\ RqCurrent' = c
    BY <1>5, <2>1, <2>2, IsThere DEF RqHttpSend, OwnsUp, RqCurrent
  <2>4. RqSendOK'
    BY <2>2, <2>3 DEF RqSendOK, RqHttpSend
  <2> QED  BY <1>4, <2>4 DEF RqInv, CredentialsStayWithOrigin, HopsKeepTheirCourse, RqHttpSend
<1>6. CASE ~async
  <2>1. rqClone' = RqGone /\ RqCurrent' = rqReq
    BY <1>6 DEF RqHttpSend, RqCurrent
  <2>2. RqSendOK'
    BY <1>1, <1>3, <1>6, <2>1 DEF RqSendOK, RqHttpSend
  <2> QED  BY <1>4, <2>2 DEF RqInv, CredentialsStayWithOrigin, HopsKeepTheirCourse, RqHttpSend
<1> QED  BY <1>5, <1>6

LEMMA RedirectStep ==
    ASSUME RqInv, RqRedirected
    PROVE  RqInv'
<1>1. PICK r : r = IF rqFollowed = 0 THEN RqCloneRequest(RqCurrent) ELSE RqCurrent
  OBVIOUS
<1>2. PICK status \in RqStatuses, loc \in RqLocations :
         /\ \E o \in RqApplyRedirect(r, status, loc) :
               IF o.st = "ok" THEN rqClone' = o.req /\ rqPhase' = "send" /\ UNCHANGED rqAsync ELSE RqFinish
         /\ rqMust' = RefRedirected(rqMust, status, loc)
  BY <1>1 DEF RqRedirected
<1>3. PICK o \in RqApplyRedirect(r, status, loc) :
         IF o.st = "ok" THEN rqClone' = o.req /\ rqPhase' = "send" /\ UNCHANGED rqAsync ELSE RqFinish
  BY <1>2
<1>4. UNCHANGED <<rqReq, rqCalls>> /\ rqFollowed' = rqFollowed + 1
  BY DEF RqRedirected
<1>5. CASE o.st # "ok"
  BY <1>3, <1>4, <1>5, FinishStep DEF RqFinish
<1>6. CASE o.st = "ok"
  <2>1. /\ rqFollowed \in Nat /\ OwnsUp(RqCurrent, rqMust)
        /\ rqFollowed # 0 => NameFits(RqCurrent)
    BY DEF RqInv, RqSendOK, RqRedirected
  <2>2. OwnsUp(r, rqMust) /\ NameFits(r)
    BY <1>1, <2>1, CloneOwnsUp
  <2>3. IsLocation(loc)
    BY RqInputsAssumption DEF IsLocation
  <2>4. OwnsUp(o.req, rqMust') /\ NameFits(o.req)
    BY <1>2, <1>3, <1>6, <2>2, <2>3, RedirectOwnsUp
  <2>5. rqClone' = o.req /\ rqPhase' = "send" /\ rqClone' # RqGone /\ RqCurrent' = o.req
    BY <1>3, <1>6, <2>4, IsThere DEF OwnsUp, RqCurrent
  <2>6. RqSendOK'
    BY <1>4, <2>1, <2>4, <2>5 DEF RqSendOK
  <2>7. RqRequestsOK'
    BY <1>4 DEF RqInv, RqRequestsOK
  <2> QED  BY <2>5, <2>6, <2>7 DEF RqInv, CredentialsStayWithOrigin, HopsKeepTheirCourse
<1> QED  BY <1>5, <1>6

LEMMA RqSteps == RqInv /\ [RqNext]_rqVars => RqInv'
<1> SUFFICES ASSUME RqInv, [RqNext]_rqVars PROVE RqInv'
  OBVIOUS
<1>1. CASE RqHttpRequestCreate
  BY <1>1, CreateStep
<1>2. CASE RqHttpRequestRelease
  BY <1>2, ReleaseStep
<1>3. CASE RqCallSetUrl
  BY <1>3, SetUrlStep
<1>4. CASE RqCallSetTlsOptions
  BY <1>4, TlsOptionsStep
<1>5. CASE \/ RqCallSetMethod \/ RqCallSetHeader \/ RqCallGeneratedHeader \/ RqCallAddTrailer
           \/ RqCallSetBodyMode \/ RqCallSetConnectionPolicy \/ RqCallSetAddressFamily
           \/ RqCallBuildBody \/ RqCallSetBody \/ RqCallSetBodySource \/ RqCallClearBody
  BY <1>5, SetterSteps
<1>6. CASE RqReuseBuffer
  <2>1. RqRequestsOK'
    BY <1>6 DEF RqInv, RqRequestsOK, RqReuseBuffer
  <2> QED  BY <1>6, <2>1, ApplicationStep DEF RqReuseBuffer
<1>7. CASE \E async \in BOOLEAN : RqHttpSend(async)
  BY <1>7, SendStep
<1>8. CASE RqSendSingle
  <2>1. CASE RqFinish
    BY <1>8, <2>1, FinishStep DEF RqSendSingle, RqFinish
  <2>2. CASE ~RqFinish
    <3>1. /\ rqPhase = "send" /\ rqPhase' = "answer" /\ rqWire' = RqBuildRequest(RqCurrent)
          /\ UNCHANGED <<rqReq, rqClone, rqAsync, rqFollowed, rqCalls, rqMust>>
      BY <1>8, <2>2 DEF RqSendSingle
    <3> QED  BY <3>1, MessageStep
  <2> QED  BY <2>1, <2>2
<1>9. CASE RqAnswered
  BY <1>9, FinishStep DEF RqAnswered, RqFinish
<1>10. CASE RqRedirected
  BY <1>10, RedirectStep
<1>11. CASE UNCHANGED rqVars
  BY <1>11 DEF RqInv, RqRequestsOK, RqSendOK, RqCurrent, CredentialsStayWithOrigin,
               HopsKeepTheirCourse, rqVars
<1> QED  BY <1>1, <1>2, <1>3, <1>4, <1>5, <1>6, <1>7, <1>8, <1>9, <1>10, <1>11 DEF RqNext

LEMMA RqInitially == RqInit => RqInv
BY DEF RqInit, RqInv, RqRequestsOK, RqSendOK, CredentialsStayWithOrigin, HopsKeepTheirCourse

\* Whatever the application sets before, during and after a send, and wherever
\* it is redirected: credentials reach only the origin they were set for, no
\* message follows one under TLS in clear text, and the TLS name is the host's.
THEOREM CredentialsStay == RqSpec => []CredentialsStayWithOrigin
<1>1. RqInv => CredentialsStayWithOrigin
  BY DEF RqInv
<1> QED  BY RqInitially, RqSteps, <1>1, PTL DEF RqSpec

\* Every message of a send goes to the origin its redirects lead to, with the
\* method they leave, whatever the application does to its request meanwhile.
THEOREM CourseIsKept == RqSpec => []HopsKeepTheirCourse
<1>1. RqInv => HopsKeepTheirCourse
  BY DEF RqInv
<1> QED  BY RqInitially, RqSteps, <1>1, PTL DEF RqSpec
=============================================================================
