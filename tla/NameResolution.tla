--------------------------- MODULE NameResolution ---------------------------
(* Name resolution and the life of the WSK registration (net/WskClient.cpp). *)
(* ResolveAll answers from a global cache or asks the provider through an    *)
(* IRP whose context the caller shares with the completion; a question for   *)
(* any family that finds no address is asked again per family. Shutdown      *)
(* waits for the contexts that callers left behind, then releases the        *)
(* provider. An address is abstracted to its name, family and the time at    *)
(* which the provider's answer was read.                                     *)
EXTENDS Naturals, Sequences, FiniteSets, SequencesExt

CONSTANTS DnCallers,            \* threads that resolve
          DnNames,              \* node names with their port
          DnLongNames,          \* the names too long for a cache key
          DnCapacities,         \* addressCapacity of the calls
          DnSlots,              \* ResolveCacheCapacity
          DnTtl,                \* ResolveCacheTtl100ns
          DnMaxClock,           \* bound: clock ticks
          DnMaxAsks             \* bound: questions put to the provider

ASSUME NameResolutionConstants ==
    /\ DnLongNames \subseteq DnNames
    /\ DnCapacities \subseteq Nat \ {0}
    /\ DnSlots \in Nat \ {0} /\ DnTtl \in Nat /\ DnMaxClock \in Nat /\ DnMaxAsks \in Nat

VARIABLES dnCache,      \* g_resolveCache
          dnNext,       \* g_resolveCacheNextSlot
          dnCall,       \* caller -> the ResolveAll it runs
          dnRequest,    \* question -> its context and ResolveRequestContext
          dnCount,      \* g_wskOutstandingContextCount
          dnEvent,      \* g_wskOutstandingContextEvent is set
          dnSetting,    \* threads between the last decrement and KeSetEvent
          dnClient,     \* registration and provider of the client, and where Shutdown stands
          dnClock
dnVars == <<dnCache, dnNext, dnCall, dnRequest, dnCount, dnEvent, dnSetting, dnClient, dnClock>>

DnFamilies == {"Any", "Ipv4", "Ipv6"}
DnQuestions == 1..DnMaxAsks
DnFree == [valid |-> FALSE]
DnIdle == [at |-> "idle"]
DnUnasked == [refs |-> 0, inFlight |-> FALSE, names |-> "none", reply |-> "none", freed |-> 0]
DnNoAddress == {"NO_MATCH", "NOT_FOUND"}                 \* IsNoAddressResolveStatus

DnInit ==
    /\ dnCache = [s \in 1..DnSlots |-> DnFree] /\ dnNext = 1
    /\ dnCall = [c \in DnCallers |-> DnIdle]
    /\ dnRequest = [q \in DnQuestions |-> DnUnasked]
    /\ dnCount = 0 /\ dnEvent = TRUE /\ dnSetting = 0
    /\ dnClient = [registered |-> FALSE, captured |-> FALSE, at |-> "down", drained |-> FALSE]
    /\ dnClock = 1

----------------------------------------
(* The cache: global, under its own lock.                                    *)

\* Fault: the entry of another family answers.
DnMatchesAnyFamily(e, n, f, now) == e.valid /\ e.name = n /\ now - e.cachedAt <= DnTtl

\* ResolveCacheEntryMatches: an entry past its life no longer matches.
DnEntryMatches(e, n, f, now) ==
    e.valid /\ e.name = n /\ e.family = f /\ now - e.cachedAt <= DnTtl

\* TryCopyResolveCache: the first match, cut to the caller's capacity; << >> is a miss.
DnTryCopyCache(n, f, capacity) ==
    LET hits == {s \in 1..DnSlots : DnEntryMatches(dnCache[s], n, f, dnClock)} IN
    IF n \in DnLongNames \/ hits = {} THEN << >>
    ELSE LET e == dnCache[CHOOSE s \in hits : \A t \in hits : s <= t]
         IN  SubSeq(e.addresses, 1, IF Len(e.addresses) < capacity THEN Len(e.addresses) ELSE capacity)

\* StoreResolveCache: over the matching entry, else into the first free slot
\* before any match, else over the next slot in turn. An expired entry of the
\* same key is not matched and stays where it is.
DnStoreCache(n, f, addresses) ==
    LET hits == {s \in 1..DnSlots : DnEntryMatches(dnCache[s], n, f, dnClock)}
        free == {s \in 1..DnSlots : ~dnCache[s].valid}
        First(S) == CHOOSE s \in S : \A t \in S : s <= t
        slot == IF hits # {} THEN First(hits) ELSE IF free # {} THEN First(free) ELSE dnNext
    IN  IF n \in DnLongNames \/ addresses = << >> THEN UNCHANGED <<dnCache, dnNext>>
        ELSE /\ dnCache' = [dnCache EXCEPT ![slot] =
                   [valid |-> TRUE, name |-> n, family |-> f, addresses |-> addresses, cachedAt |-> dnClock]]
             /\ dnNext' = IF hits = {} /\ free = {} THEN (dnNext % DnSlots) + 1 ELSE dnNext

----------------------------------------
(* Outstanding contexts.                                                     *)

\* WskSyncTrackContextAllocated: the event is cleared for the first context.
DnTrackAllocated ==
    /\ dnCount' = dnCount + 1
    /\ dnEvent' = IF dnCount = 0 THEN FALSE ELSE dnEvent

\* Fault: the caller that gave up frees the context the completion still uses.
DnReleaseOutright(q) ==
    /\ dnRequest' = [dnRequest EXCEPT ![q].refs = 0, ![q].names = "freed", ![q].freed = @ + 1]
    /\ dnCount' = dnCount - 1
    /\ dnSetting' = IF dnCount = 1 THEN dnSetting + 1 ELSE dnSetting

\* WskSyncReleaseContext with DeleteResolveRequestContext as its clean-up, and
\* WskSyncTrackContextReleased up to the decrement. A result the caller did not
\* wait for is not given back to the provider.
DnReleaseContext(q) ==
    IF dnRequest[q].refs > 1
    THEN dnRequest' = [dnRequest EXCEPT ![q].refs = @ - 1] /\ UNCHANGED <<dnCount, dnSetting>>
    ELSE /\ dnRequest' = [dnRequest EXCEPT ![q].refs = 0, ![q].names = "freed", ![q].freed = @ + 1]
         /\ dnCount' = dnCount - 1
         /\ dnSetting' = IF dnCount = 1 THEN dnSetting + 1 ELSE dnSetting

\* The KeSetEvent of WskSyncTrackContextReleased, after the decrement.
DnSetEvent ==
    /\ dnSetting > 0
    /\ dnSetting' = dnSetting - 1 /\ dnEvent' = TRUE
    /\ UNCHANGED <<dnCache, dnNext, dnCall, dnRequest, dnCount, dnClient, dnClock>>

----------------------------------------
(* ResolveAll.                                                               *)

\* A ResolveAll ends: to its caller, or to ResolveAllExplicitAddressFamilies.
DnEnds(c, status, addresses) ==
    dnCall' = [dnCall EXCEPT ![c] =
        [@ EXCEPT !.at = IF dnCall[c].family = dnCall[c].want THEN "done" ELSE "family", !.status = status, !.found = addresses]]

\* Arguments, the provider and ParseTcpPort; nothing is asked of a client that is down.
DnResolveAll(c) ==
    /\ dnCall[c].at = "idle" /\ dnClient.at # "closing"
    /\ \E n \in DnNames, f \in DnFamilies, capacity \in DnCapacities :
         dnCall' = [dnCall EXCEPT ![c] =
            [at |-> IF dnClient.captured THEN "lookup" ELSE "done", name |-> n, want |-> f, family |-> f,
             capacity |-> capacity, got |-> << >>, found |-> << >>, first |-> "NO_MATCH", question |-> 0,
             asked |-> dnClock, status |-> "DEVICE_NOT_READY"]]
    /\ UNCHANGED <<dnCache, dnNext, dnRequest, dnCount, dnEvent, dnSetting, dnClient, dnClock>>

DnRoom(c) == dnCall[c].capacity - Len(dnCall[c].got)

\* TryCopyResolveCache at the head of ResolveAll.
DnLookup(c) ==
    /\ dnCall[c].at = "lookup"
    /\ LET hit == DnTryCopyCache(dnCall[c].name, dnCall[c].family, DnRoom(c)) IN
       IF hit # << >> THEN DnEnds(c, "SUCCESS", hit) ELSE dnCall' = [dnCall EXCEPT ![c].at = "ask"]
    /\ UNCHANGED <<dnCache, dnNext, dnRequest, dnCount, dnEvent, dnSetting, dnClient, dnClock>>

\* WskSyncAllocateIrp, the request with its two names, WskGetAddressInfo.
DnAsk(c) ==
    /\ dnCall[c].at = "ask"
    /\ \E q \in DnQuestions :
         /\ dnRequest[q] = DnUnasked /\ \A p \in 1..(q - 1) : dnRequest[p] # DnUnasked
         /\ dnRequest' = [dnRequest EXCEPT ![q] = [@ EXCEPT !.refs = 2, !.inFlight = TRUE, !.names = "held"]]
         /\ dnCall' = [dnCall EXCEPT ![c].at = "waiting", ![c].question = q]
    /\ DnTrackAllocated
    /\ UNCHANGED <<dnCache, dnNext, dnSetting, dnClient, dnClock>>

\* An allocation fails before anything is submitted.
DnAskFails(c) ==
    /\ dnCall[c].at = "ask"
    /\ DnEnds(c, "INSUFFICIENT_RESOURCES", << >>)
    /\ UNCHANGED <<dnCache, dnNext, dnRequest, dnCount, dnEvent, dnSetting, dnClient, dnClock>>

\* External: the provider completes the IRP; the completion routine notes the
\* status and releases its reference. "other" is a list with no usable family.
DnProviderAnswers(q) ==
    /\ dnRequest[q].inFlight
    /\ \E reply \in {"addresses", "NO_MATCH", "empty", "other"} :
         LET answered == [dnRequest EXCEPT ![q] = [@ EXCEPT !.inFlight = FALSE, !.reply = reply]] IN
         IF dnRequest[q].refs > 1
         THEN /\ dnRequest' = [answered EXCEPT ![q].refs = @ - 1] /\ UNCHANGED <<dnCount, dnSetting>>
         ELSE /\ dnRequest' = [answered EXCEPT ![q].refs = 0, ![q].names = "freed", ![q].freed = @ + 1]
              /\ dnCount' = dnCount - 1
              /\ dnSetting' = IF dnCount = 1 THEN dnSetting + 1 ELSE dnSetting
    /\ UNCHANGED <<dnCache, dnNext, dnCall, dnEvent, dnClient, dnClock>>

\* CopySocketAddress over the provider's list: usable families only, to capacity.
DnAddresses(c) ==
    LET call == dnCall[c]
        Of(f) == [name |-> call.name, family |-> f, at |-> dnClock]
        list == IF call.family = "Any" THEN <<Of("Ipv6"), Of("Ipv4")>> ELSE <<Of(call.family)>>
    IN  SubSeq(list, 1, IF Len(list) < DnRoom(c) THEN Len(list) ELSE DnRoom(c))

\* The IRP has completed: no address for any family is asked again by family,
\* an answer is copied, freed and cached, a failure is returned.
DnAnswered(c) ==
    LET q == dnCall[c].question
        reply == dnRequest[q].reply
        status == CASE reply = "addresses" -> "SUCCESS" [] reply = "other" -> "NOT_FOUND" [] OTHER -> "NO_MATCH"
    IN  /\ dnCall[c].at = "waiting" /\ ~dnRequest[q].inFlight
        /\ IF dnCall[c].family = "Any" /\ status \in DnNoAddress
           THEN /\ dnCall' = [dnCall EXCEPT ![c].at = "lookup", ![c].family = "Ipv4"]
                /\ UNCHANGED <<dnCache, dnNext>>
           ELSE LET found == IF status = "SUCCESS" THEN DnAddresses(c) ELSE << >> IN
                DnEnds(c, status, found) /\ DnStoreCache(dnCall[c].name, dnCall[c].family, found)
        /\ DnReleaseContext(q)
        /\ UNCHANGED <<dnEvent, dnClient, dnClock>>

\* WskOperationTimeoutMilliseconds and the cancel wait have passed: the caller
\* leaves, and the context with its names belongs to the completion.
DnTimesOut(c) ==
    /\ dnCall[c].at = "waiting" /\ dnRequest[dnCall[c].question].inFlight
    /\ DnEnds(c, "TIMEOUT", << >>)
    /\ DnReleaseContext(dnCall[c].question)
    /\ UNCHANGED <<dnCache, dnNext, dnEvent, dnClient, dnClock>>

\* SelectResolveFailureStatus: the failure that says more, Ipv4's first.
DnSelectFailure(first, second) ==
    IF first \notin DnNoAddress THEN first ELSE IF second \notin DnNoAddress THEN second ELSE first

\* ResolveAllExplicitAddressFamilies: Ipv4, then Ipv6 into the room that is
\* left; whatever was found is stored as the answer for any family.
DnExplicitFamilies(c) ==
    LET call == dnCall[c]
        all == call.got \o call.found
        ipv4 == IF call.family = "Ipv4" THEN call.status ELSE call.first
        ipv6 == IF call.family = "Ipv6" THEN call.status ELSE "NO_MATCH"
    IN  /\ call.at = "family"
        /\ IF call.family = "Ipv4" /\ Len(all) < call.capacity
           THEN /\ dnCall' = [dnCall EXCEPT ![c] = [@ EXCEPT !.at = "lookup", !.family = "Ipv6", !.got = all,
                                                             !.found = << >>, !.first = call.status]]
                /\ UNCHANGED <<dnCache, dnNext>>
           ELSE /\ dnCall' = [dnCall EXCEPT ![c] = [@ EXCEPT !.at = "done", !.found = all,
                    !.status = IF all # << >> THEN "SUCCESS" ELSE DnSelectFailure(ipv4, ipv6)]]
                /\ DnStoreCache(call.name, "Any", all)
        /\ UNCHANGED <<dnRequest, dnCount, dnEvent, dnSetting, dnClient, dnClock>>

DnReturns(c) ==
    /\ dnCall[c].at = "done"
    /\ dnCall' = [dnCall EXCEPT ![c] = DnIdle]
    /\ UNCHANGED <<dnCache, dnNext, dnRequest, dnCount, dnEvent, dnSetting, dnClient, dnClock>>

----------------------------------------
(* The registration.                                                         *)

\* WskReleaseProviderNPI, WskDeregister and ClearResolveCache, the end of Shutdown.
DnRelease(drained) ==
    /\ dnClient' = [registered |-> FALSE, captured |-> FALSE, at |-> "down", drained |-> drained]
    /\ dnCache' = [s \in 1..DnSlots |-> DnFree] /\ dnNext' = 1

\* Initialize: WskRegister, WskCaptureProviderNPI, the network monitor; a failure
\* of the last two undoes the first through Shutdown.
DnInitialize ==
    /\ dnClient.at = "down" /\ dnCount = 0
    /\ dnClient' \in {[registered |-> TRUE, captured |-> TRUE, at |-> "up", drained |-> FALSE], dnClient}
    /\ UNCHANGED <<dnCache, dnNext, dnCall, dnRequest, dnCount, dnEvent, dnSetting, dnClock>>

\* Shutdown, called by the driver once its calls have returned, reads the count
\* in WskSyncWaitForOutstandingContexts.
DnShutdown ==
    /\ dnClient.at = "up" /\ \A c \in DnCallers : dnCall[c].at = "idle"
    /\ IF dnCount = 0 THEN DnRelease(TRUE)
       ELSE dnClient' = [dnClient EXCEPT !.at = "closing"] /\ UNCHANGED <<dnCache, dnNext>>
    /\ UNCHANGED <<dnCall, dnRequest, dnCount, dnEvent, dnSetting, dnClock>>

\* The wait ends by the event or by its timeout; the provider is released either way.
DnDrained ==
    /\ dnClient.at = "closing"
    /\ \E byEvent \in (IF dnEvent THEN {TRUE, FALSE} ELSE {FALSE}) : DnRelease(byEvent)
    /\ UNCHANGED <<dnCall, dnRequest, dnCount, dnEvent, dnSetting, dnClock>>

DnTick ==
    /\ dnClock < DnMaxClock /\ dnClock' = dnClock + 1
    /\ UNCHANGED <<dnCache, dnNext, dnCall, dnRequest, dnCount, dnEvent, dnSetting, dnClient>>

DnNextStep ==
    \/ \E c \in DnCallers : \/ DnResolveAll(c) \/ DnLookup(c) \/ DnAsk(c) \/ DnAskFails(c)
                           \/ DnAnswered(c) \/ DnTimesOut(c) \/ DnExplicitFamilies(c) \/ DnReturns(c)
    \/ \E q \in DnQuestions : DnProviderAnswers(q)
    \/ DnSetEvent \/ DnInitialize \/ DnShutdown \/ DnDrained \/ DnTick

DnSpec == DnInit /\ [][DnNextStep]_dnVars

----------------------------------------
(* Properties.                                                               *)

\* What ResolveAll returns answers what was asked: some addresses, within the
\* caller's capacity, of its name and family, none twice; and an answer for one
\* family is no older than the cache's life. Lookups, provider answers and
\* stores of several callers interleave over shared slots that expire.
AnswersWhatWasAsked ==
    \A c \in DnCallers : dnCall[c].at = "done" /\ dnCall[c].status = "SUCCESS" =>
        LET call == dnCall[c] IN
        /\ Len(call.found) \in 1..call.capacity
        /\ IsInjective(call.found)
        /\ \A i \in DOMAIN call.found :
              /\ call.found[i].name = call.name
              /\ call.want # "Any" => call.found[i].family = call.want /\ call.asked - call.found[i].at <= DnTtl

\* The names a question points to live as long as the provider may read them,
\* every context is freed once, and the count Shutdown waits on is the number
\* of contexts that exist.
QuestionsAreAccounted ==
    /\ \A q \in DnQuestions : /\ dnRequest[q].inFlight => dnRequest[q].names = "held"
                              /\ dnRequest[q].freed <= 1
    /\ dnCount = Cardinality({q \in DnQuestions : dnRequest[q].refs > 0})

\* An answer for any family is no older than the cache's life either.
AnyFamilyAnswersAreRecent ==
    \A c \in DnCallers : dnCall[c].at = "done" /\ dnCall[c].status = "SUCCESS" =>
        \A i \in DOMAIN dnCall[c].found : dnCall[c].asked - dnCall[c].found[i].at <= DnTtl

\* A Shutdown whose drain succeeded releases the provider with no question outstanding.
DrainedMeansNothingOutstanding ==
    dnClient.at = "down" /\ dnClient.drained => dnCount = 0

(* A caller gets addresses of its own question, and no question or event of  *)
(* the resolver is lost or released twice.                                   *)
ResolutionsAreSound == AnswersWhatWasAsked /\ QuestionsAreAccounted
=============================================================================
