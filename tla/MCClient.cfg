\* Small instances of what a request meets before it is sent.
SPECIFICATION ClientSpec
CONSTANTS
    CacheCallers = {c1, c2}
    CacheUrls = {u}
    CacheVariants = {a, b}
    CacheLength = 2
    CacheMaxEntries = 2
    CacheMaxBytes = 5
    CacheMaxRanges = 2
    CacheLifetime = 1
    CacheMaxVersion = 1
    CacheMaxClock = 1
    CacheDirectives = {"default", "only-if-cached"}
    CacheReplies = {"max-age"}
    CacheForms = {"placed", "unplaced", "parts"}

    AltRequests = {r1, r2}
    AltOrigins = {o1, o2}
    AltHosts = {h1}
    AltNone = none
    AltCapacity = 1
    AltMaxAge = 2
    AltInitialBackoff = 1
    AltMaxBackoff = 2
    AltMaxClock = 2
    AltMaxStores = 2

    JarThreads = {t1}
    JarHosts <- SomeHosts
    PublicSuffixes <- SomeSuffixes
    JarNames = {n}
    JarDomains <- SomeDomains
    JarMaxValue = 1
    JarMaxCookies = 2
    JarMaxBytes = 2
    JarMaxClock = 1

    DnCallers = {d1, d2}
    DnNames = {n}
    DnLongNames = {}
    DnCapacities = {2}
    DnSlots = 2
    DnTtl = 0
    DnMaxClock = 1
    DnMaxAsks = 2

    RqUrls <- SomeUrls
    RqLocations <- SomeLocations
    RqMethods = {"POST"}
    RqNames = {"authorization", "range", "te"}
    RqTexts <- SomeTexts
    RqSetters = {"form", "multipart", "text", "raw", "file", "borrow", "source"}
    RqTlsNames = {"c"}
    RqStatuses = {302, 307}
    RqFlags = {{"expect"}}
    RqProxied = TRUE
    RqNoMemory = TRUE
    RqMaxHeaders = 1
    RqMaxCalls = 2
    RqMaxUrls = 2
    RqMaxRedirects = 2
    RqMaxWork = 3

    WcAddresses = 2
    WcRetryLimit = 1
    WcModes = {"Auto", "Http11Only", "Http2Required"}
INVARIANTS
    CacheIsSound AlternativesAreSound JarIsSound ResolutionsAreSound CredentialsStayWithOrigin
    HopsFollowTheRedirects ConnectEndsCleanly
CHECK_DEADLOCK FALSE
