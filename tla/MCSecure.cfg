\* Small instances of what runs over QUIC and of what secures a connection.
SPECIFICATION SecureSpec
CONSTANTS
    H3Requests = {r1}
    H3Chunks = 1
    H3Trailers = {r1}
    H3Polling = {}
    H3Capacity = 2
    H3RouteCapacity = 1
    H3EarlyAnswers = TRUE
    H3Faults = TRUE
    H3Deaths = TRUE
    H3MaxFrames = 2
    H3MaxInserts = 1

    QpStreams = {q1, q2}
    QpStatic <- QpackStatic
    QpSensitive = {"cookie"}
    QpPairs <- QpackPairs
    QpSections <- QpackSections
    QpCapacity = 2
    QpBlockedStreams = 1
    QpEncoders = {"own", "another"}
    QpCapacities = {1, 2}
    QpMaxFlight = 2
    QpFragments = FALSE
    QpMaxInserts = 2
    QpMaxSections = 1

    QtLength = 3
    QtReceiveLimit = 3
    QtMaxGaps = 2
    QtMaxRanges = 3
    QtMaxIds = 3
    QtWindow = 2
    QtScenarios = {{"stream", "consume", "reset"}, {"open", "write", "ack", "limits"},
                   {"open", "abort", "stop", "close"}, {"ids", "retire", "path"},
                   {"key", "ack", "update"}}
    QtMaxPackets = 3
    QtMaxSent = 3

    QhSuites = {"sha256"}
    QhServerUses = {{}, {"retry", "hrr", "ask"}}
    QhCredentials = {"small"}
    QhMaxLosses = 1
    QhMaxDuplicates = 1
    QhMaxProbes = 1
    QhMaxResends = 1

    T12Suites = {"sha384"}
    T12Exchanges = {"ecdhe", "rsa"}
    T12ServerAsks = FALSE
    T12ServerTalks = TRUE
    T12SessionIds = {TRUE, FALSE}
    T12MaxSessions = 1
    T12MaxRenegotiations = 1
    T12MaxConnects = 2
    T12MaxSends = 1

    Tls13Suites = {"sha384"}
    Tls13Usages = {"duplex", "turns"}
    Tls13ServerResumes = FALSE
    Tls13MaxTickets = 1
    Tls13MaxConnects = 2
    Tls13MaxSends = 1
    Tls13MaxEvents = 1

    CvCasts = {{"site", "ca", "cross"}, {"deep", "sub", "ca"}, {"self"}}
    CvFaults = {"none", "expired", "future", "nineties", "longlived", "notca", "isca", "length0",
                "nosign", "noids", "badsig", "oldalg", "othername", "wild", "toowild", "nonames",
                "manynames", "address", "foreign", "permits", "elsewhere", "excludes", "manypermits", "manyexcludes",
                "subnet", "directory", "email", "policy", "explicit", "client", "critical", "extra",
                "twice", "short"}
    CvHosts = {"www", "u-noidna"}
    CvTrusts = {"root", "bundle", "short"}
    CvEvidence = {"good", "revoked", "unknown", "stale", "nonext", "forged", "keyid", "delegated",
                  "noeku", "another", "trylater"}
    CvPlaces = {"nowhere", "stapled", "entry-ocsp", "provider-ocsp", "entry-crl", "provider-crl"}
    CvMaxNames = 2
    CvMaxConstraints = 1
    CvMaxChain = 4
INVARIANTS
    H3ResponseIntact QpackSectionsSurvive QuicDeliversExactly QuicEndsAgree Tls12EndsAgree
    BothEndsAgree ChainIsJudgedAsIssued
CHECK_DEADLOCK FALSE
