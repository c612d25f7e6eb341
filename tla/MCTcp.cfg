\* Small instances of what runs over one TCP connection.
SPECIFICATION TcpSpec
CONSTANTS
    TrRoutes <- SomeRoutes
    TrServers <- SomeServers
    TrRequests <- SomeRequests
    TrAddresses = 2
    TrChunks = 2
    TrLateModes = {"tls", "prior"}
    TrMaxCalls = 2
    TrMaxFaults = 2

    H1BodyLength = 2
    H1UploadLength = 2
    H1InitialBuffer = 1
    H1MaxResponse = 2
    H1Framings = {"none", "length", "chunked", "close"}
    H1Codings = {"identity", "content"}

    CdBytes = 4
    CdGroup = 8
    CdRequests <- SomeOffers
    CdOffers <- ServerCodings
    CdBodies <- ShortBodies
    CdExchanges <- SomeExchanges
    CdStyles <- SomeStyles
    CdTransports = {"h1"}
    CdMaterials = {"dcb", "dcz", "aes128gcm"}
    CdInitialCapacity = 3
    CdScratch = 4
    CdMaxResponse = 64
    CdMaxRatio = 4
    CdProbers = {"p1"}
    CdMaxFailures = 1

    EsDocuments <- EventDocuments
    EsMaxLine = 32
    EsMaxEvent = 8
    EsFirstBuffer = 2
    EsMaxRetry = 25
    EsMemory = {2, 64}
    EsQueueRooms = {1, 4}
    EsSplitsBom = FALSE

    Gets = {g}
    Posts = {p}
    Tunnels = {t}
    PostLength = 2
    InitialWindow = 1
    MaxStreams = 2
    MaxLink = 1
    MaxGrants = 1
    NoStream = none

    HpStatic <- HpackStatic
    HpSensitive = {"cookie"}
    HpBlocks <- HpackBlocks
    HpLongValues = {"long"}
    HpTableSizes = {0, 1, 2}
    HpInitialSize = 1
    HpFaults = {"encode", "skip"}
    HpMaxBlocks = 3
    HpMaxSettings = 2

    WsSenders = {s1, s2}
    WsReceivers = {r}
    WsNobody = nobody
    WsMaxSends = 2
    WsMaxFrames = 2
    WsMaxControlFrames = 1
    WsMaxMessage = 2
    WsMaxTraffic = 2
INVARIANTS
    RouteServesRequest ExchangesStayInStep CodingsAgree EventsAsWritten FlowControlAgrees HpackBlocksSurvive
    WebSocketMessagesIntact
CHECK_DEADLOCK FALSE
