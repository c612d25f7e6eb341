\* Two requests of all kinds and policies, or three for two QUIC origins, on two
\* slots with one connection for each host.
SPECIFICATION SlotsSpec
CONSTANTS
  Capacity = 2
  MaxPerHost = 1
  Keys <- AllKeys
  NoKey = NoKey
  MaxH2Streams = 2
  MaxH3Streams = 2
  PipelineDepth = 2
  MaxSequence = 3
  Requests = {r1, r2, r3}
  Extra = r3
  Jobs <- SlotJobs
  KeepAliveOn = TRUE
  IdleTimeoutOn = TRUE
SYMMETRY Pairs
INVARIANTS TypeOK CountsExact QuotaRespected ConnectionsAreSafe
\* A connection retired beside another one is never closed, and the shutdown
\* waits for it (EveryCloseStarted of ConnectionPool).
CHECK_DEADLOCK FALSE
