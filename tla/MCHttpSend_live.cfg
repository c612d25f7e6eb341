SPECIFICATION LiveSpec
CONSTANTS
  Capacity = 1
  MaxPerHost = 1
  Keys <- AllKeys
  NoKey = NoKey
  MaxH2Streams = 2
  MaxH3Streams = 2
  PipelineDepth = 2
  MaxSequence = 3
  Requests = {r1, r2}
  Jobs <- LiveJobs
  KeepAliveOn = TRUE
  IdleTimeoutOn = FALSE
PROPERTIES RequestsFinish ShutdownCompletes
