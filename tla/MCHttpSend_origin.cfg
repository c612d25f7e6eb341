SPECIFICATION Spec
CONSTANTS
  Capacity = 1
  MaxPerHost = 1
  Keys <- AllKeys
  NoKey = NoKey
  MaxH2Streams = 2
  MaxH3Streams = 2
  PipelineDepth = 3
  MaxSequence = 4
  Requests = {r1, r2, r3}
  Jobs <- OriginJobs
  KeepAliveOn = TRUE
  IdleTimeoutOn = TRUE
SYMMETRY Symmetry
INVARIANTS PipelineInOrder ConnectionsAreSafe
