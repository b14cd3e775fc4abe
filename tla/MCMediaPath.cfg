CONSTANTS
  SSRCs = {s1}
  QueueSize = 1
  ReportsSize = 1
  MediaTimeout = TRUE
  EndpointSize = 1
  MaxPackets = 4
SPECIFICATION Spec
PROPERTIES NoStall LoopEnds FailureReachesRelay
