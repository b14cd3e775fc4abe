CONSTANTS
  SSRCs = {s1, s2}
  QueueSize = 2
  ReportsSize = 1
  MediaTimeout = TRUE
  MaxPackets = 5
SPECIFICATION QueueSpec
INVARIANTS Conserved InOrder NewestKept
