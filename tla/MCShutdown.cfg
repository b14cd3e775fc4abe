CONSTANTS
  a1 = a1
  d1 = d1
  AcceptReqs = {a1}
  DialReqs = {d1}
  inboundId = inboundId
  IdOf <- MCIdOf
  CallIDs <- MCCallIDs
  NoCall = NoCall
  MaxStops = 0
SPECIFICATION Spec
INVARIANT WgCounts
INVARIANT CleanExit
PROPERTY DrainStopsDials
