CONSTANTS
  a1 = a1
  a2 = a2
  AcceptReqs = {a1, a2}
  DialReqs = {}
  inboundId = inboundId
  IdOf <- MCIdOf
  CallIDs <- MCCallIDs
  NoCall = NoCall
  MaxStops = 0
  Callers <- Reqs
  PortCount = 2
  CursorRange = 3
  Served = 2
  Nobody = Nobody
  Elsewhere = Elsewhere
SYMMETRY Symmetry
SPECIFICATION CPSpec
INVARIANT MapTracksLive
INVARIANT NoLostWaiter
INVARIANT ScanComplete
INVARIANT PortsReturned
