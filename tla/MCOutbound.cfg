CONSTANTS
  d1 = d1
  AcceptReqs = {}
  DialReqs = {d1}
  inboundId = inboundId
  IdOf <- MCIdOf
  CallIDs <- MCCallIDs
  NoCall = NoCall
  MaxStops = 1
SPECIFICATION FairSpec
INVARIANT ResourcesReleased
PROPERTY CallsEnd
