CONSTANTS
  a1 = a1
  AcceptReqs = {a1}
  DialReqs = {}
  inboundId = inboundId
  IdOf <- MCIdOf
  CallIDs <- MCCallIDs
  NoCall = NoCall
  MaxStops = 1
SPECIFICATION Spec
INVARIANT LegTerminatedOnLiveKitClose
