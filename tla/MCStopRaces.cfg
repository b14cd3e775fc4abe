CONSTANTS
  a1 = a1
  AcceptReqs = {a1}
  DialReqs = {}
  inboundId = inboundId
  IdOf <- MCIdOf
  CallIDs <- MCCallIDs
  NoCall = NoCall
  MaxStops = 2
SPECIFICATION Spec
INVARIANT UserHangupNotRepeated
INVARIANT NoSilentDrop
INVARIANT FreshTokenUsed
PROPERTY LivesAsPromised
