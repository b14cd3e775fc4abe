CONSTANTS
  Tracks <- MCTracks
  SidOf <- MCSidOf
  NoSid = NoSid
  Descriptions <- MCDescriptions
SPECIFICATION Spec
INVARIANT OneVoice
INVARIANT NoStaleSlot
INVARIANT AnswerWhole
INVARIANT PayloadAgrees
INVARIANT EndsOnlyWithMedia
