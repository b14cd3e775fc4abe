CONSTANTS
  SeqHalf = 6
  TsHalf = 16
  FrameTicks = 2
  MaxSeqJump = 2
  MaxRebaseFrames = 5
  MaxN = 6
  Window = 4
  MaxArrivals = 4
  Sources <- MCSources
  Number <- MCNumber
  Stamp <- MCStamp
  Elapsed <- MCElapsed
SPECIFICATION Spec
INVARIANTS LossCounted FractionFits Timeline
