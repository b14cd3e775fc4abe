CONSTANTS
  Closers = {k1, k2}
  Waiters = {w1, w2}
SPECIFICATION FairSpec
INVARIANTS TypeOK ClosedForGood NilWaitIsHonest
PROPERTIES CloseReturns WaitReturns GoroutinesEnd MediaPumped
