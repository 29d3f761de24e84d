\* Two calls of up to two attempts each, against their promise; no symmetry. A
\* system whose calls have all ended has nothing left to do.
SPECIFICATION FairSpec
CONSTANTS
  Callers = {c1, c2}
  MaxAttempts = 2
CHECK_DEADLOCK FALSE
INVARIANTS Inv PostLandsOnce SuccessIsCovered
PROPERTIES KeepsPromise EveryCallReturns
