\* A reader that misses after an invalidation joins a flight that left before it.
SPECIFICATION Spec
CONSTANTS
  Keys = {k1}
  Readers = {r1, r2}
  Writers = {w1}
  TTL = 1
  MaxEntries = 1
  MaxVersion = 1
  MaxGen = 1
  MaxTime = 0
INVARIANTS CacheNeverPredatesAck
