\* Three keys for two slots, and enough ticks for entries to expire apart; no
\* symmetry.
SPECIFICATION FairSpec
CONSTANTS
  Keys = {k1, k2, k3}
  Readers = {r1, r2}
  Writers = {}
  TTL = 1
  MaxEntries = 2
  MaxVersion = 0
  MaxGen = 0
  MaxTime = 3
INVARIANTS WithinCapacity
PROPERTIES ExpiredGoFirst EveryReadReturns
