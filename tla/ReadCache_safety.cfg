\* Two goroutines read one of two keys while a writer and an outsider change
\* the database; one slot, so every store of the other key evicts.
SPECIFICATION Spec
CONSTANTS
  Keys = {k1, k2}
  Readers = {r1, r2}
  Writers = {w1}
  TTL = 1
  MaxEntries = 1
  MaxVersion = 2
  MaxGen = 2
  MaxTime = 1
SYMMETRY MCSymmetry
INVARIANTS TypeOK LedEntriesFresh Inv ReadYourWrites OneFlightPerKey
