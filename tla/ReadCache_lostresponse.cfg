\* One reader, so no flight is shared: the write's answer is lost.
SPECIFICATION Spec
CONSTANTS
  Keys = {k1}
  Readers = {r1}
  Writers = {w1}
  TTL = 1
  MaxEntries = 1
  MaxVersion = 1
  MaxGen = 1
  MaxTime = 0
INVARIANTS CacheNeverOutlivesOwnChange
