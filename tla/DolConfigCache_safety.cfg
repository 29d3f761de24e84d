\* Two overlapping callers, loads that take up to a tick, and time for a value
\* to be learnt, to age, to outlive an outage and to be learnt again.
SPECIFICATION Spec
CONSTANTS
  Callers = {c1, c2}
  TTL = 2
  RetryAfter = 1
  Deadline = 1
  MaxVersion = 2
  MaxTime = 6
SYMMETRY MCSymmetry
INVARIANTS TypeOK Inv OldOnlyInOutage
PROPERTIES NeverForgotten RetriesSpaced
