\* One call of each tool with every small input; a call ends for good.
SPECIFICATION Spec
CONSTANTS
  Callers = {c1}
  Requests <- SmallRequests
  MostChanges = 2
CHECK_DEADLOCK FALSE
INVARIANTS TypeOK NothingLost NumberedByDolibarr CreatesAnchored OnceOnly FailuresReported
