\* A contact is updated, and the call fails without a status.
SPECIFICATION Spec
CONSTANTS
  Callers = {c1}
  Requests <- ContactRequests
  MostChanges = 2
CHECK_DEADLOCK FALSE
INVARIANTS WriteFailuresReported
