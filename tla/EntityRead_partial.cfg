\* An order, or a project: a statement fails, or its connection breaks while its
\* rows are read.
SPECIFICATION Spec
CONSTANTS
  l1 = l1
  l2 = l2
  Loads = {l1, l2}
  Setups <- PartialSetups
  MaxQueryAttempts = 3
INVARIANTS AnswersWhole
