\* Every read of the package alone, interrupted or not, and two loads that share
\* one connection.
SPECIFICATION FairSpec
CONSTANTS
  l1 = l1
  l2 = l2
  Loads = {l1, l2}
  Setups <- AllSetups
  MaxQueryAttempts = 2
INVARIANTS Inv ConnectionsAccounted CarefulAnswersWhole
PROPERTIES EveryLoadReturns SomeLoadReturns
