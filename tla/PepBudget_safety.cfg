\* Two agents, two calls each, over a budget that is edited twice.
SPECIFICATION Spec
CONSTANTS
  Agents = {a1, a2}
  Inputs <- SmallInputs
  MaxCalls = 2
  MaxEdits = 2
SYMMETRY MCSymmetry
CHECK_DEADLOCK FALSE
INVARIANTS Inv AnswersTrue RehearsalAvailable
PROPERTIES NothingByOmission LossesWereShown
