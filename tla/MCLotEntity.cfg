SPECIFICATION Spec
CONSTANTS
  Nodes = {n1, n2}
  NoCommand = NoCommand
  Commands <- Race
  MaxDerived = 1
SYMMETRY Symmetry
INVARIANTS TypeOK OneTransactionPerOp KnowsThePast AnswersShowTheCommand
PROPERTIES IsOneLedger
CHECK_DEADLOCK FALSE
