SPECIFICATION FairSpec
CONSTANTS
  NumAddr = 3
  MaxCount = 2
  Instruction <- Kinds
INVARIANTS
  TracedWhileStepping
  RangeIsExact
PROPERTIES
  StepIsExact
  StepEnds
  BadSupportIsReported
