SPECIFICATION FairSpec
CONSTANTS
  Ids <- MCIds
  None = None
  Names <- MCNames
  WordBits = 2
  Inputs <- MCInputs
INVARIANTS ReachIsExact ConfidenceIsTheStrongest ShapeIsFound
PROPERTIES EndsWithoutSignBit
CHECK_DEADLOCK FALSE
