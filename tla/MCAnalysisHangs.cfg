SPECIFICATION FairSpec
CONSTANTS
  Ids <- MCIds
  None = None
  Names <- MCNames
  WordBits = 2
  Inputs <- MCRecursion
PROPERTIES PropagationEnds
CHECK_DEADLOCK FALSE
