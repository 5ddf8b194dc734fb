SPECIFICATION Spec
CONSTANTS
  None = None
  Threshold = 30
  Projects <- MCProjects
INVARIANTS
  LinearizedAsSolidity
  DispatchIsCovered
  CompilerHasTheLastWord
  SitesAreCounted
  WrittenIsFollowed
CHECK_DEADLOCK FALSE
