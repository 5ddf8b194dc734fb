SPECIFICATION Spec
CONSTANTS
  Ids <- MCIds
  None = None
  Names <- MCNames
  Likeness <- MCLikeness
  Threshold = 660
  Inputs <- MCInputs
INVARIANTS MatchingIsOneToOne FuzzyIsStable EdgesFollowTheirNodes SurfaceIsReported
CHECK_DEADLOCK FALSE
