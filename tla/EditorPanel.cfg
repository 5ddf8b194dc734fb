SPECIFICATION FairPanelSpec
CONSTANTS
  None = None
  Torn = Torn
  Callers = {c1, c2}
  MaxEdits = 1
  MaxAudits = 1
  MaxLoads = 2
  BuildMayFail = TRUE
  MaxPanels = 2
INVARIANTS BehindIsFollowed
PROPERTIES RequestsResolve
CHECK_DEADLOCK FALSE
