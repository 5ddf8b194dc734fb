SPECIFICATION FairSpec
CONSTANTS
  None = None
  Torn = Torn
  Callers = {c1, c2}
  MaxEdits = 2
  MaxAudits = 1
  MaxLoads = 2
  BuildMayFail = TRUE
INVARIANTS OneLoadInFlight OwnReloadIsFresh AuditBehindHasEvent
PROPERTIES EveryCallReturns TornStateHeals ImplementsHolder
CHECK_DEADLOCK FALSE
