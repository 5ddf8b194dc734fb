SPECIFICATION FindingsSpec
CONSTANTS
  Procs = {p1, p2}
  Ids = {1, 2}
  b1 = b1
  b2 = b2
  Bodies = {b1, b2}
  None = None
  MaxRevisions = 2
  MaxCommands = 3
  Contract = 9
  Pragma = Pragma
  Elsewhere = Elsewhere
  Unlocated = Unlocated
  Layout <- MCLayout
  Reports <- MCReports
INVARIANTS NoteStandsOnce FindingsAreHonest
PROPERTIES RestIsKept
CHECK_DEADLOCK FALSE
