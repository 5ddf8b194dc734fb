SPECIFICATION FairSpec
CONSTANTS
  Files = {f1, f2}
  Settings = {s1, s2}
  MaxChanges = 1
  MaxTime = 1
  MaxBuilds = 2
INVARIANTS BelievedIsCurrent
PROPERTIES LoadReturns
CHECK_DEADLOCK FALSE
