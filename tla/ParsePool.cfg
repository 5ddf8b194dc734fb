SPECIFICATION FairSpec
CONSTANTS
  FileCount = 3
  Texts = {t1, t2}
  WorkerCount = 2
  Pids = {1}
  MaxPools = 2
  MaxEdits = 1
  MaxFailures = 1
  None = None
  Torn = Torn
  Unreadable = Unreadable
INVARIANTS AnswersTheFiles
PROPERTIES RunSettles LeftoversEnd
CHECK_DEADLOCK FALSE
