SPECIFICATION FairSpec
CONSTANTS
  Threads = {t1, t2}
  MaxCalls = 3
  Budgets <- Namespace
PROPERTIES WaitersReturn
CHECK_DEADLOCK FALSE
