SPECIFICATION FairSpec
CONSTANTS
  Threads = {t1, t2}
  MaxCalls = 3
  Budgets <- Interfaces
INVARIANTS TypeOK SlotIsLive
PROPERTIES WatchedToTheEnd SlotFreed AloneReturns
CHECK_DEADLOCK FALSE
