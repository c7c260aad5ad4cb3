SPECIFICATION FairSpec
CONSTANTS
  Threads = {t1, t2}
  Cleaner = c
  Programs <- AllPrograms
  Unsettled <- AnswerBeforeView
  Ahead = 1
  Racing <- Racers
  MaxTimeouts = 1
  MaxCalls = 2
  MaxRounds = 1
INVARIANTS TypeOK
PROPERTIES HandlersActAlone CallsReturn ViewFollows
CHECK_DEADLOCK FALSE
