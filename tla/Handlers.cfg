SPECIFICATION Spec
CONSTANTS
  Programs <- AllPrograms
  Unsettled <- AnswerBeforeView
INVARIANTS
  AnsweredOnce NothingLeftBehind ProperUse MainNotHeldUp SettledAtReply PoolsAskedFor
