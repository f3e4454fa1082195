SPECIFICATION Spec
CONSTANTS
  Messages <- Conversation
  MaxTurns = 2
INVARIANTS
  TypeOK
  AnswersKeepTheCanvas
  OutageNeverPlans
PROPERTIES
  AskedBeforeOverwrite
CHECK_DEADLOCK FALSE
