SPECIFICATION Spec
CONSTANTS
  Budget = 1
  MaxCalls = 2
  RequireConfirmation = TRUE
  ExecuteAfterCompile = TRUE
  Clients = {"desktop"}
  Faults = {}
INVARIANTS
  ChoicesReachTheThread
CHECK_DEADLOCK FALSE
