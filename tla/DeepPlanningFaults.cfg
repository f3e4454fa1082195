SPECIFICATION Spec
CONSTANTS
  Budget = 2
  MaxCalls = 5
  RequireConfirmation = TRUE
  ExecuteAfterCompile = TRUE
  Clients = {"desktop", "direct"}
  Faults = {"cut", "lost"}
INVARIANTS
  TypeOK
  ShownPlanIsReviewed
  PlansBounded
  OfferIsWaitedFor
PROPERTIES
  ApprovedWasSeen
  AsksBeforeItActs
  CallReturns
CHECK_DEADLOCK FALSE
