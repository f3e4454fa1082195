SPECIFICATION Spec
CONSTANTS
  Apps = {a1, a2}
  Windows = TRUE
INVARIANTS
  TypeOK
  NoModelServerAfterClose
  ServedAppIsWatched
PROPERTIES
  ServedAppLeavesNoSidecar
  SidecarComesUp
CHECK_DEADLOCK FALSE
