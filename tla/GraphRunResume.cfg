SPECIFICATION Spec
CONSTANTS
  a = a
  b = b
  c = c
  NoJob = NoJob
  Nodes = {a, b, c}
  Deps <- ForkDeps
  Edges = {}
  Rank <- ForkRank
  OutputNodes = {b, c}
  DataDependent = {}
  Runs = {r1}
  Jobs = {j1, j2, j3}
  SkipStatuses = {}
  GateChoices <- OpenOnly
  ResumeFrom = "latest"
  Overlap = "none"
SYMMETRY JobSymmetry
INVARIANTS
  TypeOK
  CheckpointsSplitGraph
  DependenciesComputed
  LatestCheckpointBacked
  CompletedRunIsWhole
  CancelReachesJob
PROPERTIES
  VerdictOnDisk
  ImplementsContract
CHECK_DEADLOCK FALSE
