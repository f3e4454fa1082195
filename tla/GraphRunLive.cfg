SPECIFICATION Spec
CONSTANTS
  a = a
  b = b
  c = c
  NoJob = NoJob
  Nodes = {a, b}
  Deps <- ChainDeps
  Edges = {}
  Rank <- ChainRank
  OutputNodes = {b}
  DataDependent = {}
  Runs = {r1}
  Jobs = {j1, j2}
  SkipStatuses = {}
  GateChoices <- OpenOnly
  ResumeFrom = "any"
  Overlap = "none"
PROPERTIES
  EveryJobEnds
  TokenReleased
  CancelStopsRemainingNodes
CHECK_DEADLOCK FALSE
