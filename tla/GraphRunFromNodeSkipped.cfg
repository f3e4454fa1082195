SPECIFICATION Spec
CONSTANTS
  a = a
  b = b
  c = c
  NoJob = NoJob
  Nodes = {a, b}
  Deps <- ChainDeps
  Edges = {}
  Rank <- ChainRank
  OutputNodes = {b}
  DataDependent = {}
  Runs = {r1, r2}
  Jobs = {j1, j2}
  SkipStatuses = {"completed", "needs_permission"}
  GateChoices <- OpenOnly
  ResumeFrom = "latest"
  Overlap = "none"
PROPERTIES
  PartialRunReruns
CHECK_DEADLOCK FALSE
