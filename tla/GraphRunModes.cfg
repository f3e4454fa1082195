SPECIFICATION Spec
CONSTANTS
  a = a
  b = b
  c = c
  NoJob = NoJob
  Nodes = {a, b}
  Deps <- ChainDeps
  Edges = {}
  Rank <- ChainRank
  OutputNodes = {b}
  DataDependent = {}
  Runs = {r1, r2}
  Jobs = {j1, j2}
  SkipStatuses = {}
  GateChoices <- HeldBack
  ResumeFrom = "latest"
  Overlap = "none"
SYMMETRY Symmetry
PROPERTIES
  PartialRunReruns
CHECK_DEADLOCK FALSE
