CONSTANTS
    NoTool = NoTool
    UnknownTool = UnknownTool
    NoNode = NoNode
    Generic = "model.reasoning"
    Catalog <- BuiltCatalog
    Tools <- ShippedTools
    Permissions <- MCPermissions
    Sensitive <- MCSensitive
    DefaultAllowed <- MCDefaultAllowed
    Plans <- MCPlans
    SavedGraphs <- MCSavedGraphs
    Approvals <- MCApprovals
    WebNames <- MCWebNames
    ResearchNames <- MCResearchNames
    MaxAttached = 2
    MaxSearchAttempts = 3
    NumQueries = 3
    MaxBatch = 2
SPECIFICATION Spec
INVARIANT RetriesHaveTheirInputs
