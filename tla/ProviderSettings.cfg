SPECIFICATION Spec
CONSTANTS
    Workers = {w1, w2}
    Providers = {p1, p2}
    Endpoints = {e1, e2}
    Keys = {k1, k2}
    SessionIds = {s1}
    None = None
    MaxCommands = 3
    Crashes = TRUE
    Faults = {"disk", "vault"}
INVARIANTS TypeOK KeysStayWithTheirEndpoint ListedProvidersHaveTheirKey ActiveProviderIsListed
PROPERTY CommandsAreAllOrNothing
SYMMETRY Interchangeable
CHECK_DEADLOCK FALSE
