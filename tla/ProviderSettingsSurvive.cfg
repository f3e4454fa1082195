SPECIFICATION Spec
CONSTANTS
    Workers = {w1, w2}
    Providers = {p1}
    Endpoints = {e1}
    Keys = {k1}
    SessionIds = {s1}
    None = None
    MaxCommands = 2
    Crashes = FALSE
    Faults = {}
INVARIANT PreferencesSurvive
CHECK_DEADLOCK FALSE
