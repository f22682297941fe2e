\* A late answer to an earlier call on a reused port.
CONSTANTS
    ua = ua  p1 = p1  p2 = p2  p3 = p3  p0 = p0
    Users <- MCUsers
    Phases <- MCBurst
    Ports <- MCFewPorts
    NoPort = p0
    FreshPorts = FALSE
    DefaultLimit = 1
    LimitValues = {}
    Enabled = TRUE
    OverflowAction = "reject"
    BackendFailureCode = "500"
SPECIFICATION Spec
INVARIANT CallVerdictSound
