\* Lost update on the shared test_results counters.
CONSTANTS
    ua = ua  p1 = p1  p2 = p2  p3 = p3  p0 = p0
    Users <- MCUsers
    Phases <- MCBurst
    Ports <- MCPorts
    NoPort = p0
    FreshPorts = TRUE
    DefaultLimit = 1
    LimitValues = {}
    Enabled = TRUE
    OverflowAction = "reject"
    BackendFailureCode = "500"
SPECIFICATION Spec
INVARIANT CountsMatchCalls
