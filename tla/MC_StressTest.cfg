\* Test 1 and Test 2 of run_stress_test, one call each, for a user whose
\* limit is the default 1 (with terminate_oldest) or an override of 0
\* (unlimited): the second call meets the first one's session, and every
\* call handed to the executor completes.
CONSTANTS
    ua = ua  p1 = p1  p2 = p2  p3 = p3  p0 = p0
    Users <- MCUsers
    Phases <- MCTwoPhases
    Ports <- MCPorts
    NoPort = p0
    FreshPorts = TRUE
    DefaultLimit = 1
    LimitValues = {0}
    Enabled = TRUE
    OverflowAction = "terminate_oldest"
    BackendFailureCode = "500"
SPECIFICATION Spec
INVARIANT TypeOK
PROPERTY EveryCallCompletes
