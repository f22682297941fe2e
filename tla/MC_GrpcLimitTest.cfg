\* The gRPC scripts that clean up: every call id they were given is ended.
CONSTANTS
    u1 = u1  u2 = u2  u3 = u3
    Users <- MCUsers
    TestedUser = u1
    NextUsers <- MCNextUsers
    Scripts <- MCPassScripts
    NumCalls = 3
    ExpectedLimit = 2
    MaxLeftover = 1
    DefaultLimit = 2
    Enabled = TRUE
    OverflowAction = "reject"
SPECIFICATION Spec
INVARIANTS TypeOK KnownCallsEnded
