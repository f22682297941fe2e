\* verify_session_limits.py: a FAIL verdict while the limit held.
CONSTANTS
    u1 = u1  u2 = u2  u3 = u3
    Users <- MCUsers
    TestedUser = u1
    NextUsers <- MCNextUsers
    Scripts = {"verify"}
    NumCalls = 3
    ExpectedLimit = 2
    MaxLeftover = 1
    DefaultLimit = 2
    Enabled = TRUE
    OverflowAction = "reject"
SPECIFICATION Spec
INVARIANT FailMeansOverAdmission
