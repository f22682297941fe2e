\* One socket for every request and an RTPEngine that only ever answers pong: a late pong to one request is taken as the next one's success.
CONSTANTS
    Scripts = {"final-format"}
    Groups <- MCGroups
    CookieOf <- MCCookies
    Results = {"pong"}
    ErrorReason <- MCReason
    Ports <- MCPorts
    NoPort = NoPort
    FreshPorts = TRUE
    p1 = p1
    p2 = p2
    p3 = p3
SPECIFICATION Spec
INVARIANT SuccessMeansAccepted
CHECK_DEADLOCK FALSE
