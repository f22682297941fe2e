\* All ten scripts, lost, late and missing answers included: every script ends.
CONSTANTS
    Scripts <- ScriptNames
    Groups <- MCGroups
    CookieOf <- MCCookies
    Results = {"pong", "ok", "error"}
    ErrorReason <- MCReason
    Ports <- MCPorts
    NoPort = NoPort
    FreshPorts = TRUE
    p1 = p1
    p2 = p2
    p3 = p3
SPECIFICATION Spec
INVARIANT TypeOK
PROPERTY Termination
CHECK_DEADLOCK FALSE
