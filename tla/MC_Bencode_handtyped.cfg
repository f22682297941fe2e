\* The hand-typed payloads of the probing scripts, through parse_bencode.
CONSTANTS
    RawChars <- MCRawChars
    MaxRawLen = 0
    RefValues <- MCRefValues
    Cookies <- MCCookies
    Commands <- MCCommands
    SessionIds <- MCSessionIds
SPECIFICATION Spec
INVARIANT HandTypedWellFormed
CHECK_DEADLOCK FALSE
