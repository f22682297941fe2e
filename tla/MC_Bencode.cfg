\* parse_bencode against the reference encoding and the scripts' encoders.
CONSTANTS
    RawChars <- MCRawChars
    MaxRawLen = 7
    RefValues <- MCRefValues
    Cookies <- MCCookies
    Commands <- MCCommands
    SessionIds <- MCSessionIds
SPECIFICATION Spec
INVARIANTS TypeOK ParsesToIntended
CHECK_DEADLOCK FALSE
