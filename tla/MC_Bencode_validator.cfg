\* The pre-send check of test-bencode-basic.py on its own eight payloads.
CONSTANTS
    RawChars <- MCRawChars
    MaxRawLen = 7
    RefValues <- MCRefValues
    Cookies <- MCCookies
    Commands <- MCCommands
    SessionIds <- MCSessionIds
SPECIFICATION Spec
INVARIANT StringLengthsChecked
CHECK_DEADLOCK FALSE
