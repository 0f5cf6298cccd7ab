SPECIFICATION MCSpec
CONSTANTS
    Requests = {1, 2, 3}
    Buffers = {"b1", "b2"}
    InputSize = 4
    Scripts <- MCScripts
    BodyLength = 2
    MaxOut = 2
    MaxConnects = 3
    MaxStack = 2
    Texts <- MCTexts
    LineTypes <- MCLineTypes
    BufSize = 14
    Leftovers = {"a", "space", "return", "newline", ":", "nul"}
    UrlChars = {"a", "1", ":", "/"}
    UrlStarts <- MCUrlStarts
    MaxAdded = 6
INVARIANTS
    StreamHandled
    HttpdSound
    MessageAsWhole
    UrlRight
CHECK_DEADLOCK FALSE
