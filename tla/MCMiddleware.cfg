SPECIFICATION MiddlewareSpec
CONSTANTS
    text = text
    garbage = garbage
    deep = deep
    bad = bad
    Texts <- MCTexts
    Undecodable <- MCUndecodable
    Raises <- MCRaises
    MaxMessages = 3
    MaxReceives = 3
CHECK_DEADLOCK FALSE
INVARIANT BodyReplayed
PROPERTY RequestsGoOn
