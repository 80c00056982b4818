CONSTANTS
    c1 = c1
    c2 = c2
    c3 = c3
    Calls = {c1, c2, c3}
    Functions <- MCFunctions
    Platforms <- MCPlatforms
    Careless = {c3}
    Rings = {"r", "q"}
    IncompleteRings = {"q"}
    Passwords = {"p"}
    Parties = {"s", "t"}
    ContentLength <- MCContentLength
    MinIterations = 2
    ExtraIterations = 0
    Confusions <- MCConfusions
    MaxOpen = 2
    After <- MCAfter
    ByteBase = 2
SPECIFICATION Spec
INVARIANTS TypeOK AnsweredOnce DecryptedIsSent VerifiedIsSigned NoNeedlessError CutIsPrefix
PROPERTY EveryCallAnswers
CHECK_DEADLOCK FALSE
