CONSTANTS
    c1 = c1
    c2 = c2
    c3 = c3
    p = p
    q = q
    Calls = {c1, c2, c3}
    Pages = {p, q}
    PageOf <- MCPageOf
    Before <- MCBefore
    Keys = {"RSA"}
    Values = {"v", "w"}
    NoValue = "undefined"
    Uncloneable = {"w"}
    MayFail = {"open", "request", "commit"}
    PagesMayClose = TRUE
    Careless = {c1}
SPECIFICATION Spec
INVARIANT TypeOK
PROPERTIES InOrder ImplementsKeyMap EveryCallAnswers ConnectionsClose
CHECK_DEADLOCK FALSE
