CONSTANTS
    c1 = c1
    c2 = c2
    c3 = c3
    p = p
    q = q
    Calls = {c1, c2, c3}
    Pages = {p, q}
    PageOf <- MCPageOf
    Before <- MCBefore
    Keys = {"RSA"}
    Values = {"v", "w"}
    NoValue = "undefined"
    Uncloneable = {}
    MayFail = {"commit"}
    PagesMayClose = FALSE
    Careless = {}
SPECIFICATION Spec
INVARIANT AckedPutIsStored
CHECK_DEADLOCK FALSE
