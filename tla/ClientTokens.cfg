CONSTANTS
    Clients = {"a", "b"}
    Fingerprints = {"f", "g"}
SPECIFICATION Spec
INVARIANT TokensTellClientsApart
CHECK_DEADLOCK FALSE
