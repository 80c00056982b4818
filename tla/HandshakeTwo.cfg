\* A client and another program on the port, which sends any tokens, and a server that is started again.
SPECIFICATION Spec
CONSTANTS
  Client = {c1, c2}
  Genuine = {c1}
  CipherTakesIV = {TRUE, FALSE}
  Backlog = 3
  NoConn = NoConn
  MaxRuns = 2
INVARIANTS TypeOK EarlyNeverServed
PROPERTY VerifiedBeforeReply
CHECK_DEADLOCK FALSE
