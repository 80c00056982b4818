\* One client that outlives a run of the server; ciphers that refuse the IV.
SPECIFICATION Spec
CONSTANTS
  Client = {c1}
  Genuine = {c1}
  CipherTakesIV = {FALSE}
  Backlog = 2
  NoConn = NoConn
  MaxRuns = 2
INVARIANT ChannelsMatch
CHECK_DEADLOCK FALSE
