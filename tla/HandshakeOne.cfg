\* One client and one run of the server; the programs and their users go on.
SPECIFICATION FairSpec
CONSTANTS
  Client = {c1}
  Genuine = {c1}
  CipherTakesIV = {TRUE, FALSE}
  Backlog = 2
  NoConn = NoConn
  MaxRuns = 1
INVARIANT ChannelsMatch
PROPERTY ReadIsAnswered
CHECK_DEADLOCK FALSE
