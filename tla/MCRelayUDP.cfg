CONSTANTS
  c1 = c1
  Clients = {c1}
  NoClient = NoClient
  Datagrams = 2
  Answers = 1
  TimeoutOn = FALSE
  MayRefuse = TRUE
SPECIFICATION FairSpec
INVARIANTS
  NoSessionIsLost
PROPERTIES
  IdleSessionIsEvicted
  ReaderEndsWithSocket
