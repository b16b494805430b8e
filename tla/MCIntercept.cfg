CONSTANTS
  q1 = q1
  q2 = q2
  p1 = p1
  plain = plain
  edited = edited
  h1 = h1
  h2 = h2
  NoEdit = NoEdit
  NoCall = NoCall
  Calls = {q1, p1}
  Handlers = {h1, h2}
  Groups <- MCGroups
  GroupOf <- MCGroupOf
  Contents <- MCContents
  Received <- MCReceived
  TimeoutOn = TRUE
  GoneDrops = TRUE
SPECIFICATION Spec
SYMMETRY Symmetry
INVARIANTS
  ExactlyOneOwner
  AckedIsDelivered
PROPERTY ImplementsContract
