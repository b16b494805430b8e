CONSTANTS
  plain = plain
  ruled = ruled
  bodyless = bodyless
  b0 = b0
  b1 = b1
  Empty = Empty
  Streamed = Streamed
  Heads = {plain, ruled, bodyless}
  Bodyless = {bodyless}
  Bodies = {Empty, b0, b1}
  WireHead <- MCWireHead
  WireBody <- MCWireBody
  RuledHead <- MCRuledHead
  RuledLength <- MCRuledLength
  RuledBody <- MCRuledBody
  RuleSets <- MCRuleSets
  Chunks = 2
SPECIFICATION FairSpec
INVARIANTS
  RecordedRequestIsSent
  RecordedResponseIsDelivered
  NeverFalselyComplete
  HeldGoesOnAsDecided
PROPERTIES
  GoneClientIsLetGo
  ImplementsExchange
