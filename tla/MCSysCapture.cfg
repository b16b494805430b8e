CONSTANTS
  a = a
  b = b
  x = x
  y = y
  Endpoints = {a, b}
  Bytes = {x, y}
  LenMod = 64
  Arrivals <- MCArrivals
  MaxPackets = 2
  Edits <- MCEdits
  MaxCapture = 1
  TimeoutOn = FALSE
SPECIFICATION FairSpec
INVARIANTS
  AckedIsInjected
  HistoryTellsWire
  NoSessionIsLost
PROPERTIES
  LoopEndsWithHandle
  ImplementsSessions
