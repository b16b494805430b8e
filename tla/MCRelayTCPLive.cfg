CONSTANTS
  ChunksSent <- MCOneEach
  Sizes = {1}
  Edits = {}
  MaxCapture = 1
  TimeoutOn = FALSE
  MayReset = {"client", "upstream"}
SPECIFICATION FairSpec
PROPERTIES
  ClosedSessionIsFinal
  OnePumpEndsBoth
