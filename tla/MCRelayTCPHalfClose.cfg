CONSTANTS
  ChunksSent <- MCOneEach
  Sizes = {1}
  Edits = {2}
  MaxCapture = 3
  TimeoutOn = TRUE
  MayReset = {"client", "upstream"}
SPECIFICATION Spec
INVARIANT FullStreamForwarded
