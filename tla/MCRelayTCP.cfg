CONSTANTS
  ChunksSent <- MCTwoUp
  Sizes = {2}
  Edits = {1}
  MaxCapture = 1
  TimeoutOn = TRUE
  MayReset = {}
SPECIFICATION Spec
INVARIANTS
  RowsAreChronological
  CaptureIsCapped
  ReadIsRelayed
