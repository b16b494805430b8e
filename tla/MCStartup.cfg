CONSTANTS
  Servers = {"s"}
  Exporters = {"e1", "e2"}
  MaxStarts = 5
SPECIFICATION Spec
CHECK_DEADLOCK FALSE
INVARIANTS VersionTellsSchema UsedIsTheCert
PROPERTY ExportedIsKept
