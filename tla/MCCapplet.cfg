SPECIFICATION Spec
CONSTANTS
  x = x
  y = y
  Execs = {x, y}
  SystemDirs = 2
  ExternalDirs = {1, 2}
  TimelyMonitor = TRUE
  MaxChanges = 2
  MaxEvents = 3
INVARIANTS
  EditIsKept
  PositionsAreCurrent
CHECK_DEADLOCK FALSE
