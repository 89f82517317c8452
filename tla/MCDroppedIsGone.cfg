SPECIFICATION Spec
CONSTANTS
  x = x
  y = y
  Execs = {x, y}
  SystemDirs = 2
  ExternalDirs = {1, 2}
  TimelyMonitor = TRUE
  MaxChanges = 1
  MaxEvents = 3
PROPERTIES
  DroppedIsGone
CHECK_DEADLOCK FALSE
