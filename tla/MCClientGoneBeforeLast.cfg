SPECIFICATION Spec
CONSTANTS
  d1 = d1  d2 = d2  x1 = x1  x2 = x2  b1 = b1  b2 = b2
  a1 = a1  a2 = a2  i1 = i1  i2 = i2
  DBusClients = {d1}
  XSMPClients = {x1}
  BusNames = {b1}
  Inhibitors = {}
  Apps = {}
  ClientBus <- AllOnFirstBus
  InhibitorBus <- InhibitorsOnFirstBus
  Flags <- LogoutFlags
  AppPhase <- TwoPhases
  AutoSave = FALSE
  MaxRegistrations = 1
  MaxLast = 1
INVARIANT
  EndSessionForClients
CHECK_DEADLOCK FALSE
