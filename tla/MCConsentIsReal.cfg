SPECIFICATION XSMPSpec
CONSTANTS
  d1 = d1  x1 = x1  b1 = b1  i1 = i1
  DBusClients = {}
  XSMPClients = {x1}
  X = x1
  BusNames = {b1}
  Inhibitors = {}
  Apps = {}
  ClientBus <- OneBus
  InhibitorBus <- InhibitorsOnBus
  Flags <- LogoutFlags
  AppPhase <- NoApps
  AutoSave = TRUE
  MaxRegistrations = 1
  MaxLast = 0
  MaxCancels = 1
PROPERTY
  ConsentIsReal
CHECK_DEADLOCK FALSE
