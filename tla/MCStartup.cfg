SPECIFICATION FairSpec
CONSTANTS
  panel = panel  dock = dock  applet = applet
  Apps = {panel, dock, applet}
  PhaseOf <- MCPhaseOf
  DelayedApps = {applet}
  RestartedApps = {applet}
  ConditionApps = {applet}
  SettingApps = {}
  ActivatedApps = {dock}
  XsmpApps = {applet}
  MaxStarts = 2
  MaxChanges = 2
INVARIANTS
  HandlersArePending
  SignalsOwnChildren
  UniqueStartupIds
PROPERTIES
  PhaseWaitsForApps
  ClientsKeepConnections
  SilentConnectionsGo
CHECK_DEADLOCK FALSE
