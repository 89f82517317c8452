SPECIFICATION Spec
CONSTANTS
  ServiceAble = {"reboot"}
  CdmAble = {"reboot", "shutdown"}
  MaxRequests = 3
  MaxFaults = 3
INVARIANTS
  EndsAsAsked
  LinkFollowsService
PROPERTIES
  ClientsAreAsked
CHECK_DEADLOCK FALSE
