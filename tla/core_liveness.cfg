SPECIFICATION FairSpec
CONSTANTS
  NPools = 1
  Config <- LateConfig
  Tags <- MCTags
  Counters = {}
  Sandboxes = {}
  NoSandbox = NoSandbox
  MaxResources = 3
  MaxTickets = 2
  MaxTerminators = 1
  Faults = {"cmd_new", "cmd_release", "restart", "delete"}
  MaxFaults = 1
  Requests <- BaseRequests
  MaintModes = {"ids"}
PROPERTIES
  WaitingIsServed
  ClosedTicketIsReleased
  RemovalCompletes
