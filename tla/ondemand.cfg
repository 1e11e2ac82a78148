SPECIFICATION FairSpec
CONSTANTS
  NPools = 2
  Config <- OnDemandConfig
  Tags <- MCTags
  Counters = {}
  Sandboxes = {}
  NoSandbox = NoSandbox
  MaxResources = 3
  MaxTickets = 2
  MaxTerminators = 1
  Faults = {"cmd_new"}
  MaxFaults = 1
  Requests <- OnDemandRequests
  MaintModes = {"ids"}
INVARIANTS
  OneStartPerTicket
PROPERTIES
  WaitingIsServed
  OnDemandNotIdle
