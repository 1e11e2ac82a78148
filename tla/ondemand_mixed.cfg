SPECIFICATION Spec
CONSTANTS
  NPools = 2
  Config <- OnDemandConfig
  Tags <- MCTags
  Counters = {}
  Sandboxes = {}
  NoSandbox = NoSandbox
  MaxResources = 3
  MaxTickets = 2
  MaxTerminators = 1
  Faults = {}
  MaxFaults = 0
  Requests <- MixedRequests
  MaintModes = {"ids"}
INVARIANT OneStartPerTicket
