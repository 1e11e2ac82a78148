SPECIFICATION Spec
CONSTANTS
  NPools = 1
  Config <- NoReuseConfig
  Tags <- MCTags
  Counters = {}
  Sandboxes = {s1}
  NoSandbox = NoSandbox
  MaxResources = 2
  MaxTickets = 3
  MaxTerminators = 1
  Faults = {}
  MaxFaults = 0
  Requests <- ReuseRequests
  MaintModes = {}
INVARIANT ReuseLimit
