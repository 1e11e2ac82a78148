SPECIFICATION Spec
CONSTANTS
  NPools = 1
  Config <- BaseConfig
  Tags <- MCTags
  Counters = {"port"}
  Sandboxes = {s1}
  NoSandbox = NoSandbox
  MaxResources = 2
  MaxTickets = 3
  MaxTerminators = 1
  Faults = {"cmd_release", "restart", "delete"}
  MaxFaults = 2
  Requests <- BaseRequests
  MaintModes = {"unused"}
PROPERTY UnusedDeleteSparesTickets
