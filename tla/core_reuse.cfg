SPECIFICATION Spec
CONSTANTS
  NPools = 1
  Config <- ReuseConfig
  Tags <- MCTags
  Counters = {}
  Sandboxes = {s1}
  NoSandbox = NoSandbox
  MaxResources = 2
  MaxTickets = 3
  MaxTerminators = 1
  Faults = {"cmd_release", "restart", "delete"}
  MaxFaults = 2
  Requests <- ReuseRequests
  MaintModes = {"all"}
INVARIANTS
  OpenTicketKeepsResource
  LinksAgree
  SandboxIsolation
PROPERTIES
  RemovalsStand
  FailedReleaseIsRemoved
