SPECIFICATION FairSpec
CONSTANTS
  NPools = 1
  Config <- LivecheckConfig
  Tags <- MCTags
  Counters = {}
  Sandboxes = {}
  NoSandbox = NoSandbox
  MaxResources = 3
  MaxTickets = 2
  MaxTerminators = 1
  Faults = {"livecheck"}
  MaxFaults = 2
  Requests <- BaseRequests
  MaintModes = {}
PROPERTIES
  LossIsReported
  WaitingIsServed
