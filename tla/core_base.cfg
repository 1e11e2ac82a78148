SPECIFICATION Spec
CONSTANTS
  NPools = 1
  Config <- BaseConfig
  Tags <- MCTags
  Counters = {"port"}
  Sandboxes = {s1}
  NoSandbox = NoSandbox
  MaxResources = 3
  MaxTickets = 2
  MaxTerminators = 2
  Faults = {"cmd_new", "worker", "restart", "delete"}
  MaxFaults = 2
  Requests <- SharedRequests
  MaintModes = {"ids"}
INVARIANTS
  TypeOK
  OpenTicketKeepsResource
  LinksAgree
  WorkersOwnRows
  SlotsExclusive
  QuotasRespected
  ReuseLimit
PROPERTIES
  ImplementsAllocator
  LossIsReported
  TicketLifecycle
