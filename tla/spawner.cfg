SPECIFICATION SpawnerFairSpec
CONSTANTS
  Tickets = {1, 2, 3}
  Groups = {g1}
  MaxIdeal = 2
  MaxFaults = 2
  None = None
INVARIANTS
  SpawnerTypeOK
  TicketsAreTracked
  HookOwnsRecord
  RecordsComplete
  GroupsBounded
PROPERTIES
  AgentLifecycle
  AgentsMoveOn
