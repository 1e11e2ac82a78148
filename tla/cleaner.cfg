SPECIFICATION CleanerFairSpec
CONSTANTS
  Resources = {r1, r2}
  Strangers = {x1}
  CatchLines = 3
  MaxTerminators = 2
  MaxFaults = 3
INVARIANTS
  CleanerTypeOK
  UpHasInstance
  OnlyEndedAreUnknown
PROPERTIES
  LeftoversAreRemoved
