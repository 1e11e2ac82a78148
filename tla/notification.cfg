SPECIFICATION NotificationFairSpec
CONSTANTS
  Tickets = {1, 2}
  Resources = {r1}
  Sandboxes = {s1}
  NoSandbox = NoSandbox
  None = None
  w1 = w1
  w2 = w2
  Threads <- TwoThreads
  WaitsFor <- OwnTicket
  Requests = {s1}
  OnDemand = {2}
  Closing = {1}
  MaxFaults = 1
INVARIANTS
  NotificationTypeOK
  SleepsOnlyWhenIdle
PROPERTIES
  NoOvertaking
  ServedPromptly
  WaiterReturns
