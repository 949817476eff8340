CONSTANTS
  e1 = e1
  e2 = e2
  timer = timer
  manual = manual
  op1 = op1
  op2 = op2
  api = api
  worker1 = worker1
  Events = {e1}
  CreatedAt <- MCCreatedAt
  Dispatchers = {timer}
  Pollers = {timer}
  Admins = {op1}
  Processes = {api, worker1}
  Graceful = {worker1}
  Host <- MCHost
  MaxRetries = 2
  Limit = 1
  Max <- MCMax
  NoEvent = NoEvent
  NoRow = NoRow
  MaxFaults = 0
  MaxCrashes = 0
  MaxTimeouts = 0
  MaxDeploys = 0
  MaxReprocesses = 0
SPECIFICATION Spec
PROPERTY
  BackoffHonoured
