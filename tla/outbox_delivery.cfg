CONSTANTS
  e1 = e1
  e2 = e2
  timer = timer
  manual = manual
  op1 = op1
  op2 = op2
  api = api
  worker1 = worker1
  Events = {e1, e2}
  CreatedAt <- MCCreatedAt
  Dispatchers = {timer, manual}
  Pollers = {timer, manual}
  Admins = {op1}
  Processes = {api, worker1}
  Graceful = {worker1}
  Host <- MCHost
  MaxRetries = 2
  Limit = 1
  Max <- MCMax
  NoEvent = NoEvent
  NoRow = NoRow
  MaxFaults = 1
  MaxCrashes = 0
  MaxTimeouts = 1
  MaxDeploys = 1
  MaxReprocesses = 0
SPECIFICATION FairSpec
INVARIANTS
  NoSilentOrphan
  ActiveCountsDispatches
PROPERTIES
  EventsSettleOrOrphaned
  DrainEnds
