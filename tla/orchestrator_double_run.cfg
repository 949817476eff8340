CONSTANTS
  o1 = o1
  timer = timer
  manual = manual
  op1 = op1
  api = api
  worker1 = worker1
  Events = {o1}
  CreatedAt <- MCCreatedAt
  Dispatchers = {manual}
  Pollers = {}
  Admins = {op1}
  Processes = {api}
  Graceful = {}
  Host <- MCHost
  MaxRetries = 2
  Limit = 1
  Max <- MCMax
  NoEvent = NoEvent
  NoRow = NoRow
  Points = {"SAGA:SHIPMENT_REQUEST"}
  MaxRules = 1
  MaxFail = 1
  MaxFaults = 0
  MaxCrashes = 0
  MaxReprocesses = 1
  MaxTotal = 2
SPECIFICATION SystemSpec
INVARIANT
  RedeliveryIsConsistent
