CONSTANTS
  o1 = o1
  timer = timer
  manual = manual
  op1 = op1
  api = api
  worker1 = worker1
  Events = {o1}
  CreatedAt <- MCCreatedAt
  Dispatchers = {timer, manual}
  Pollers = {timer}
  Admins = {op1}
  Processes = {api, worker1}
  Graceful = {worker1}
  Host <- MCHost
  MaxRetries = 2
  Limit = 1
  Max <- MCMax
  NoEvent = NoEvent
  NoRow = NoRow
  Points = {"EVENT:ORDER_CREATED", "SAGA:SHIPMENT_REQUEST"}
  MaxRules = 1
  MaxFail = 2
  MaxFaults = 1
  MaxCrashes = 1
  MaxReprocesses = 1
  MaxTotal = 2
SPECIFICATION FairSystemSpec
INVARIANTS
  SystemTypeOK
  OneDispatchPerOrder
  UndecidedIsQueued
PROPERTIES
  EndedIsNotRerun
  OrdersSettle
