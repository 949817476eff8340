CONSTANTS
  o1 = o1
  o2 = o2
  run1 = run1
  operator1 = operator1
  Orders = {o1}
  Runs = {run1}
  Operators = {operator1}
  NoOrder = NoOrder
SPECIFICATION FairSpec
INVARIANTS
  TypeOK
  SettledOutcome
  FailedIsRefunded
  ReverseCompensation
  ShippedHasShipment
  StatusAnnounced
  PaymentMatchesStatus
  AuditTellsOutcome
PROPERTIES
  StatusMachine
  SagaSettles
