SPECIFICATION Spec
CONSTANTS
  Route <- MCRoute
  OverflowRoute = "overflow"
  Client <- MCClient
  Event <- MCEvent
  MaxRoutes = 1
  MaxRateSubjects = 2
  MaxBatchCells = 7
  K = 1
  Rate = 1
  Burst = 0
  Scale = 2
  NoData = NoData
  Sources = 2
  MaxRejected = 1
  MaxLines = 2
  ClientKeyOf <- MCClientKeyOf
  Suspect <- MCSuspect
  AutomationMinRequests = 2
CHECK_DEADLOCK FALSE
INVARIANTS TablesExact AllOrNothing RateConforms OpenedIsComplete PublishedOpens
