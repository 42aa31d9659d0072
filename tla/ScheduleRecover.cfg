SPECIFICATION FairSpec
CONSTANTS
  s1 = s1
  k1 = k1
  NoTime = NoTime
  NoLimit = NoLimit
  Schedules <- MCOne
  Requests <- MCRequest
  RunLimits <- MCUnlimited
  Expirations <- MCNever
  Policies <- MCEither
  MaxReservations = 2
  MaxDispatches = 1
  MaxObservations = 1
  HistoryLimit = 2
  Grace = 0
  Period = 1
  MaxTime = 1
  MaxTotal = 1
  Faults <- MCFaultsRecover
PROPERTIES
  RunsSettle
