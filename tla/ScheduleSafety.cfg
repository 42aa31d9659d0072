SPECIFICATION Spec
CONSTANTS
  s1 = s1
  k1 = k1
  NoTime = NoTime
  NoLimit = NoLimit
  Schedules <- MCOne
  Requests <- MCRequest
  RunLimits <- MCLimits
  Expirations <- MCNever
  Policies <- MCForbid
  MaxReservations = 2
  MaxDispatches = 2
  MaxObservations = 1
  HistoryLimit = 1
  Grace = 0
  Period = 1
  MaxTime = 1
  MaxTotal = 2
  Faults <- MCFaultsSafety
INVARIANTS
  DispatchedOnce
  ForbidNeverOverlaps
  OutstandingIsReserved
PROPERTIES
  ReservationsHonoured
