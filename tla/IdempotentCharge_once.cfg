SPECIFICATION FairSpec
CONSTANTS
  a1 = a1
  w = w
  o1 = o1
  o2 = o2
  Callers <- TwoCallers
  Orders <- TwoOrders
  LockOutlivesCalls = TRUE
  MaxDays = 1
  MaxDeaths = 1
INVARIANTS
  TypeOK
  OneCopyInFlight
  ChargedOncePerLedger
  SameReceipt
PROPERTIES
  ExactlyOncePromise
  NeverBlocked
