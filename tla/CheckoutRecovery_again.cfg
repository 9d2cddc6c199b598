SPECIFICATION Spec
CONSTANTS
  s1 = s1
  s2 = s2
  w1 = w1
  o1 = o1
  o2 = o2
  Checkouts <- TwoCheckouts
  Workers <- OneWorker
  Orders <- OneOrder
  OrderOf <- Again
  MaxAttempts = 2
  MaxReplays = 2
  Timeouts = TRUE
  LockOutlivesCalls = TRUE
  MaxDays = 0
  MaxDeaths = 1
SYMMETRY Symmetry
INVARIANTS
  TypeOK
  NothingLost
  NoEntryMultiplied
  ExhaustedWasTried
  PaidOnce
