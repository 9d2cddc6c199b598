SPECIFICATION Spec
CONSTANTS
  s1 = s1
  s2 = s2
  w1 = w1
  o1 = o1
  o2 = o2
  Checkouts <- OneCheckout
  Workers <- OneWorker
  Orders <- OneOrder
  OrderOf <- Alone
  MaxAttempts = 2
  MaxReplays = 2
  Timeouts = TRUE
  LockOutlivesCalls = TRUE
  MaxDays = 0
  MaxDeaths = 0
INVARIANTS
  NothingDropped
