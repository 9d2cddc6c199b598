SPECIFICATION FairSpec
CONSTANTS
  s1 = s1
  s2 = s2
  w1 = w1
  o1 = o1
  o2 = o2
  Checkouts <- TwoCheckouts
  Workers <- OneWorker
  Orders <- TwoOrders
  OrderOf <- Apart
  MaxAttempts = 2
  MaxReplays = 2
  Timeouts = FALSE
  LockOutlivesCalls = TRUE
  MaxDays = 1
  MaxDeaths = 0
INVARIANTS
  NothingDropped
PROPERTIES
  ParkedUncharged
  ParkedIsResolved
