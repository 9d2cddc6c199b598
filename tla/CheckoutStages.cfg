SPECIFICATION Spec
CONSTANTS
  c1 = c1
  c2 = c2
  shirt = shirt
  Customers <- TwoCustomers
  ItemOf <- SameShirt
  Threshold = 3
  MaxFaults = 3
CHECK_DEADLOCK FALSE
INVARIANTS
  TypeOK
  FailedUncharged
  ChargedOnce
  EveryonePays
  RidesOutFlakyWarehouse
PROPERTIES
  EveryOrderEnds
