SPECIFICATION AppSpec
CONSTANTS
  a1 = a1
  a2 = a2
  a3 = a3
  a4 = a4
  g1 = g1
  g2 = g2
  g3 = g3
  s1 = s1
  s2 = s2
  s3 = s3
  s4 = s4
  alice = alice
  bob = bob
  carol = carol
  p1 = p1
  p2 = p2
  peanuts = peanuts
  oats = oats
  o1 = o1
  o2 = o2
  t1 = t1
  t2 = t2
  Args <- FourArgs
  SigOf <- ThreeSigs
  Slots <- TwoSlots
  MaxCalls = 3
  MaxEmpty = 2
  Window = 3
  MaxHandoffs = 3
  MaxRounds = 4
  MaxRequests = 3
  Requests <- AskedRequests
  ZipIn <- Asked
  Initial <- Initials
  Sessions <- FourSessions
  CustomerOf <- TheirCustomers
  UserOf <- TheirUsers
  NoUser = ""
  TopK = 2
  Products <- TwoProducts
  Ingredients <- TwoIngredients
  Concerns <- TheirConcerns
  Bought <- TwoBought
  Catalogs <- TwoCatalogs
  MaxEdits = 1
  Tools <- TwoTools
  Unknown = "made_up"
  MaxSteps = 6
CHECK_DEADLOCK FALSE
INVARIANTS
  TypesOK
  BrakesHold
  TransfersBounded
  LoopsAreSound
  CallsAnswered
  EstimatesAgree
  FactsStayPrivate
  GraphTellsTruth
