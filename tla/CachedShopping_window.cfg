SPECIFICATION Spec
CONSTANTS
  t1 = t1
  t2 = t2
  o1 = o1
  o2 = o2
  p1 = p1
  p2 = p2
  k1 = k1
  k2 = k2
  q1 = q1
  q2 = q2
  NoKey = NoKey
  Tokens <- TwoTokens
  Turns <- OneTurn
  CallsAgain = TRUE
  Operators <- OneOperator
  Products <- TwoProducts
  Questions <- TwoQuestions
  Near <- AllNear
  ProductOf <- SameProduct
  Places <- TwoPlaces
  MaxAge = 1
  Batch = 1
  MaxChanges = 1
  MaxCrashes = 0
SYMMETRY Symmetry
INVARIANTS
  NoWindow
