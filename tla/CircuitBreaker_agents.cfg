SPECIFICATION Spec
CONSTANTS
  a1 = a1
  a2 = a2
  w = w
  Callers <- AllThree
  Expecting <- AllThree
  MaxDeaths = 0
  Threshold = 3
  Declining = TRUE
  Overlap = TRUE
  Prompt = TRUE
SYMMETRY Symmetry
INVARIANTS
  TypeOK
  CounterExpires
PROPERTIES
  OpensOnFaults
