SPECIFICATION FairSpec
CONSTANTS
  a1 = a1
  a2 = a2
  w = w
  Callers <- TwoAgents
  Expecting <- TwoAgents
  MaxDeaths = 2
  Threshold = 2
  Declining = TRUE
  Overlap = TRUE
  Prompt = FALSE
PROPERTIES
  NeverWedged
  ClosesWhenHealthy
