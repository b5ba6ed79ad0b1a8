SPECIFICATION FairBoundary
CONSTANTS
  Intents = {i1, i2}
  Economics <- MCEconomics
  Terms = {"reviewed"}
  ValidTerms = {"reviewed"}
  Prices = {200}
  TTL = 0
  MaxClock = 1
  NetworkFails = FALSE
  ExecutorFails = FALSE
  LateFills = FALSE
  MaxHandOffs = 0
PROPERTIES ApprovedIsPickedUp FillReachesEdge
