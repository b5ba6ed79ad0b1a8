SPECIFICATION BoundarySpec
CONSTANTS
  Intents = {i1}
  Economics <- MCVariants
  Terms = {"reviewed"}
  ValidTerms = {"reviewed"}
  Prices = {200}
  TTL = 0
  MaxClock = 0
  NetworkFails = FALSE
  ExecutorFails = FALSE
  LateFills = FALSE
  MaxHandOffs = 2
INVARIANT TradesClaimedOnce
