SPECIFICATION Spec
CONSTANTS
  Intents = {i1}
  Economics <- MCEconomics
  Terms = {"reviewed", "altered", "invalid"}
  ValidTerms = {"reviewed", "altered"}
  Prices = {200, 201, 202}
  TTL = 1
  MaxClock = 2
INVARIANT ApprovalBindsToReviewed
