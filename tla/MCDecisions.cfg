SPECIFICATION OrdersOrActionsSpec
CONSTANTS
  Intents = {i1}
  Economics <- MCEconomics
  Terms = {"reviewed", "altered", "invalid"}
  ValidTerms = {"reviewed", "altered"}
  Prices = {200, 201, 202}
  TTL = 1
  MaxClock = 2
  Requests = {r1}
  People = {ann, bob, eve}
  Kinds = {"SOURCE", "RISK", "RESET"}
  Executable = {"SOURCE", "RISK"}
  Contents <- MCContents
  Floor <- MCFloor
  TierRules <- MCTierRules
  LogMayFail = TRUE
  MaxShown = 2
  MaxNow = 2
  Projects = {p1, p2}
  Seeded = p1
  Orders = {o1, o2}
  FirstOrder = o1
  Actions = {a1}
  MaxEntries = 2
INVARIANTS TypeOK AtMostOneOrder StateTellsOfOrder OrdersAuthorised ApprovalIsCurrent
PROPERTY NoOrderWhileHalted
INVARIANTS AtMostOneEffect EffectsAuthorised EffectsAreOnFile
INVARIANTS RefusedForARepreview SettlesAtOnce
