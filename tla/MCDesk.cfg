SPECIFICATION DeskSpec
CONSTANTS
  Strategies = {s1, s2}
  Rejected = {}
  MaxTheses = 2
  MaxIntents = 1
  MaxViews = 1
  MaxFailures = 1
  MaxSwitches = 1
  MaxSnapshotAge = 1
  WindowDays = 1
  MaxDay = 4
  MaxEvents = 2
  MaxHeld = 6
  Precision = 3
  Universes <- MCUniverses
  Theme = "grid"
  Function = "storage"
  Panels <- MCPanels
  Edges <- MCEdges
  Proposals <- MCProposals
  MaxProposals = 2
  ann = ann  bob = bob
  cco = cco  pm = pm  cfo = cfo  trader = trader
  Signors = {ann, bob}
  Roles = {cco, pm, cfo, trader}
  AuthorizedRoles = {cco, pm, cfo}
  Verified <- MCVerified
  Threshold = 3
  Portfolios <- MCPortfolios
  SleeveOrder <- MCOrder
  StagedSleeves = {"stock"}
  Weight <- MCWeight
  Direction <- MCDirection
  MaxLeverage <- MCMaxLeverage
  MaxGross = 420
  Evidence <- MCEvidence
  MaxPeriods = 3
  Scores <- MCScores
  Contexts <- MCContexts
  FloorLeverage = 6000
  Accounts <- MCAccounts
  Prices = {1, 7}
  Splits <- MCSplits
  Signals <- MCSignals
  Solutions <- MCSolutions
  Covariance <- MCCovariance
  VarianceBudget = 950
  MaxWeight = 10
  MaxMonths = 3
SYMMETRY Perms
INVARIANTS IntentsAreGrounded StagesAreEarned ShownIsCurrent
INVARIANTS FlowIsNotAdoption MenuStands
INVARIANTS HaltIsOnFile RejectionRunTrips BreachBlocksAudits
INVARIANTS HarvestStands GrossIsBounded CapitalIsEarned
PROPERTIES TwoRolesRelease ImplementsLatch RiskiestGoesFirst
CHECK_DEADLOCK FALSE
