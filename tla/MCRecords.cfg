SPECIFICATION RecordsSpec
CONSTANTS
  Intents = {i1}
  Economics <- MCEconomics
  Terms = {"reviewed"}
  ValidTerms = {"reviewed"}
  Prices = {200}
  TTL = 0
  MaxClock = 1
  NetworkFails = TRUE
  ExecutorFails = TRUE
  LateFills = TRUE
  MaxHandOffs = 2
  p1 = p1
  demote = demote
  invalidate = invalidate
  Processes = {p}
  Projects = {p1}
  Theses = {seeded, opened}
  SeedThesis = seeded
  SeedCondition = floor
  Home <- MCHome
  Conditions = {floor, demote, invalidate}
  OnBreach <- MCOnBreach
  UIEvents = {e1}
  Ids = {return_model, m2}
  MaxCards = 3
  Observations = {t1}
  TrainedId = return_model
  Datasets <- MCDatasets
  DataEnd = 6
  TrainingWindow = 2
  TestWindow = 2
  Step = 1
  CallersSplits <- MCCallersSplits
  Metrics <- MCMetrics
  Champions <- MCChampions
  MinSamples = 4
  Events <- MCEvents
  Trades <- MCTrades
  Setups <- MCSetups
  TopK = 2
  MinSimilarity = 500
  ReturnCards <- MCReturnCards
  DrawdownCards <- MCDrawdownCards
  Allocations = {50, 200, 450}
  MaxRecords = 3
INVARIANT FilledIsReal
PROPERTY ImplementsDispatch
INVARIANTS RecordedOnce BreachesDemote
INVARIANTS OneChampion ChampionsAreDecided RefusedForGood OutOfSample Grounded
PROPERTY ChampionOutlivesDeath
