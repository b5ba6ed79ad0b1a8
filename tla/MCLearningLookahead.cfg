SPECIFICATION LearningAllSpec
CONSTANTS
  Ids = {return_model, m2}
  MaxCards = 3
  Observations = {t1}
  TrainedId = return_model
  Datasets <- MCDatasets
  DataEnd = 6
  TrainingWindow = 2
  TestWindow = 2
  Step = 1
  CallersSplits <- MCCallersSplits
  Metrics <- MCMetrics
  Champions <- MCChampions
  MinSamples = 4
  Events <- MCEvents
  Trades <- MCTrades
  Setups <- MCSetups
  TopK = 2
  MinSimilarity = 500
  ReturnCards <- MCReturnCards
  DrawdownCards <- MCDrawdownCards
  Allocations = {50, 200, 450}
  MaxRecords = 3
INVARIANT NoLookahead
