SPECIFICATION StallingSpec
CONSTANTS
  w1 = w1
  w2 = w2
  NItems = 5
  MaxElem = 5
  NStages = 2
  Workers <- OneWorker
  BatchSize = 2
  Depth = 1
  Timer = TRUE
  FailFast = FALSE
  RecordFails = TRUE
  Emit <- Pass
  Filters = {1}
  Poison <- FirstFails
  SinkSheds = {4}
  SinkPoison = {}
  CtxSink = TRUE
  CallerCancels = TRUE
PROPERTY InOrder
PROPERTY PartialBatchMoves
PROPERTY CancelEnds
