SPECIFICATION Spec
CONSTANTS
  w1 = w1
  w2 = w2
  NItems = 5
  MaxElem = 6
  NStages = 2
  Workers <- TwoWorkers
  BatchSize = 2
  Depth = 1
  Timer = TRUE
  FailFast = FALSE
  RecordFails = FALSE
  Emit <- FilterGenerate
  Filters = {1}
  Poison <- FirstFails
  SinkSheds = {}
  SinkPoison = {}
  CtxSink = FALSE
  CallerCancels = FALSE
INVARIANT TypeOK
INVARIANT ClosedMeansWritersGone
INVARIANT NothingTwice
INVARIANT NothingLost
INVARIANT MetricsAddUp
PROPERTY PromiseKept
CHECK_DEADLOCK TRUE
