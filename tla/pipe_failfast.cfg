SPECIFICATION FairSpec
CONSTANTS
  w1 = w1
  w2 = w2
  NItems = 4
  MaxElem = 4
  NStages = 2
  Workers <- TwoWorkers
  BatchSize = 1
  Depth = 0
  Timer = FALSE
  FailFast = TRUE
  RecordFails = FALSE
  Emit <- Pass
  Filters = {1}
  Poison <- LastFails
  SinkSheds = {}
  SinkPoison = {3}
  CtxSink = TRUE
  CallerCancels = TRUE
INVARIANT ErrorVerdict
PROPERTY ReturnIsFinal
PROPERTY RunEnds
CHECK_DEADLOCK FALSE
