SPECIFICATION FairSpec
CONSTANTS
  MaxPropsKeys = 1
  Control = {"_consent", "_received_at", "_x"}
  Posts <- SomePosts
  Requests = {"r1"}
  Queries <- SomeQueries
  Windows <- SomeWindows
  NWindows = 2
INVARIANT RowsClean
INVARIANT WholeWindows
INVARIANT AnswersOrdered
INVARIANT RollupsCover
PROPERTY StatsAnswered
CHECK_DEADLOCK FALSE
