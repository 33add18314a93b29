SPECIFICATION FairSpec
CONSTANTS
  h1 = h1
  h2 = h2
  h3 = h3
  e1 = e1
  e2 = e2
  e3 = e3
  e4 = e4
  Events = {e1, e2, e3, e4}
  Handlers = {h1, h2, h3}
  Request <- SomeBodies
  Admitted = {e1, e2, e3}
  Key <- KeyOf
  QueueDepth = 1
  WindowMax = 2
  StopBy = {"signal", "close"}
  MayTimeOut = TRUE
  ServerFails = TRUE
  WriteFails = TRUE
INVARIANT NothingLost
INVARIANT WrittenOnce
INVARIANT CountersAddUp
INVARIANT NoSubmitAfterClose
INVARIANT DrainedByClose
PROPERTY AcceptedIsStored
PROPERTY ShutdownEnds
