SPECIFICATION Spec
CONSTANTS
  h1 = h1
  h2 = h2
  h3 = h3
  e1 = e1
  e2 = e2
  e3 = e3
  e4 = e4
  Events = {e1, e2, e3, e4}
  Handlers = {h1, h2}
  Request <- TwoBodies
  Admitted = {e1, e2, e3}
  Key <- KeyOf
  QueueDepth = 2
  WindowMax = 2
  StopBy = {"signal"}
  MayTimeOut = FALSE
  ServerFails = FALSE
  WriteFails = FALSE
INVARIANT AllAcceptedFlushed
