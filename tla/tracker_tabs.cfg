SPECIFICATION Spec
CONSTANTS
  p1 = p1
  p2 = p2
  e1 = e1
  e2 = e2
  e3 = e3
  e4 = e4
  Pages <- TwoPages
  Events <- Four
  BatchSize = 2
  QueueCap = 4
  Refused = {}
  MaxFails = 2
  Consents = {TRUE}
  MayHide = FALSE
  MayCrash = FALSE
  QuotaFails = FALSE
INVARIANT FailedSendsPersist
