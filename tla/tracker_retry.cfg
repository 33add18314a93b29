SPECIFICATION FairSpec
CONSTANTS
  p1 = p1
  p2 = p2
  e1 = e1
  e2 = e2
  e3 = e3
  e4 = e4
  Pages <- OnePage
  Events <- Three
  BatchSize = 2
  QueueCap = 2
  Refused = {e3}
  MaxFails = 2
  Consents = {TRUE, FALSE}
  MayHide = TRUE
  MayCrash = TRUE
  QuotaFails = TRUE
INVARIANT NothingLost
INVARIANT NothingSentTwice
INVARIANT TimerMatchesBuffer
PROPERTY SpeaksWithConsent
PROPERTY Delivered
CHECK_DEADLOCK FALSE
