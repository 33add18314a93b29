SPECIFICATION FairSpec
CONSTANTS
  Elems <- Numbers
  Batches <- FourBatches
  Workers = {"w1", "w2"}
  ThenElems <- Low
  Rejected = {48}
  Key <- LastDigit
  Unkeyed = {49}
  Poison = {99}
  Generated <- Twice
  Caps = {0, 2}
  Sinks = {"reduce", "block", "drop"}
  OutCap = 1
INVARIANT RemembersLikeLRU
INVARIANT ExactlyOne
INVARIANT IfAccounts
INVARIANT SinkAccounts
PROPERTY EveryBatchEnds
