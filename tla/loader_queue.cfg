SPECIFICATION FairSpec
CONSTANTS
  NCalls = 6
  MaxTimers = 8
INVARIANT AppliedInOrder
PROPERTY QueueDrains
