SPECIFICATION Spec
CONSTANTS
  Protocols = {2, 3}
  Capable = {1}
  Capacity = 2
  PageSize = 1
  MaxPages = 2
  Stops = TRUE
  Misnamed = {}
  Losses = {}
  MaxItems = 2
  MaxEpoch = 2
  MaxRestarts = 1
  MaxLosses = 0
INVARIANTS
  TypeOK
  AckedItemsReachedHome
  RecordedIsAcked
  InboxFollowsLog
PROPERTY DeliversInOrder
CHECK_DEADLOCK FALSE
