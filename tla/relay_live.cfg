SPECIFICATION FairSpec
CONSTANTS
  Protocols = {2, 3}
  Capable = {1}
  Capacity = 4
  PageSize = 2
  MaxPages = 2
  Stops = FALSE
  Misnamed = {"succeeded", "failed"}
  Losses = {"request", "late", "answer"}
  MaxItems = 2
  MaxEpoch = 1
  MaxRestarts = 1
  MaxLosses = 1
PROPERTIES
  DeliversInOrder
  ItemsArrive
  HostLearnsVerdict
CHECK_DEADLOCK FALSE
