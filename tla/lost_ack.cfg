SPECIFICATION FairSpec
CONSTANTS
  Protocols = {3}
  Capable = {1}
  Capacity = 1
  PageSize = 1
  MaxPages = 2
  Stops = FALSE
  Misnamed = {}
  Losses = {"answer"}
  MaxItems = 1
  MaxEpoch = 1
  MaxRestarts = 0
  MaxLosses = 1
PROPERTY LostAckIsRetried
CHECK_DEADLOCK FALSE
