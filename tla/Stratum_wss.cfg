CONSTANTS
  j1 = j1
  j2 = j2
  NoJob = NoJob
  JobIds = {j1}
  Events <- MCOneEvent
  Shares <- MCOneShare
  Dialect = "LuckyPool"
  Transport = "wss"
  DevfeeOn = TRUE
  MaxBackoff = 2
  JobCap = 1
  SubmitCap = 1
  MaxId = 3
  MaxWire = 1
SPECIFICATION FairSpec
PROPERTY SilentLossIsLeft
CHECK_DEADLOCK FALSE
