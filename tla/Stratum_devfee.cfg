CONSTANTS
  j1 = j1
  j2 = j2
  NoJob = NoJob
  JobIds = {j1, j2}
  Events <- MCEvents
  Shares <- MCShares
  Dialect = "LuckyPool"
  Transport = "tcp"
  DevfeeOn = TRUE
  MaxBackoff = 2
  JobCap = 1
  SubmitCap = 1
  MaxId = 3
  MaxWire = 2
SPECIFICATION Spec
PROPERTY EveryShareForTheUser
