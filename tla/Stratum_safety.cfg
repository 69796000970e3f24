CONSTANTS
  j1 = j1
  j2 = j2
  NoJob = NoJob
  JobIds = {j1, j2}
  Events <- MCEvents
  Shares <- MCShares
  Dialect = "LuckyPool"
  Transport = "wss"
  DevfeeOn = TRUE
  MaxBackoff = 1
  JobCap = 1
  SubmitCap = 1
  MaxId = 3
  MaxWire = 2
SPECIFICATION Spec
INVARIANT TypeOK
INVARIANT ResponsesCorrelated
INVARIANT OneWalletPerConnection
INVARIANT ClientTracksPool
PROPERTY StaleOnlyUnderWay
PROPERTY ImplementsPoolSession
SYMMETRY Symmetry
\* With the relay the system really can stop: a peer that goes silent during
\* the upgrade leaves the task waiting (see SilentLossIsLeft).
CHECK_DEADLOCK FALSE
