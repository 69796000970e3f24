CONSTANTS
  j1 = j1
  j2 = j2
  p1 = p1
  p2 = p2
  t1 = t1
  t2 = t2
  NoJob = NoJob
  NoParams = NoParams
  NoSuffix = NoSuffix
  JobIds = {j1, j2}
  Params = {p1}
  Diffs = {1}
  Suffix <- MCNoSuffix
  BadParams = {}
  BadJobs = {}
  Dialect = "LuckyPool"
  DefaultParams = p1
  InitialDifficulty = 1
  Autotune = TRUE
  Candidates = 1
  Threads = {t1, t2}
  JobCap = 1
  SubmitCap = 1
  MaxSent = 1
SPECIFICATION FairSpec
INVARIANT OneGeneration
INVARIANT SlotFollowsPool
PROPERTY ShutdownCompletes
PROPERTY EveryThreadSwaps
