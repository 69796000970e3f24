CONSTANTS
  j1 = j1
  j2 = j2
  p1 = p1
  p2 = p2
  t1 = t1
  t2 = t2
  NoJob = NoJob
  NoParams = NoParams
  NoSuffix = NoSuffix
  JobIds = {j1, j2}
  Params = {p1, p2}
  Diffs = {1, 2}
  Suffix <- MCSuffix
  BadParams = {}
  BadJobs = {}
  Dialect = "HeroMiners"
  DefaultParams = p1
  InitialDifficulty = 1
  Autotune = TRUE
  Candidates = 1
  Threads = {t1}
  JobCap = 2
  SubmitCap = 1
  MaxSent = 0
SPECIFICATION Spec
INVARIANT SharesAreEncoded
