CONSTANTS
  j1 = j1
  j2 = j2
  k1 = k1
  k2 = k2
  k3 = k3
  d1 = d1
  d2 = d2
  s1 = s1
  s2 = s2
  s3 = s3
  NoKey = NoKey
  NoSeed = NoSeed
  NoDims = NoDims
  JobIds = {j1, j2}
  Keys = {k1, k2, k3}
  Jobs <- MCJobs
  Dims <- MCDims
  Seeds = {s1, s2, s3}
  MaxBound = 2
  Fixb = TRUE
  Overlap = TRUE
SPECIFICATION Spec
CHECK_DEADLOCK FALSE
INVARIANT VardiffApplies
