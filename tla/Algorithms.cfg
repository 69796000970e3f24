CONSTANTS
  Base = 3
  Width = 4
  Half = 8
  WordBits = 9
  Dword = 2
  Wide = 4
  Narrow = 2
  JACKPOT_SIZE = 2
  LROT_PER_TILE = 4
  Vector = 2
  Blake3 <- MCBlake3
  Chunk = 4
  LANES = 32
  JobSpecs <- MCJobSpecs
  Grids <- MCGrids
  Hashes = {0, 1, 2}
  CheckEvery = 4
  MaxSetups = 2
  MaxDifficulty = 30
  MaxFactor = 24
  MaxDim = 9
  MaxLeaves = 9
SPECIFICATION Spec
INVARIANT NbitsDecoded
INVARIANT BoundIsExact
INVARIANT FitDimIsLeast
INVARIANT ProofsVerify
INVARIANT ProofBuffersFit
INVARIANT KernelsAgree
INVARIANT NoiseAgrees
INVARIANT TilesPartition
INVARIANT AttemptVerifies
INVARIANT HitsVerify
INVARIANT WorkspaceFits
INVARIANT PatternTracksKernel
INVARIANT SweepOnce
INVARIANT StopIsHonoured
INVARIANT HitIsOfItsJob
