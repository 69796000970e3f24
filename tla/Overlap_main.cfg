CONSTANTS
  k1 = k1
  k2 = k2
  NoKey = NoKey
  Keys = {k1, k2}
  MaxCalls = 5
SPECIFICATION FairSpec
INVARIANT TypeOK
INVARIANT SlotsExclusive
INVARIANT GrindsItsSetup
INVARIANT NoiseSettles
PROPERTY CallReturns
