CONSTANTS
  k1 = k1
  k2 = k2
  NoKey = NoKey
  Keys = {k1, k2}
  MaxCalls = 2
SPECIFICATION Spec
INVARIANT SameOutput
