SPECIFICATION Spec
CONSTANTS
  KcValues = {k1, k2}
  Params <- MCParams
  NoCfg = NoCfg
INVARIANT ResumedTransmits
