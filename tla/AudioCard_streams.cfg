SPECIFICATION Spec
CONSTANTS
  Params <- MCParams
  KcValues = {k1}
  Volumes = {31}
  Setters = {}
  NoCfg = NoCfg
  Idle = Idle
INVARIANTS RatesHold OpenAgrees
