SPECIFICATION Spec
CONSTANTS
  Params <- MCParams
  Volumes = {31}
  Setters = {}
  NoCfg = NoCfg
  Idle = Idle
INVARIANT RateIsSet
