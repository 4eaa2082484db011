SPECIFICATION Spec
CONSTANTS
  KcValues = {k1, k2}
  Params <- MCParams
  NoCfg = NoCfg
INVARIANTS TypeOK RunningIsLive HaltedIsSilent EndsAgree
PROPERTIES ControlsSurvive ImplementsStream
