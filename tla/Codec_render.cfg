SPECIFICATION Spec
CONSTANTS
  Params <- MCParams
  Volumes = {5, 31}
  Setters = {t1}
  NoCfg = NoCfg
  Idle = Idle
INVARIANTS TypeOK DacPlaysAsAsked OutputFollowsTrigger VolumeCoherent
PROPERTY ImplementsStream
