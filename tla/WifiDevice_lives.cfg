SPECIFICATION Spec
CONSTANTS
  MaxLives = 3
  MaxCalls = 2
  MaxCmds = 3
INVARIANTS TypeOK FrameFindsDevice EveryBlockHasOneOwner ResultsFindAsker
INVARIANTS ApOfOneCommand SettingsOnAir 
CHECK_DEADLOCK FALSE
