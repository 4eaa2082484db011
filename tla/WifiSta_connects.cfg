SPECIFICATION FairSpec
CONSTANTS
  Freqs = {f1}
  Unspecified = Unspecified
  AnyChannel = AnyChannel
  Wild = Wild
  Idle = Idle
  MaxConnects = 3
INVARIANTS TypeOK IeLedger OneConnect DriverBufferLive AssocIsComplete
PROPERTIES IeUsedOnce HandedIsFreed
