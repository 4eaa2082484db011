SPECIFICATION Spec
CONSTANTS
  Addr = {a1, a2, a3}
  Null = Null
  Sizes = {1, 4}
  Frames = {1, 2}
  FrameworkClears = TRUE
  MaxRequests = 3
SYMMETRY AddrSymmetry
CHECK_DEADLOCK FALSE
INVARIANTS TypeOK BufferLedger DmaTouchesOwnBuffer ChannelsApart EngineAgrees PointerInBuffer
