SPECIFICATION Spec
CONSTANTS
  Freqs = {f1, f2}
  Unspecified = Unspecified
  AnyChannel = AnyChannel
  Wild = Wild
  Idle = Idle
  MaxConnects = 3
SYMMETRY Symmetry
INVARIANT UnspecifiedSearchesAll
