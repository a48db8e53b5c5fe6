CONSTANTS
  Decoders = {d1, d2}
  Null = Null
  AnyOrder = TRUE
  MayFail = FALSE
SYMMETRY Alike
SPECIFICATION ListSpec
INVARIANTS EmptyWhenDestroyed
