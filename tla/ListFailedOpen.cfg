CONSTANTS
  Decoders = {d1, d2}
  Null = Null
  AnyOrder = FALSE
  MayFail = TRUE
SYMMETRY Alike
SPECIFICATION ListSpec
INVARIANTS FreedFirst
