CONSTANTS
  Threads = {t1, t2, t3}
  Handles = {h1, h2, h3, h4}
  Nobody = Nobody
  SizeSpan = 4
  Letters = {"a", "b"}
  Sep = "/"
  Nul = "0"
  Callers = {c1, c2}
  Characters = {"x", "n"}
  NewLine = "n"
  FifoLimit = 3
  SizeMaximum = 7
  OffsetSpan = 4
  MallocAlign = 4
  BufferHeader = 6
  FrameHeader = 3
  Alignments = {1, 2, 8}
  MaxFrameSize = 70
  MaxPath = 2
  MaxPieces = 4
  MaxStreams = 3
  MaxBlock = 3
SPECIFICATION MCSpec
INVARIANT ZeroTrimsNothing
