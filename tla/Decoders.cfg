CONSTANTS
  MaxSize = 7
  PageSize = 2
  IntMax = 3
  SizeMax = 8
  HeaderSize = 3
  MinHeader = 2
  Stamps <- MCStamps
  Decoders = {d1, d2, d3, d4}
  Null = Null
  AnyOrder = TRUE
  MayFail = TRUE
SPECIFICATION MCSpec
INVARIANTS TypeOK BytesInOrder NothingKept Timeline ListIsOpenDecoders RefsAreHolders NothingLeaks QueuesReady
PROPERTIES OpenEnds
