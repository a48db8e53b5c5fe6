CONSTANTS
  d1 = d1
  d2 = d2
  video = video
  audio = audio
  Decoders = {d1, d2}
  Opened <- Two
  Streams = {video, audio}
  StreamOf <- VideoOnly
  File <- Mixed
  Capacity = 1
  Faults = {}
  MaxSeeks = 2
SPECIFICATION Spec
INVARIANTS TypeOK Fresh Ordered
PROPERTIES NoDrop SeekLands
