CONSTANTS
  d1 = d1
  d2 = d2
  video = video
  audio = audio
  Decoders = {d1, d2}
  Opened <- Two
  Streams = {video, audio}
  StreamOf <- VideoAndAudio
  File <- Mixed
  Capacity = 1
  Faults = {}
  MaxSeeks = 0
SPECIFICATION Spec
INVARIANTS BlankMeansEof
