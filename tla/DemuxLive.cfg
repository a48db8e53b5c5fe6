CONSTANTS
  d1 = d1
  d2 = d2
  video = video
  audio = audio
  Decoders = {d1, d2}
  Opened <- Two
  Streams = {video, audio}
  StreamOf <- VideoAndAudio
  File <- Short
  Capacity = 1
  Faults = {"create", "read", "seek", "push"}
  MaxSeeks = 1
SPECIFICATION FairSpec
PROPERTIES ShutdownEnds SeekHandled
