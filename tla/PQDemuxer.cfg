CONSTANTS
  t1 = t1
  t2 = t2
  t3 = t3
  Threads = {t1, t2, t3}
  Packets = {p1, p2, p3}
  NoThread = NoThread
  NoPacket = NoPacket
  Capacity = 1
  AutoGrowLimit = 2
  Calls <- DemuxerCalls
SPECIFICATION Spec
INVARIANTS TypeOK MutexHeld OneOwner NoLostPop
PROPERTIES GrowsOnlyByForce ImplementsFifo
