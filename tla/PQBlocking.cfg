CONSTANTS
  t1 = t1
  t2 = t2
  t3 = t3
  Threads = {t1, t2, t3}
  Packets = {p1, p2}
  NoThread = NoThread
  NoPacket = NoPacket
  Capacity = 1
  AutoGrowLimit = 1
  Calls <- BlockingCalls
SPECIFICATION FairSpec
INVARIANTS NoLostPush
PROPERTIES SleepersWake TimedReturns
