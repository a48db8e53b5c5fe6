CONSTANTS
  Threads = {t1, t2}
  Logs = {l1, l2, l3}
  Levels = {0, 1}
  Null = Null
  NoThread = NoThread
SPECIFICATION FairSpec
INVARIANTS TypeOK WalkIntact PredecessorsRight Delivered NoUseAfterRemove
PROPERTIES CallsEnd
