SPECIFICATION FairSpec
CONSTANTS
  Session = {s1}
  Stream = {t1, t2}
  Closer = {c1, c2}
  Mutex = {l1}
  None = None
INVARIANTS TypeOK ServedSessionIntact ClosedLeavesNothing RunningIsRecorded QueriesOverlapOnlyIfCut
PROPERTIES QueueDrains
CHECK_DEADLOCK FALSE
