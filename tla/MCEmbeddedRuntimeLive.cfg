SPECIFICATION FairSpec
CONSTANTS
  Session = {s1}
  Stream = {t1, t2}
  Closer = {c1}
  Mutex = {l1}
  Approval = {a1}
  Decider = {d1}
  None = None
PROPERTIES QueueDrains
CHECK_DEADLOCK FALSE
