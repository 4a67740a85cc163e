SPECIFICATION Spec
CONSTANTS
  Session = {s1}
  Stream = {t1, t2}
  Closer = {c1}
  Mutex = {l1}
  None = None
INVARIANTS SessionOwnsSandbox
CHECK_DEADLOCK FALSE
