SPECIFICATION Spec
CONSTANTS
  Session = {s1}
  Stream = {t1}
  Closer = {c1}
  Mutex = {l1}
  Approval = {a1}
  Decider = {d1}
  None = None
SYMMETRY Interchangeable
INVARIANTS ClosedSessionHoldsNothing
CHECK_DEADLOCK FALSE
