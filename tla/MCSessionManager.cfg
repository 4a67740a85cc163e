SPECIFICATION Spec
CONSTANTS
  Session = {s1, s2}
  Stream = {t1, t2, t3}
  Closer = {c1, c2}
  Mutex = {l1, l2, l3}
  None = None
SYMMETRY Interchangeable
INVARIANTS TypeOK RInv Serialized StatusTracksStream
PROPERTIES ClosedIsFinal ServesInOrder
CHECK_DEADLOCK FALSE
