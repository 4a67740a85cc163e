SPECIFICATION Spec
CONSTANTS
  Approval = {a1}
  Session = {s1}
  Decider = {d1}
  None = None
INVARIANTS ApprovedCallRuns
CHECK_DEADLOCK FALSE
