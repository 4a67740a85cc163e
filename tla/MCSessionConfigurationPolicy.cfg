SPECIFICATION Spec
CONSTANTS
  a = a
  b = b
  None = None
  Name <- Names
  Source <- Trees
  Request <- Requests
INVARIANTS AskedPolicyApplies
CHECK_DEADLOCK FALSE
