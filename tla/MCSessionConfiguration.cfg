SPECIFICATION Spec
CONSTANTS
  a = a
  b = b
  None = None
  Name <- Names
  Source <- Trees
  Request <- Requests
INVARIANTS TypeOK AcceptedIsUsable ManagedConfined SkillsReachAgent
  SkillsExactly FailureLeavesNothing RefusedForCause
CHECK_DEADLOCK FALSE
