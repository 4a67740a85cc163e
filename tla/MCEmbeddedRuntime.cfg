SPECIFICATION Spec
CONSTANTS
  Session = {s1}
  Stream = {t1, t2}
  Closer = {c1, c2}
  Mutex = {l1}
  Approval = {a1}
  Decider = {d1}
  None = None
SYMMETRY Interchangeable
INVARIANTS TypeOK OneLiveClient RegistriesAgree SkillsOutliveClient AnswersAreOwn
  SetupFailureIsTold PendingHasAgent ReadySessionServes
CHECK_DEADLOCK FALSE
