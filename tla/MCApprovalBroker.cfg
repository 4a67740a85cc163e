SPECIFICATION FairSpec
CONSTANTS
  Approval = {a1, a2}
  Session = {s1, s2}
  Decider = {d1, d2}
  None = None
INVARIANTS TypeOK IInv AllowedOnlyIfApproved DenialOnRecord
PROPERTIES SettledOnceByOwner ImplementsLedger EveryCallAnswered
CHECK_DEADLOCK FALSE
