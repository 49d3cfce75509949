SPECIFICATION FairSpec
CONSTANTS
  Slots = {s1, s2, s3}
  LocalChoices = {{}, {s1}, {s1, s2}, {s1, s2, s3}}
  Ops = {"await", "other"}
  YieldsCredit = TRUE
  None = None
INVARIANTS TypeOK NoLostWake
PROPERTY AwaitReturns
CHECK_DEADLOCK FALSE
