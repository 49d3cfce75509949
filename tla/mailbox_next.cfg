SPECIFICATION Spec
CONSTANTS
  Slots = {s1, s2, s3}
  LocalChoices = {{}, {s1}, {s1, s2, s3}}
  Ops = {"await", "next", "cancel", "other"}
  YieldsCredit = TRUE
  None = None
INVARIANTS NextAtMostOnce NextLosesNothing AloneCorrect
CHECK_DEADLOCK FALSE
