SPECIFICATION Spec
CONSTANTS
  Slots = {s1, s2}
  LocalChoices = {{}}
  Ops = {"next"}
  YieldsCredit = FALSE
  None = None
INVARIANT NoLostWake
CHECK_DEADLOCK FALSE
