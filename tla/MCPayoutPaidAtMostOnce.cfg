SPECIFICATION Spec
CONSTANTS
  Sessions = {s1, s2}
  MaxIntents = 2
  MaxPolls = 2
  Verdicts = {"success", "failed", "reversed"}
  Attended = FALSE
  GoesOn = TRUE
CHECK_DEADLOCK FALSE
INVARIANT PaidAtMostOnce
