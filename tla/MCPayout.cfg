SPECIFICATION Spec
CONSTANTS
  Sessions = {s1, s2}
  MaxIntents = 2
  MaxPolls = 2
  Verdicts = {"success", "failed", "reversed"}
  Attended = TRUE
  GoesOn = FALSE
SYMMETRY Symmetry
CHECK_DEADLOCK FALSE
INVARIANTS
  TypeOK
  VerdictsAreTrue
  PaidOnce
  ClaimTells
PROPERTIES
  UnknownIsKept
