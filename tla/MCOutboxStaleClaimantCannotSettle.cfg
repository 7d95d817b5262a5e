SPECIFICATION Spec
CONSTANTS
  e1 = e1
  e2 = e2
  Events = {e1, e2}
  Workers = {w1, w2}
  Operators = {o1}
  Tokens = {t1, t2, t3, t4}
  None = None
  Kind <- KindMixed
  MaxRetryCount = 2
  ClaimMaxRetry = 2
  BatchSize = 2
  MaxFaults = 2
  MaxRequeues = 1
SYMMETRY Symmetry
CHECK_DEADLOCK FALSE
PROPERTY StaleClaimantCannotSettle
