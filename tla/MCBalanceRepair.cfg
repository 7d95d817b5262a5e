SPECIFICATION FairSpec
CONSTANTS
  p1 = p1
  p2 = p2
  p3 = p3
  Keys = {1}
  Postings = {p1, p2}
  Lines <- LinesShared
  Relays = {r1}
  QueueWorkers = {w1}
  Reconciler = reconciler
  Rebuilder = rebuilder
  None = None
  Reconciling = TRUE
  MaxRebuilds = 1
  MaxFailures = 0
CHECK_DEADLOCK FALSE
PROPERTIES
  EventuallyCurrent
