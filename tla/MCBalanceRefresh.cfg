SPECIFICATION Spec
CONSTANTS
  p1 = p1
  p2 = p2
  p3 = p3
  Keys = {1, 2}
  Postings = {p1, p2, p3}
  Lines <- LinesShared
  Relays = {r1}
  QueueWorkers = {w1}
  Reconciler = reconciler
  Rebuilder = rebuilder
  None = None
  Reconciling = FALSE
  MaxRebuilds = 0
  MaxFailures = 1
SYMMETRY Symmetry
CHECK_DEADLOCK FALSE
INVARIANTS
  TypeOK
  PublishedIsProjected
  OneRowPerKey
PROPERTIES
  ProjectionNeverRegresses
