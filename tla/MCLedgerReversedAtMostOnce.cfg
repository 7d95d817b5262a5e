SPECIFICATION Spec
CONSTANTS
  doc = doc
  Originals = {j1}
  Reversals = {r1, r2}
  Sessions = {s1, s2}
  None = None
  KeysOf <- KeysByDocument
  ReversalKey <- KeyByReversal
  Reversible = {j1}
  Locked = {}
  MaxBatches = 4
SYMMETRY Symmetry
CHECK_DEADLOCK FALSE
INVARIANT ReversedAtMostOnce
