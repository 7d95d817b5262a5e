SPECIFICATION Spec
CONSTANTS
  doc = doc
  Originals = {j1, j2}
  Reversals = {r1, r2}
  Sessions = {s1, s2}
  None = None
  KeysOf <- KeysByDocument
  ReversalKey <- KeyByOriginal
  Reversible = {j1, j2}
  Locked = {j1}
  MaxBatches = 6
SYMMETRY Symmetry
CHECK_DEADLOCK FALSE
INVARIANTS
  TypeOK
  CountsOncePerKey
  StatusTellsTheLedger
  RetiredKeysAreMirrored
  ReversedAtMostOnce
PROPERTY
  ImplementsDocuments
