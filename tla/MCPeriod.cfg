SPECIFICATION Spec
CONSTANTS
  Periods = {1, 2}
  Days <- MCDays
  Kinds <- MCKinds
  Journals = {j1}
  Date <- MCDate
  Sessions = {s1, s2}
  None = None
  MaxReopens = 1
SYMMETRY Symmetry
CHECK_DEADLOCK FALSE
INVARIANTS
  TypeOK
  StampsTellTheHistory
  LinesBelong
PROPERTIES
  HardCloseSettles
