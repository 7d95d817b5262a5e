SPECIFICATION Spec
CONSTANTS
  N = 3
  ReadOnly = {1}
  SelfCommitting = {2}
  Runners = {p1, p2}
  MaxCrashes = 2
SYMMETRY Symmetry
CHECK_DEADLOCK FALSE
INVARIANTS
  TypeOK
  CompletedMeansDone
  EffectsAreOnRecord
  OnlyCrashesRepeat
  WhatIsLeftIsMarked
PROPERTIES
  UndoneInOrder
  SettledStaysSettled
