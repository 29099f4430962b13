SPECIFICATION Spec
CONSTANTS
  Cap = 8
  Window = 2
  NaturalKeys = {"lwin", "l"}
  Combos <- MCCombos
  MaxNatural = 3
  MaxBursts = 1
  MaxTime = 4
INVARIANTS
  TypeOK
  MissedOnlyWhenFull
  FiredWithinWindow
  BurstLocksOnce
CHECK_DEADLOCK FALSE
