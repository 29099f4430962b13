SPECIFICATION Spec
CONSTANTS
  a = a
  b = b
  Platforms <- Both
  Value <- AllValues
  LocalContents <- EveryKind
  WindowsItems <- FromWindows
  MaxCopies = 3
  MaxOnWindows = 2
  MaxFaults = 1
INVARIANTS
  TypeOK
  EchoGuardArmed
  LocalOrder
  FreshCopyComesLast
PROPERTIES
  FreshCopyTold
