SPECIFICATION Spec
CONSTANTS
  VK <- Keys7
  Code <- MCCode
  NoCode = 0
INVARIANTS
  TypeOK
  RepeatsHidNoPress
  HeldExplained
  NoPhantomModifier
  SinkMaskCurrent
