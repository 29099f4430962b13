SPECIFICATION Spec
CONSTANTS
  VK <- Keys6
  Code <- MCCode
  Cg <- MCCg
  NoCode = 0
  None = None
  Button = {"left", "right"}
  NoButton = "none"
  Desk <- Pixels
  Fraction <- Fractions
  Unit = 3
  Delta <- Deltas
  Resync = 1
  DoubleClick = 1
  ClickDistance = 0
  MaxCount = 2
  Device <- All
INVARIANTS
  TypeOK
  HeldIsOwed
  EntryHasItsKey
  DownIsHeld
  StartsAtCursor
PROPERTIES
  DragGoesOn
