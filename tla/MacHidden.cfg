SPECIFICATION Spec
CONSTANTS
  VK <- Keys6
  Code <- MCCode
  Cg <- MCCg
  NoCode = 0
  None = None
  Button = {"left", "right"}
  NoButton = "none"
  Desk <- Square
  Fraction <- Corners
  Unit = 4
  Delta <- Slanted
  Resync = 1
  DoubleClick = 1
  ClickDistance = 0
  MaxCount = 2
  Device <- Hiding
PROPERTIES
  HiddenLeavesOverItsEdge
