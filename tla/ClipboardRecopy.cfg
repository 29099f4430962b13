SPECIFICATION Spec
CONSTANTS
  a = a
  b = b
  Platforms <- Both
  Value <- AllValues
  LocalContents <- TextImage
  WindowsItems <- NoItems
  MaxCopies = 3
  MaxOnWindows = 2
  MaxFaults = 0
PROPERTIES
  LastCopyTold
