SPECIFICATION Spec
CONSTANTS
  TimeoutTicks = 2
  MaxFaults = 3
  Matches <- AnyAnswer
  Platforms <- MacOnly
INVARIANTS
  ShownMeansProven
