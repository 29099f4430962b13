SPECIFICATION Spec
CONSTANTS
  TimeoutTicks = 2
  MaxFaults = 3
  Matches <- AnyAnswer
  Platforms <- Both
INVARIANTS
  TypeOK
  PublishedIsCurrent
  ConnectedMeansProven
  StaleOnlyIfMissed
PROPERTIES
  StatusPromise
  KeepsReconnecting
