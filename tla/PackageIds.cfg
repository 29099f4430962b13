SPECIFICATION Spec
CONSTANTS
  Modulus = 8
  Base = 2
  RetryDelay = 2
  RestartDelay = 1
  Slots = 2
  Chunk = 2
  Payloads <- Lengths
  MaxClock = 9
  MaxUsed = 5
INVARIANTS
  TypeOK
  DroppedOnlyIfOutrun
