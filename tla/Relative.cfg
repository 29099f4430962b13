SPECIFICATION Spec
CONSTANTS
  W = 2
  H = 2
  U = 6
  Margin = 1
  Inset = 1
  Pause = 2
  Throttle = 2
  LayoutKnown = TRUE
  Desks <- AllDesks
  EntryPoints <- MidEntries
  Deltas <- OnePixel
INVARIANTS
  TypeOK
  SwitchLeadsWhereEdgeDoes
  WindowsEdgeLeadsBack
PROPERTIES
  ExitIsPushAfterFirst
  PushingReturns
