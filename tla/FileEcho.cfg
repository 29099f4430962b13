SPECIFICATION Spec
CONSTANTS
  s1 = s1
  p1 = p1
  p2 = p2
  Platforms <- Both
  Server <- Servers
  Puller <- Pullers
  Name <- Names
  Torn = Torn
  Nothing = Nothing
  Splits <- MCSplits
INVARIANT ArmedAtRest
