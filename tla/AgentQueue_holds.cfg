SPECIFICATION Spec
CONSTANTS
  s1 = s1
  s2 = s2
  Order <- DeckOrder
  Note = {n1, n2}
  Imagery = {n1}
  Prior = {}
  Stuck = {}
  Conc = 1
  MaxPerHour = 2
  MaxSplits = 0
  MaxClears = 1
  MaxCrashes = 0
PROPERTIES HoldsWait
