SPECIFICATION FairSpec
CONSTANTS
  s1 = s1
  s2 = s2
  Order <- DeckOrder
  Note = {n1, n2}
  Imagery = {}
  Prior = {n2}
  Stuck = {}
  Conc = 2
  MaxPerHour = 1
  MaxSplits = 1
  MaxClears = 1
  MaxCrashes = 1
INVARIANTS TypeOK MarkerHasOwner NotesKept
PROPERTIES NoteIsHandled
