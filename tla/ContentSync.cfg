\* A server that died with uncommitted saves refuses to start: the system stops.
SPECIFICATION FairSpec
CONSTANTS
  s1 = s1
  s2 = s2
  x1 = x1
  x2 = x2
  Save <- MCSave
  Elsewhere <- MCElsewhere
  Conflicts <- Clashing
  MaxFaults = 1
  MaxRestarts = 1
INVARIANTS TypeOK SyncedMeansPushed
PROPERTIES RemoteOnlyGrows SavesArePushed StuckIsShown
CHECK_DEADLOCK FALSE
