SPECIFICATION Spec
CONSTANTS
  s1 = s1
  s2 = s2
  x1 = x1
  x2 = x2
  Save <- MCSave
  Elsewhere <- MCElsewhere
  Conflicts = {}
  MaxFaults = 0
  MaxRestarts = 1
PROPERTIES HostedCommitRetained
CHECK_DEADLOCK FALSE
