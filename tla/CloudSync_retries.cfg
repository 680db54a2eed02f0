SPECIFICATION Spec
CONSTANTS
  Device = {d1, d2}
  Line = {}
  MaxValue = 1
  Undo = TRUE
  Writer = {"human", "agent"}
  MaxEdits = 3
  MaxFaults = 1
  MaxUnsaved = 1
INVARIANTS TypeOK
PROPERTIES ReplacedContentIsCheckpointed BaseNeverGoesBack
