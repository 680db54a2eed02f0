SPECIFICATION Spec
CONSTANTS
  Device = {d1, d2}
  Line = {}
  MaxValue = 1
  Undo = FALSE
  Writer = {"human"}
  MaxEdits = 3
  MaxFaults = 0
  MaxUnsaved = 1
INVARIANTS SubmitsOwnEditsOnly
