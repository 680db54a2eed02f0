SPECIFICATION FairSpec
CONSTANTS
  Device = {d1, d2}
  Line = {l1}
  MaxValue = 2
  Undo = FALSE
  Writer = {"human"}
  MaxEdits = 3
  MaxFaults = 1
  MaxUnsaved = 0
INVARIANTS LocalShowsLastEdit SubmitsOwnEditsOnly
PROPERTIES Convergence
