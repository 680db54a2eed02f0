\* Elements only.  One merge, then nothing: the system stops.
SPECIFICATION Spec
CONSTANTS
  n1 = n1
  n2 = n2
  n3 = n3
  intent = intent
  log = log
  x = x
  y = y
  Bases = {}
  Lists = {}
  Child <- MCChild
  d1 = d1
  d2 = d2
  color = color
  text = text
  Property <- MCProperty
  Value = {0, 1, 2}
  Unset = 0
  Data <- MCObjects
  Ancestors <- MCAncestors
  Absent = Absent
  Orders <- MCOrders
  Heading <- MCHeading
  Text <- MCText
  Preface = preface
  Docs = {}
  NoFile = NoFile
  Slide <- MCSlide
  Snapshots = {}
  BaseSnapshots = {}
INVARIANTS HumanEditsWin
CHECK_DEADLOCK FALSE
