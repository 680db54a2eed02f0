SPECIFICATION Spec
CONSTANTS
  studio = studio
  html = html
  md = md
  Path <- MCPath
  Data = {d1, d2}
  Absent = Absent
  Valid <- MCValid
  MaxFaults = 1
INVARIANT AbandonedJournalIsWhole
