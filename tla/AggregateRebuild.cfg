\* Two rebuilds, of one match or of both, while three of their documents change.
SPECIFICATION Spec
CONSTANTS
  r1 = r1
  r2 = r2
  m1 = m1
  m2 = m2
  p1 = p1
  Requests = {r1, r2}
  Matches = {m1, m2}
  Players = {p1}
  RefersTo <- MCRefersTo
  MaxVersion = 1
  MaxChanges = 3
  All = All
  None = None
INVARIANTS TypeOK RebuildIsFresh
CHECK_DEADLOCK FALSE
SYMMETRY MCSymmetry
