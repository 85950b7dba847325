\* Three runs of each source, over a site that changes once.
SPECIFICATION Spec
CONSTANTS
  index = index
  c1 = c1
  c2 = c2
  m1 = m1
  m2 = m2
  m3 = m3
  page1 = page1
  page2 = page2
  e1 = e1
  e2 = e2
  e3 = e3
  e4 = e4
  t1 = t1
  t2 = t2
  t3 = t3
  l1 = l1
  l2 = l2
  v1 = v1
  v2 = v2
  Pages <- MCPages
  Things <- MCThings
  MayList <- MCMayList
  Labels = {l1, l2}
  Contents = {v1, v2}
  Index = index
  Competitions = {c1, c2}
  Configs <- MCConfigs
  BatchSize = 2
  MaxRuns = 3
  MaxChanges = 1
INVARIANTS TypeOK MatchIsThere EventsJoin SettledCoversSite OneRecordPerThing
PROPERTY RerunIsQuiet
CHECK_DEADLOCK FALSE
