\* Two runs of one source over one key in two versions, crashes and edits.
SPECIFICATION Spec
CONSTANTS
  k1 = k1
  k2 = k2
  matches = matches
  team_stats = team_stats
  events = events
  p1 = p1
  p2 = p2
  odd = odd
  bad = bad
  Runs = {r1, r2}
  Keys = {k1}
  Entities = {"matches"}
  EntityOf <- MCEntityOf1
  Collections = {matches}
  Targets <- MCTargets1
  Payloads = {p1, p2}
  Odd = {}
  Unparseable = {}
  Missing = Missing
  BatchSize = 2
  MaxFeed = 2
INVARIANTS TypeOK UnifiedFromIngested OnlyTheBatchIsLost BoundedMemory
PROPERTY SoloRunRepairs
CHECK_DEADLOCK FALSE
