\* One run over two entities, one of which maps to two collections, with rows
\* that map, rows that are skipped and rows that raise.
SPECIFICATION FairSpec
CONSTANTS
  k1 = k1
  k2 = k2
  matches = matches
  team_stats = team_stats
  events = events
  p1 = p1
  p2 = p2
  odd = odd
  bad = bad
  Runs = {r1}
  Keys = {k1, k2}
  Entities = {"matches", "events"}
  EntityOf <- MCEntityOf
  Collections = {matches, team_stats, events}
  Targets <- MCTargets
  Payloads = {p1, odd, bad}
  Odd = {odd}
  Unparseable = {bad}
  Missing = Missing
  BatchSize = 2
  MaxFeed = 3
INVARIANTS RowTellsTheTruth
PROPERTIES KeepsContract VerdictComes
CHECK_DEADLOCK FALSE
