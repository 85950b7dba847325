\* One run of a definition that maps, drops and raises, while pipelines change.
SPECIFICATION FairSpec
CONSTANTS
  s1 = s1
  s2 = s2
  s3 = s3
  k1 = k1
  k2 = k2
  d1 = d1
  d2 = d2
  d3 = d3
  bad = bad
  drops = drops
  raises = raises
  i1 = i1
  i2 = i2
  Runs = {r1}
  Pipelines = {p1}
  Definitions = {d1, d2, d3, bad}
  Malformed = {bad}
  SourceIds = {s1, s2, s3}
  Keys = {k1, k2}
  LineageId <- MCLineageId
  Effect <- MCEffect
  Drops = drops
  Raises = raises
  MaxAttempts = 2
  None = None
INVARIANTS TypeOK RowAccountsForRun FailFastWritesNothing OneDefinitionPerRun
PROPERTY RunIsAnswered
CHECK_DEADLOCK FALSE
