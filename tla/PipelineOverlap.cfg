\* Two runs of a pipeline whose definition may change between them, and two of whose
\* identities join to one id.
SPECIFICATION Spec
CONSTANTS
  s1 = s1
  s2 = s2
  s3 = s3
  k1 = k1
  k2 = k2
  d1 = d1
  d2 = d2
  d3 = d3
  bad = bad
  drops = drops
  raises = raises
  i1 = i1
  i2 = i2
  Runs = {r1, r2}
  Pipelines = {p1}
  Definitions = {d1, d2}
  Malformed = {}
  SourceIds = {s1, s2}
  Keys = {k1, k2}
  LineageId <- MCLineageIdJoined
  Effect <- MCEffectPlain
  Drops = drops
  Raises = raises
  MaxAttempts = 2
  None = None
SYMMETRY RunSymmetry
INVARIANTS LineageOfWritten
PROPERTY SoloRunExplains
CHECK_DEADLOCK FALSE
