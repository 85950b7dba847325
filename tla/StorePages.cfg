\* Two writers, three bulk writes of two records, and a walk of pages.
SPECIFICATION BrowseSpec
CONSTANTS
  id = id
  name = name
  syn = syn
  w1 = w1
  w2 = w2
  Writers <- MCWriters
  Fields = {id, name, syn}
  Values = {1, 2}
  None = 0
  NoKey = NoKey
  Printed <- MCPrinted
  Jobs <- MCJobs
  KeyField = id
  Synthetic = syn
  MaxBulks = 3
  Sizes = {2}
  SortFields = {id, name}
  Natural = Natural
  AnyRef = AnyRef
INVARIANTS TypeOK BulkStands WalkSeesEachOnce
PROPERTIES ActsAtomically RepeatIsQuiet
SYMMETRY Either
CHECK_DEADLOCK FALSE
