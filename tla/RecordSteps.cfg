\* Every pipeline of three steps over scalar fields, and some over shared dicts.
SPECIFICATION Spec
CONSTANTS
  Fields <- MCFields
  MaxDepth = 2
  Numerals <- MCNumerals
  Unquoted <- MCUnquoted
  Pipelines <- MCPipelines
  Documents <- MCDocuments
  FailFast = FALSE
INVARIANTS TypeOK LineageLeadsBack WrittenAsTransformed
PROPERTY EveryChangeIsNamed
CHECK_DEADLOCK FALSE
