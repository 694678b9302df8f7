\* Two cases, one builtin metric and the custom one, up to two records of up to two scores.
SPECIFICATION Spec
CONSTANTS
  RowCount = 2
  NoRow = NoRow
  Builtins = {m}
  Custom = c
  NoMetric = NoMetric
  MaxRecords = 2
  MaxItems = 2
INVARIANTS
  ScoresAreAsDownloaded
  CompleteIsExact
CHECK_DEADLOCK FALSE
