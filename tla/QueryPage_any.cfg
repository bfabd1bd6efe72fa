SPECIFICATION MCSpec
CONSTANTS
  Tables = {t1, t2}
  Keyless = {t2}
  Rows = {1, 2}
  MaxRuns = 3
  Typed = Typed
  NoTable = NoTable
  NotSaving = NotSaving
  SideTables = {1, 2, 3}
  Pool = 2
  MaxChanges = 1
  Unknown = Unknown
  Requests = {1, 2}
  Fetches = {f1, f2}
  MaxNow = 1
  GridColumns = {1, 2, 3}
  MaxKeys = 2
  MaxEdits = 2
CHECK_DEADLOCK FALSE
INVARIANTS
  PageTypeOK
  OnlyOwnRowsAreEditable
  PatienceIsEnough
  SchemaIsTold
  HistoryIsTold
  SortMovesNoEdit
PROPERTIES
  FanOutEnds
