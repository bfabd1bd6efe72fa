SPECIFICATION Spec
CONSTANTS
  Tables = {t1, t2}
  Keyless = {t2}
  Rows = {1, 2}
  MaxRuns = 2
  Typed = Typed
  NoTable = NoTable
  NotSaving = NotSaving
CHECK_DEADLOCK FALSE
INVARIANTS
  FailedSaveShowsTheRest
