SPECIFICATION Spec
CONSTANTS
  dump = dump
  rows = rows
  odd = odd
  Scripts = {dump, rows, odd}
  Statements <- Contents
  Engines = {"transaction", "implicit", "statement", "none"}
  MaxPlans = 2
  MaxRuns = 2
  MaxHasty = 1
  None = None
CHECK_DEADLOCK FALSE
INVARIANTS
  RunIsWhatWasAgreed
