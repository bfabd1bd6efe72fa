SPECIFICATION Spec
CONSTANTS
  dump = dump
  rows = rows
  odd = odd
  Scripts = {dump, rows}
  Statements <- Contents
  Engines = {"implicit"}
  MaxPlans = 2
  MaxRuns = 2
  MaxHasty = 1
  None = None
CHECK_DEADLOCK FALSE
INVARIANTS
  BatchIsAllOrNothing
