SPECIFICATION MCSpec
CONSTANTS
  dump = dump
  rows = rows
  odd = odd
  Scripts = {dump, rows, odd}
  Statements <- Contents
  Engines = {"transaction", "implicit", "statement", "none"}
  MaxPlans = 2
  MaxRuns = 2
  MaxHasty = 1
  None = None
  MaxPieces = 3
  MaxEnds = 2
CHECK_DEADLOCK FALSE
INVARIANTS
  ScriptsTypeOK
  ReportIsTrue
  ConsentIsKept
  ScriptIsRead
PROPERTIES
  RunEnds
