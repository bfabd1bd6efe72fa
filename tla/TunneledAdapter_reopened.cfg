SPECIFICATION Spec
CONSTANTS
  Callers = {c1, c2}
  Reconnecters = {}
  MaxForwards = 3
PROPERTIES
  ClosedNeverDials
