SPECIFICATION MCSpec
CONSTANTS
  Callers = {c1, c2, c3}
  Reconnecters = {c1, c2, c3}
  MaxForwards = 4
  Drivers = {"postgres", "mysql", "turso", "d1"}
  Sessions = {s1, s2}
  Batches = {b1, b2}
  Size = 2
  NoSession = NoSession
  Bastions = {h1, h2}
  HostKeys = {k1, k2}
  Sockets = {p1, p2}
  MaxProbes = 2
  MaxLines = 2
  PatternsPerLine = 2
  Absent = Absent
INVARIANTS
  TypeOK
  OneForward
  NoForwardIsLeaked
  ForwardOutlivesQueries
  BatchesAreWhole
  AnswersAreTrue
  SessionsAreTrusted
PROPERTIES
  QuietCloseIsFinal
  NobodyWaitsForEver
