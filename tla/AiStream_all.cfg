SPECIFICATION MCSpec
CONSTANTS
  MaxEvents = 5
  Providers = {p1, p2}
  Streamers = {p1}
  Default = p1
  MaxAsks = 3
  Nobody = Nobody
  Tables = {t1, t2}
  Keyed = {t1}
  Keys = {1, 2, 3}
  Threshold = 3
  PageRows = 2
  BatchRows = 1
  MaxWrites = 1
  None = None
  MaxStarts = 4
  Vendors = {"openai", "anthropic", "atomic"}
  MaxFrames = 4
  TextCap = 1
  Null = Null
  WireFrames = 2
INVARIANTS
  StreamsTypeOK
  HistoryIsTrue
  PanelIsTrue
  DumpIsTrue
  AnswerIsTold
PROPERTIES
  HangupReachesProvider
  StreamerIsTold
  CancelIsClean
