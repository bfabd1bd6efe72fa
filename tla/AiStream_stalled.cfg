SPECIFICATION ServerSpec
CONSTANT MaxEvents = 5
PROPERTIES
  HangupReachesProvider
