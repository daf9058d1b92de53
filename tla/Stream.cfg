SPECIFICATION StreamSpec
CONSTANTS
  MaxLines = 4
  LineKinds = {"blank", "data", "usage", "emptyUsage", "done", "error", "badData", "badUsage"}
INVARIANTS
  StreamIsWellFormed
  LogShowsUsage
PROPERTIES
  StreamEnds
  ImplementsRelay
CHECK_DEADLOCK FALSE
