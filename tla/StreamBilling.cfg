SPECIFICATION StreamSpec
CONSTANTS
  MaxLines = 3
  LineKinds = {"data", "usage", "done"}
INVARIANTS
  StreamIsBilled
CHECK_DEADLOCK FALSE
