CONSTANTS
  Parts = {"locks_live", "workers", "first", "second"}
  Files = {"f"}
  Dir = "dir"
  MaxChanges = 1
SPECIFICATION Live
CHECK_DEADLOCK FALSE
PROPERTIES
  RequestsEnd
