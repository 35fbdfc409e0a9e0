CONSTANTS
  Parts = {"plugins", "hvf", "exits", "two_exits", "filter", "legacy"}
  Others = {"v", "w"}
  Slices = 2
  Sinks = {"t"}
  IoWrites = FALSE
  MaxWrites = 1
  MaxLines = 1
  MaxRequests = 1
SPECIFICATION MCSpec
CHECK_DEADLOCK FALSE
INVARIANTS
  DumpIsOneMoment
  PauseIsPaid
  LineIsOwedAFlush
  HvfIsExact
  ConsoleIsHarmless
  LegacyIsFaithful
