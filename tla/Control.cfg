CONSTANTS
  Parts = {"run", "asked", "reports", "panic", "captures", "signals", "terminal", "io"}
  console = console
  Pollers = {"p"}
  Parked = {"w"}
  Stuck = {}
  MaxStdin = 3
SPECIFICATION MCSpec
CHECK_DEADLOCK FALSE
INVARIANTS
  ResultIsHonest
  PanicIsOnRecord
  SignalsAskFirst
  ReportedOnlyLate
