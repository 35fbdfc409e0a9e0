CONSTANTS
  Parts = {"ledger_live", "ledger_drains", "run_live", "asked_live", "panic_live", "panic_blocked", "signals_live", "io", "io_unwinds", "vcpus_live", "hvf_live"}
  console = console
  Pollers = {}
  Parked = {"w"}
  Stuck = {}
  MaxStdin = 3
SPECIFICATION Live
CHECK_DEADLOCK FALSE
PROPERTIES
  RunsEnd
