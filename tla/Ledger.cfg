CONSTANTS
  Threads = {"t", "u"}
  Cap = 2
  MaxRecords = 4
  MaxBatches = 3
SPECIFICATION Spec
INVARIANTS
  EveryDropIsCounted
  FileIsPrefix
  OkMeansWritten
  NoLostWake
PROPERTIES
  NothingAfterTheLast
