CONSTANTS
  Files = {"f"}
  Dir = "dir"
  MaxChanges = 2
SPECIFICATION Spec
INVARIANTS
  SyncReachesEverything
