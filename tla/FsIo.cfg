CONSTANTS
  Parts = {"sync", "direct", "workers", "changes", "locks", "threads", "stop", "queue", "queues"}
  Files = {"f", "g"}
  Dir = "dir"
  MaxChanges = 2
SPECIFICATION MCSpec
CHECK_DEADLOCK FALSE
INVARIANTS
  SyncKeepsItsPromise
  IoIsFaithful
  LocksAreKept
