CONSTANTS
  Parts = {"queue", "block", "gateway", "tap", "stub", "vsock", "to_guest", "to_host", "vhost", "rings", "features", "stack", "capture"}
  IndexWrap = 4
  QueueNumMax = 2
  Nums = {1, 2, 3}
  Rooms = {1, 2}
  Vcpus = 2
  MaxChains = 5
  MaxResets = 1
  MaxFaults = 1
SPECIFICATION MCSpec
CHECK_DEADLOCK FALSE
INVARIANTS
  ServedInBounds
  NoLostInterrupt
  DevicesKeepFaith
PROPERTIES
  ImplementsChainQueue
  NoStepOversteps
