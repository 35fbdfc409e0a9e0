CONSTANTS
  Parts = {"queue", "net_live", "vsock_live", "vsock_ends", "vsock_faults", "vhost_live"}
  IndexWrap = 4
  QueueNumMax = 2
  Nums = {2}
  Rooms = {2}
  Vcpus = 2
  MaxChains = 5
  MaxResets = 1
  MaxFaults = 0
SPECIFICATION Live
CHECK_DEADLOCK FALSE
PROPERTIES
  DevicesAnswer
