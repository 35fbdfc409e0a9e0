CONSTANTS
  Parts = {"disks", "boot", "placement", "x86", "arm64", "cli", "export", "memory"}
  Procs = {"p", "q"}
  Files = {"image"}
  DeviceNodes = {"node1", "node2"}
  Device = "device"
  Lists <- DiskLists
  MaxDisks = 2
  Tries = 2
  UdevEvents = 1
SPECIFICATION MCSpec
CHECK_DEADLOCK FALSE
INVARIANTS
  WriterIsAlone
  GuestSeesOneImage
  BootIsConfined
  LayoutIsSound
  CommandLineIsKept
  MemoryIsAsMapped
