------------------------------- MODULE MCBoot -------------------------------
(***************************************************************************)
(* What comes before a guest runs, for TLC: the disks that several         *)
(* processes open, the order in which a boot confines itself, the layout   *)
(* of the guest's memory, the two kernel loaders, the command line, and    *)
(* the guest memory a host program reads. They share no state, so a        *)
(* behaviour is of one of them, `part`, and the variables of the others    *)
(* rest.                                                                   *)
(***************************************************************************)
EXTENDS Disks

CONSTANTS Parts

VARIABLES part, backend, gnu, runSlot, entered, profile, filters, installed, st, pass, pc2,
          sandbox, queue, ledger, kept, stopping, raw, handlers, boots, died, backend2, vcpus,
          gic, disks, net, vsock, exports, st2, mem, kernel, initrd, cpus, devs, ram, e820,
          wrote, st3, ram2, image, initrd2, tree, kernel2, layout, st4, backend3, line, phase,
          options, shares, sockets, flag, fields, result, asked, st5, mapped, object

\* Disk lists: one or two uses of the image or of a node of the device, and lists
\* that check_disks refuses for a serial or their length.
Uses(paths) == [path : paths, ro : BOOLEAN, serial : {"none"}]
Named(s) == {[path |-> f, ro |-> TRUE, serial |-> s] : f \in Files}
DiskLists == {<<d>> : d \in Uses(Files \cup DeviceNodes)}
             \cup {<<d, e>> : d \in Uses(Files), e \in Uses(Files \cup DeviceNodes)}
             \cup {<<d, e>> : d, e \in Uses(DeviceNodes)}
             \cup {<<d>> : d \in Named("own") \cup Named("bad")}
             \cup {<<d, e>> : d \in Named("disk1"), e \in Named("none")}
             \cup {<<d, d, d>> : d \in Named("none")}

\* GIC redistributor regions in units of 0x200 bytes, as all addresses of the
\* layout: what Apple silicon reports, one that ends at the UART, one past it, and
\* two past the virtio windows of the disks.  GIC_NUM_IRQS is 64 here and 256 in
\* the code, so that the exports reach it.
GicRegions == {65536, 129792, 129793, 162563, 162570}

\* RAM sizes from less than the kernel needs to both sides of the MMIO hole, bzImages
\* that unpack into more than they hold, and vmlinux images.
X86Rams == {m * 1024 : m \in {1, 2, 3, 8, 64, 2048, 3327, 3328, 3329, 4096, 8192}}
X86Kernels == {[load |-> l, end |-> l + e, init_size |-> s] :
                 l \in {512, 1024, 16384}, e \in {1, 3000, 9000}, s \in {0, 20000}}
ArmRams == {n \in 20..64 : n % 4 = 0}
ArmImages == [file : 1..6, offset : {0, 2}, size : {0, 3, 6, 10}]

\* A flag of each kind, directories that are equal, nested, neighbours or missing,
\* and exports of both forms.
Shares(name, paths, tag) == {[flag |-> name, path |-> p, tag |-> tag, writable |-> w, uid |-> 0] :
                               p \in paths, w \in BOOLEAN}
CliFlags ==
    {[flag |-> "kernel", value |-> v] : v \in {"Image", "missing"}}
    \cup {[flag |-> "dump_memory", value |-> "file"], [flag |-> "dump_after", value |-> 1],
          [flag |-> "trace_io", value |-> "missing"], [flag |-> "unknown"]}
    \cup {[flag |-> "fs_uid", value |-> v] : v \in {1, 2, 99}}
    \cup {[flag |-> "cpus", value |-> v] : v \in {0, 2}}
    \cup Shares("share", {"a", "link"}, "t1") \cup Shares("fs_path", {"a", "ab", "sub", "gone"}, "t2")
    \cup {[flag |-> "fs_socket", tag |-> t, queues |-> q] : t \in {"t1", "t3"}, q \in {1, 2}}

Boots == INSTANCE Boot
    WITH Callers <- {"main", "other"}, MaxBoots <- 2, pc <- pc2
Place == INSTANCE Placement
    WITH Backends <- {"kvm3", "kvm2", "hvf", "x86"}, Vcpus <- {1, 8, 9, 507, 508},
         HvfGicr <- GicRegions, MaxDisks <- 4, MaxShares <- 26, NumIrqs <- 64,
         IoapicInputs <- 24, DeviceBase <- 262144, RamBase <- 2097152, GicrBase <- 263424,
         Frame <- 256, GiccEnd <- 262400, UartBase <- 393216, Page <- 8, ArmVirtio <- 425984,
         X86Virtio <- 6815744, X86HoleEnd <- 8347648, backend <- backend2, st <- st2
X86 == INSTANCE X86Load
    WITH MemSizes <- X86Rams, Kernels <- X86Kernels, Initrds <- {0, 1, 2048, 30000, 3400000},
         CpuCounts <- {1, 38, 254, 255}, DevCounts <- {0, 5, 17}, DsdtHead <- 43,
         DsdtDevice <- 65, st <- st3
Arm == INSTANCE Arm64Load
    WITH RamSizes <- ArmRams, Images <- ArmImages, Initrds <- {0, 1, 3, 4, 9},
         TreeLengths <- {3, 4, 5, 9, 15}, TreeInitrd <- 2, KernelAlign <- 8, Page <- 4,
         LegacyOffset <- 5, Provisional <- 6, MaxTree <- 16, ram <- ram2, initrd <- initrd2,
         kernel <- kernel2, st <- st4
Cli == INSTANCE CommandLine
    WITH MaxFlags <- 3, Backends <- {"hvf", "kvm"}, Flags <- CliFlags, backend <- backend3
Export == INSTANCE ExportSpec
    WITH MaxFields <- 3, EmptyPaths <- FALSE
Mem == INSTANCE GuestMemory
    WITH Gpas <- {0, 2, 4, 7, 8}, Sizes <- {0, 1, 2, 4}, Offsets <- {0, 1, 4}, ObjectLen <- 5,
         AddressSpace <- 10, MaxRegions <- 2, Needles <- {<<1>>, <<1, 1>>, <<1, 0, 1>>},
         ScanCap <- 2, st <- st5

\* The variables by the components that have them, and their value in the parts
\* that have not.
ofBoot == <<backend, gnu, runSlot, entered, profile, filters, installed, st, pass, pc2, sandbox,
            queue, ledger, kept, stopping, raw, handlers, boots, died>>
NoBoot == backend = 0 /\ gnu = 0 /\ runSlot = 0 /\ entered = 0 /\ profile = 0 /\ filters = 0 /\
    installed = 0 /\ st = 0 /\ pass = 0 /\ pc2 = 0 /\ sandbox = 0 /\ queue = 0 /\ ledger = 0 /\
    kept = 0 /\ stopping = 0 /\ raw = 0 /\ handlers = 0 /\ boots = 0 /\ died = 0
ofPlacement == <<backend2, vcpus, gic, disks, net, vsock, exports, st2>>
NoPlacement == backend2 = 0 /\ vcpus = 0 /\ gic = 0 /\ disks = 0 /\ net = 0 /\ vsock = 0 /\
    exports = 0 /\ st2 = 0
ofX86Load == <<mem, kernel, initrd, cpus, devs, ram, e820, wrote, st3>>
NoX86Load == mem = 0 /\ kernel = 0 /\ initrd = 0 /\ cpus = 0 /\ devs = 0 /\ ram = 0 /\
    e820 = 0 /\ wrote = 0 /\ st3 = 0
ofArm64Load == <<ram2, image, initrd2, tree, kernel2, layout, st4>>
NoArm64Load == ram2 = 0 /\ image = 0 /\ initrd2 = 0 /\ tree = 0 /\ kernel2 = 0 /\ layout = 0 /\
    st4 = 0
ofCommandLine == <<backend3, line, phase, options, shares, sockets>>
NoCommandLine == backend3 = 0 /\ line = 0 /\ phase = 0 /\ options = 0 /\ shares = 0 /\
    sockets = 0
ofExportSpec == <<flag, fields, result>>
NoExportSpec == flag = 0 /\ fields = 0 /\ result = 0
ofGuestMemory == <<asked, st5, mapped, object>>
NoGuestMemory == asked = 0 /\ st5 = 0 /\ mapped = 0 /\ object = 0
all == <<part, vars, ofBoot, ofPlacement, ofX86Load, ofArm64Load, ofCommandLine, ofExportSpec,
         ofGuestMemory>>

\* A step of one part leaves the variables of the others alone.
InDisks(p, A) == part = p /\ A /\ UNCHANGED <<part, ofBoot, ofPlacement, ofX86Load, ofArm64Load,
    ofCommandLine, ofExportSpec, ofGuestMemory>>
InBoot(p, A) == part = p /\ A /\ UNCHANGED <<part, vars, ofPlacement, ofX86Load, ofArm64Load,
    ofCommandLine, ofExportSpec, ofGuestMemory>>
InPlacement(p, A) == part = p /\ A /\ UNCHANGED <<part, vars, ofBoot, ofX86Load, ofArm64Load,
    ofCommandLine, ofExportSpec, ofGuestMemory>>
InX86Load(p, A) == part = p /\ A /\ UNCHANGED <<part, vars, ofBoot, ofPlacement, ofArm64Load,
    ofCommandLine, ofExportSpec, ofGuestMemory>>
InArm64Load(p, A) == part = p /\ A /\ UNCHANGED <<part, vars, ofBoot, ofPlacement, ofX86Load,
    ofCommandLine, ofExportSpec, ofGuestMemory>>
InCommandLine(p, A) == part = p /\ A /\ UNCHANGED <<part, vars, ofBoot, ofPlacement, ofX86Load,
    ofArm64Load, ofExportSpec, ofGuestMemory>>
InExportSpec(p, A) == part = p /\ A /\ UNCHANGED <<part, vars, ofBoot, ofPlacement, ofX86Load,
    ofArm64Load, ofCommandLine, ofGuestMemory>>
InGuestMemory(p, A) == part = p /\ A /\ UNCHANGED <<part, vars, ofBoot, ofPlacement, ofX86Load,
    ofArm64Load, ofCommandLine, ofExportSpec>>

\* Of the builds that differ in one point only, one is followed: a program that
\* leaves the stop signals alone, and the two C libraries, on x86.
Builds == /\ handlers = "unasked" => backend = "x86" /\ ~gnu
          /\ backend = "arm64" => gnu
MCInit ==
    /\ part \in Parts
    /\ \/ part = "disks" /\ Init /\ NoBoot /\ NoPlacement /\ NoX86Load /\ NoArm64Load /\
           NoCommandLine /\ NoExportSpec /\ NoGuestMemory
       \/ part = "boot" /\ Boots!Init /\ Builds /\ Init /\ NoPlacement /\ NoX86Load /\ NoArm64Load /\
           NoCommandLine /\ NoExportSpec /\ NoGuestMemory
       \/ part = "placement" /\ Place!Init /\ Init /\ NoBoot /\ NoX86Load /\ NoArm64Load /\
           NoCommandLine /\ NoExportSpec /\ NoGuestMemory
       \/ part = "x86" /\ X86!Init /\ Init /\ NoBoot /\ NoPlacement /\ NoArm64Load /\ NoCommandLine /\
           NoExportSpec /\ NoGuestMemory
       \/ part = "arm64" /\ Arm!Init /\ Init /\ NoBoot /\ NoPlacement /\ NoX86Load /\ NoCommandLine /\
           NoExportSpec /\ NoGuestMemory
       \/ part = "cli" /\ Cli!Init /\ Init /\ NoBoot /\ NoPlacement /\ NoX86Load /\ NoArm64Load /\
           NoExportSpec /\ NoGuestMemory
       \/ part = "export" /\ Export!Init /\ Init /\ NoBoot /\ NoPlacement /\ NoX86Load /\
           NoArm64Load /\ NoCommandLine /\ NoGuestMemory
       \/ part = "memory" /\ Mem!Init /\ Init /\ NoBoot /\ NoPlacement /\ NoX86Load /\ NoArm64Load /\
           NoCommandLine /\ NoExportSpec
\* The two callers are alike, so that the first to boot may be called "main".
MainFirst == boots' = 1 => pc2'["other"] = 0
MCNext == \/ InDisks("disks", Next) \/ InBoot("boot", Boots!Next /\ MainFirst)
          \/ InPlacement("placement", Place!Next)
          \/ InX86Load("x86", X86!Next) \/ InArm64Load("arm64", Arm!Next)
          \/ InCommandLine("cli", Cli!Next) \/ InExportSpec("export", Export!Next)
          \/ InGuestMemory("memory", Mem!Next)
MCSpec == MCInit /\ [][MCNext]_all

ASSUME LayoutAssumption == Place!PlacementAssumption

-----------------------------------------------------------------------------
(* Properties. *)

\* Nothing of a boot runs unconfined, and nothing it needs is denied: every thread
\* that serves a guest, every helper and the caller have a filter or the profile;
\* one run at a time; what a failed or finished boot opened is closed; the terminal
\* is raw only with the stop signals handled (hypervisor::boot, sandbox).
BootIsConfined ==
    part = "boot" => /\ Boots!NeverDenied /\ Boots!ServesConfined /\ Boots!HelpersConfined
                     /\ Boots!CallerConfined /\ Boots!OneRun /\ Boots!LedgerReleased
                     /\ Boots!RawHasHandlers

\* The guest's physical memory holds what the guest is told, each thing whole and
\* apart from the others: the windows and lines of the devices, and the images,
\* tables and trees the two loaders write.
LayoutIsSound ==
    /\ part = "placement" => /\ Place!WindowsApart /\ Place!LinesApart
                             /\ Place!ServesWhatItTold /\ Place!KvmLinesExist
    /\ part = "x86" => /\ X86!NothingOverlaps /\ X86!E820IsRam
                       /\ X86!AcpiTablesApart /\ X86!ApicIdsApart
    /\ part = "arm64" => Arm!ImagesAreWhole /\ Arm!TreeNamesTheInitrd

\* The command line is taken as documented, whatever the order of its flags: a
\* read-only share is not writable through another, tags differ, the old flags'
\* owner is theirs, one queue is served per vCPU, and an export's value is taken
\* just when it has the documented form.
CommandLineIsKept ==
    /\ part = "cli" => /\ Cli!ReadOnlyIsKept /\ Cli!TagsDiffer
                       /\ Cli!OldFlagsOwn /\ Cli!OneQueueIsServed
    /\ part = "export" => Export!TakenIsTheSyntax

\* A read of guest memory answers what is mapped there, at the edges of regions
\* too, and a scan finds every match (GuestMemory, MemoryView).
MemoryIsAsMapped == part = "memory" => Mem!ReadsWhatWasMapped /\ Mem!ViewAgrees /\ Mem!ScanFindsMatches
=============================================================================
