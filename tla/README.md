# Verification of hvi

hvi is a microVMM: one process that runs one guest at a time, on KVM or on
Apple's Hypervisor.framework. These modules model the parts of it in which
threads, processes, the guest and the host meet. TLC checks them on small
instances, and TLAPS proves what matters most for every value of the constants.
Paths below are relative to `src/src/`.

## The system

`boot` reads the configuration, opens the images and sockets, places the devices
and loads the kernel, confines the process, and then runs the guest. One thread
per vCPU enters the guest, leaves it at an exit, and serves the exit. I/O threads
read the console, relay the network, carry vsock sessions and serve the shared
directories. A plugin may pause the vCPUs from the boot vCPU's safe point. The
thread that called `boot` waits in `run_to_stop` until a vCPU, a signal or a
caller gives it news. It then stops the vCPUs, joins what ends in time, stops
the I/O threads, closes the ledger and gives up its claim on the process.

| Part | Files | Modules |
| --- | --- | --- |
| vCPU threads, pause and stop | `hypervisor/` | `Vcpus`, abstract: `SafePoint` |
| Ledger | `events.rs` | `Ledger` |
| A run to its stop | `run/supervisor.rs`, `run/stop.rs`, `io_threads.rs`, `teardown.rs` | `RunToStop`, `IoStop` |
| Panics of an abort build | `run/panic.rs` | `PanicAbort` |
| Stop signals, raw terminal | `signal.rs`, `terminal/raw.rs` | `StopSignals`, `RawTerm` |
| Boot and confinement | `arch/*/kvm/boot.rs`, `arch/aarch64/hvf/boot.rs`, `sandbox/`, `lib.rs` | `Boot` |
| Images | `devices/virtio/block.rs`, `config.rs` | `Disks`, `Block` |
| Layout and loaders | `arch/*/layout.rs`, `loader.rs` and the tables | `Placement`, `X86Load`, `Arm64Load` |
| Command line | `main.rs`, `config.rs` | `CommandLine`, `ExportSpec` |
| Guest memory | `memory/guest.rs` | `GuestMemory` |
| Hypervisor.framework | `arch/aarch64/hvf/`, `arch/aarch64/esr.rs` | `HvfVcpus`, `HvfExits` |
| Built-in plugins | `plugin/builtin.rs` | `BuiltinPlugins` |
| Console | `terminal/filter.rs` | `ConsoleFilter` |
| UARTs, clock, ACPI registers | `devices/legacy/` | `LegacyDevices` |
| virtio-fs | `devices/virtio/fs/server.rs`, `worker.rs` | `FsTree`, `FsFiles`, `FsListing`, `Readahead`, `FsAttr`, `FsSync`, `DirCache`, `FsDirect`, `FsLocks`, `FsTransport` |
| vhost-user virtio-fs | `devices/virtio/fs/vhost_user.rs` | `VhostUser` |
| Virtqueue and interrupt line | `devices/virtio/queue.rs`, `devices/irq.rs` | `Virtqueue`, abstract: `ChainQueue` |
| Network | `devices/virtio/net.rs` | `Net`, `NetStack` |
| Vsock | `devices/virtio/vsock.rs` | `Vsock` |

## How the modules are written

A step is one access to shared state: an atomic, a section under a lock, one
host call, one message. A request served under a device's lock is one step. A
deadline is a step that may come at any time, so no property rests on a timeout
being long enough. The header of each module says what its state stands for,
and `PROJECT.json` gives the lines each definition models. A definition under a
comment "Mutant of" is a deliberate defect, kept to see that a property can fail.

Components that share state are composed in one module. `RunToStop` has the vCPU
threads' ends, the I/O threads' guards, the stop handle with its pipe and the
waiting thread. `PanicAbort` has a run, its ledger and several panicking
threads. `Net`, `Vsock`, `VhostUser`, `FsLocks` and `FsTransport` each have a
device with the guest's driver, the host's end and the threads between.

Components that share no state are checked together. `MCBoot`, `MCControl`,
`MCMachine`, `MCFs` and `MCDevices` each take a set `Parts`. A behaviour is of one
part, named by the variable `part`, and the variables of the other parts rest. A
part is one instance of one component. A property of such a module states for
each part what the component promises, and the comment above it names them. Each
of these modules extends the one component whose theorems its run illustrates.
`Vcpus`, `Ledger` and `FsSync` have runs of their own.

## Runs

| Run | Instance | What it shows |
| --- | --- | --- |
| `vcpus` | 3 vCPUs, 1 kick by the host | A held pause keeps every vCPU off the guest, starts and stops during it included (`PauseHoldsGuest`). One round of kicks is enough for a stop (`NoGuestAfterStop`). `Vcpus` implements `SafePoint` (`ImplementsSafePoint`). |
| `ledger` | 2 threads, a cap of 2 lines, 4 records in 3 batches | Every dropped record is counted by a marker before the next one (`EveryDropIsCounted`). The file holds the stream's prefix, torn writes and retries included (`FileIsPrefix`). `Ok` means written (`OkMeansWritten`). No line waits on a sleeping writer (`NoLostWake`). Nothing follows the close, and no droppable record passes the cap (`NothingAfterTheLast`). |
| `control` | `MCControl` | What a run reports is what happened (`ResultIsHonest`). A panic leaves its record, once and in order, before the abort (`PanicIsOnRecord`). A signal asks before it ends the process, and the terminal is restored (`SignalsAskFirst`). An I/O thread is reported as left running only after the deadline (`ReportedOnlyLate`). |
| `control_live` | the same, smaller | News ends a run, a panic and repeated signals end the process, the ledger drains and lets go of its file, a stop and an unwind reach every I/O thread, and a stop ends every vCPU thread on KVM and on HVF (`RunsEnd`). |
| `boot` | `MCBoot` | Two processes never write one store (`WriterIsAlone`). A guest does not see one image through two disks (`GuestSeesOneImage`). A thread that serves the guest is confined and no step needs a call its filter denies (`BootIsConfined`). Windows, lines, tables and images do not overlap, and the tables describe what is served (`LayoutIsSound`). A line's exports and owners reach the guest as asked (`CommandLineIsKept`). Reads and scans return what was mapped (`MemoryIsAsMapped`). |
| `machine` | `MCMachine` | A dump is one moment (`DumpIsOneMoment`), the pause it made is resumed whatever fails (`PauseIsPaid`), and a traced line is flushed or owed a flush (`LineIsOwedAFlush`). HVF kicks reach the living, exits decode exactly and `CPU_ON` starts the vCPU it names (`HvfIsExact`). No harmful sequence passes the console's filter and what it lets through shows what the guest wrote (`ConsoleIsHarmless`). UARTs, clock and ACPI registers do what their drivers rely on (`LegacyIsFaithful`). |
| `fs_tree` | `MCFs` | A node's paths lead to its file and nothing is left behind (`TreeIsSound`). Descriptors stay in their budget and every parked one can be evicted (`DescriptorsAreBounded`). Listings, directories and attributes served from a cache are current (`CachesAreCurrent`). No open hands out a stale descriptor, no unfinished listing goes while a finished one could, and no request clears a set-id bit of the host's (`StepsAreCareful`). |
| `fs_io` | `MCFs` | What a sync answered for is on the disk, unless a change that sets no dirty bit came to it (`SyncKeepsItsPromise`). The direct path does what the buffered one does and read-ahead serves nothing older than the guest's own change (`IoIsFaithful`). Locks exclude, waiters are retried, a reset's chains are dropped and interrupts are not lost (`LocksAreKept`). |
| `fs_live` | the same, smaller | Everyone who waits for a lock gets through, told workers exit, and announced chains are taken (`RequestsEnd`). |
| `devices` | `MCDevices` | A queue is served only within its rings (`ServedInBounds`), no completion waits without its interrupt (`NoLostInterrupt`), and `Virtqueue` implements `ChainQueue` across the wrap of its indices (`ImplementsChainQueue`). Flushed data survives a host crash and each answered request is in the ledger once, frames arrive whole, vsock credit and ends of stream are kept, a vhost-user daemon serves the rings as they were handed over and none after a reset, and what the stack answers is logged (`DevicesKeepFaith`). A write stays in its sectors, never on a read-only disk, and a vsock session is reset once (`NoStepOversteps`). |
| `devices_live` | the same, smaller | Published chains come back, the relay ends under endless traffic, a closed client ends its session, and a stop frees whoever waits on a silent daemon (`DevicesAnswer`). |
| `fs_sync_truncate` | `FsSync`, 1 file | The violation under *Where code and comments part*. |

Deadlock is checked in `vcpus` and `ledger`: some step is always possible there. The other runs end in states with nothing left to do: a run that has
ended, a boot that has failed, a guest that has taken its last input.

### Bounds

A bound is a constant of its module or of the instance in the MC module, named
`Max...` unless it is a size of the system. They are chosen so that the case a
property is about happens:

- Three vCPUs are the least with one parked, one in the guest and one starting
  while the boot vCPU pauses. One kick by the host meets every place a vCPU can
  be in.
- A cap of 2 lines is the least at which a marker fits with a record, and four
  records the least of which two fill the buffer, one is dropped and one brings
  the marker. Failed writes are not
  bounded: each may tear the file at any line.
- `PipeSize` and `DrainSize` stand for 64 KiB and 64 bytes. 1 and 1 fill the pipe
  at once, 2 and 1 leave a wake behind after a read.
- A ring has up to 2 slots and its indices wrap at 4, with 5 chains, so that every
  index wraps while the ring is in use. 2^16 and 256 are powers of two as well,
  which is all the slot arithmetic needs (`SizesAssumption`).
- Vsock counters wrap at 2 or 4 and buffers hold 1 or 2 bytes, so that credit runs
  out and the counters wrap within a session.
- `Placement` and `X86Load` have the addresses of the code, in units of their
  own; `Placement` has 64 interrupts for 256, so that 26 exports pass the last.
  `Arm64Load` has an address space of a few dozen units with every alignment
  scaled down.
- Console bytes are one symbol per class the filter tells apart. Its state keeps
  at most `MAX_SEQ` of them, 6 for 128, and the input is not bounded.
- The lock parts have two or three processes with programs that take an flock or a
  record lock, and that convert one; a ring drains one chain at a time (`Budget`),
  so requests are left to the worker. The live part has flocks with conversions and
  record locks without: a record lock is kept while its conversion waits, so two
  processes that both upgrade theirs wait for each other for good, as on any POSIX
  system that does not detect it.
- `Boot` has two boots, one after the other or by two callers. The callers are alike,
  so the first to boot is called "main" (`MainFirst`). Of builds that differ in one
  point only, one is followed (`Builds`).
- `FsDirect` has at most one descriptor outside guest RAM, and host I/O that moves
  everything, one unit, or fails.
- `Block` has two vCPUs, so that the events one has taken are appended behind those
  of the other. `VhostUser` has one ring with a failing daemon, and two rings with
  one that only reads late.

No run uses symmetry: the reduced ones are small, and it is unsound for the
temporal ones.

### Fairness

Weak fairness on a thread's step says that the scheduler runs it, that a mutex is
handed on, and that time passes. Strong fairness is used in two places. A
plugin's hook returns, even if it pauses again and again, as the contract of
`CpuHandle::is_stopping` asks of it. The network relay gets a lock the vCPU
takes repeatedly. In the lock part a guest process gets on with its program and
the host's process does not keep its lock for good. Nothing is assumed of the
guest otherwise, of stdin, of a write's success, of a vCPU leaving its loop or of
an I/O thread leaving its body. In the part
`panic_blocked` not even a print to stderr returns. Each component states its own
assumptions beside its `FairSpec`; `Live` of an MC module has one conjunct per
kind of thread.

## Proofs

Every theorem holds for every value of the constants under the assumptions named.
Each `Spec => []P` is proved from an invariant `Inv` with `Init => Inv`,
`Inv /\ [Next]_vars => Inv'` and `Inv => P`, with one step per action.

**vCPU threads** (`Vcpus_proofs`: `Invariance`, `PauseIsSafe`, `StopIsFinal`,
`Refinement`; `CountAssumption`, `HostKicksAssumption`). The barrier compares two
counts, `parked >= started - 1`, and that says nothing of who is parked. `Inv` ties
the counts to the threads' places (`CountsAgree`), a request to the boot vCPU's
place in the hook (`RolesOK`), and the kick table to who is registered (`TableOK`).
`KicksOK` says that a vCPU the stop's kicks have passed is out of the guest and, if
it is about to enter, has its exit byte set. `HoldOK` says where every other vCPU
is while a pause is held. The lemma `EveryoneParked` turns the comparison into "every other
started vCPU is parked". `StepRefines` maps each step to one of `SafePoint`.

**Ledger** (`Ledger_proofs`: `Invariance`, `WakesAreNotLost`, `OkIsHonest`,
`FileIsSound`, `LastIsLast`, `DropsAreCounted`; `CapAssumption`, `BoundsAssumption`). None of the
properties is inductive: they speak of the file and of the callers, and what keeps
them is what the writer holds in between. `WakeOK` says who will still notify,
`LoopOK` what each place of the writer's loop implies, `EndsOK` where each batch
ends in the stream against what is written and what is taken, `CloseOK` that the
last batch counts as written only once the file is unlocked, and `FileOK` what stands in the file past the
offset after a failed write. The lemmas `AddAdds`, `Overwritten`, `PartialWrite`,
`StreamOf` and `StreamKept` give the shape of the file and of the stream.
`DropsAreCounted` rests on a second invariant, `CountOK`: the tally of the stream,
in which a marker stands for the records it counts, with the drops not marked yet
makes up the records offered. `AddOneTally` shows that one turn of the loop of
`Ledger::add` keeps the tally whether the record fits, is dropped or brings a
marker, `AddTally` that a batch does, and `CountStep` that no step of the writer
disturbs it. The steps use one fact about counting the records of a sequence
(`Counting`); `CountingHolds` proves it at the end from the library's facts about
cardinality.

**A run to its stop** (`RunToStop_proofs`: `RunEndsHonestly`). The parts of
`ResultIsHonest`, from an invariant on the threads' reports (`ReportsOK`), the
waiting thread's place (`MainOK`), the joins (`JoinOK`), the signal found
(`SignalOK`) and the starts recorded (`StartsOK`). `RunToStop` is run only as an
instance of `MCControl`, which evaluates its `ConstantsAssumption`. The theorem
takes that as a hypothesis.

**I/O threads** (`IoStop`: `StopJoinsWhatFinished`; `ThreadsAssumption`). The stop
waits for a count and joins by flags. `Counted` ties the one to the other, by the
cardinality of the set of guards that have noted their end. `WaitedForAll` carries
it past the wait.

**Images** (`Disks`: `WritersAreAlone`, `GuestDisksDiffer`;
`PathsAssumption`, `TriesAssumption`, `ListsAssumption`). A process checks, opens and locks in
separate steps while others do the same and names move. `Inv` follows a claim from
the name that was checked to the store that was opened and locked (`Opening`,
`Reached`, `Placed`, `Locked`, `Writes`, `OneClaim`, `Listed`).

**Plugins** (`BuiltinPlugins`: `DebtsAreKept`, `FlushIsOwed`, `DumpIsConsistent`;
`SlicesAssumption`). The first two share the invariant `Owed`. The last has the
hypothesis `~IoWrites`, that only
vCPUs write guest RAM. The code does not ensure it: see below.

**Durability** (`FsSync`: `PromiseIsKept`). `quiet` remembers the objects that were
changed without the dirty bit, by an OPEN or by the close of a tmpfile, and not
flushed since. `CleanIsSynced` says that with the bit clear the disk has everything
else, and `Ordered` that what was promised of the rest is on the disk and nothing is
there that was not written. The run `fs_sync_truncate` shows that the promise does
not extend to `quiet`.

**Virtqueue** (`Virtqueue`: `ServesInBounds`, `InterruptsAreKept`,
`RingsImplementChainQueue`; `WrapAssumption`, `SizesAssumption`, `ChainsAssumption`). `Inv` adds that a queue being set up is empty,
so that a notify from before a reset finds nothing to serve (`SetUpIsEmpty`), that
a completion is announced or about to be (`Announced`), and that the recorded
level is the line's (`RecordIsLine`).
The refinement of `ChainQueue` is in distances, since an index and a slot are
residues: `ToServe` entries from the used index on are the device's, `ToTake` from
the driver's index on are the driver's. With the free descriptors they make up the
table and no descriptor is in two places (`TableIsShared`), and the device's loop
is at the first entry that is its own (`LoopIsNext`). `SlotsDiffer` says that as
many indices in a row as the ring has slots fall on different slots, also across
the wrap, because a power of two divides a larger one. A publication, a push, a
take and a restart each have a lemma that maps them to a step of `ChainQueue`;
everything else stutters.

Most leaves follow by logic alone and are left to Zenon (`USE Zenon`). Those that
need arithmetic, sequences or functions name the SMT solver.

### Only model-checked

- Liveness (`RunsEnd`, `RequestsEnd`, `DevicesAnswer`): fairness and `ENABLED` are
  out of the prover's reach.
- The conjunctions that `MCControl`, `MCBoot`, `MCMachine`, `MCFs` and `MCDevices`
  check over several components at once (`ResultIsHonest`, `PanicIsOnRecord`,
  `LayoutIsSound`, `HvfIsExact`, `TreeIsSound`, `DevicesKeepFaith` and the like).
  The parts of `ResultIsHonest` that belong to `RunToStop` are proved there.
- `FsDirect`, `GuestMemory` and `Vsock`: they use `RECURSIVE` operators, in modules
  the prover cannot take.
- The other components: no proof has been attempted.

## Where code and comments part

`fs_sync_truncate` is a violation (`SyncReachesEverything`). OPEN with `O_TRUNC`
changes the host file without setting the dirty bit
(`devices/virtio/fs/server.rs:2983`), and so does the unlink of a tmpfile at its
close (`server.rs:3785`). A SYNCFS after the close then reports success and flushes
nothing. The comment on
`require_writable` (`server.rs:2611`) says "Every operation that changes the host
filesystem passes through here".

Elsewhere a constant or an instance leaves out a case in which the code does not
do what its comment says, so that the rest of the behaviour can be checked. The
properties are claimed without these cases only:

| Left out by | Case |
| --- | --- |
| `FsAttr` `HostFails` | a SETATTR that fails half-way keeps the cached owner (`server.rs:2606`) |
| `FsAttr` `HostUnlinks` | a failure to open an unlinked file by name is cached as "no attribute" (`server.rs:5113`) |
| `FsAttr` `CreateKnown` | CREATE of a name the host linked to a known file keeps the cached attribute (`server.rs:2948`) |
| `FsFiles` `Creates` (in the part `files`) | CREATE does not compare with `handle_limit` (`server.rs:2957`) |
| `DirCache` `HostRemovals` | mkdir of a directory the host removed leaves the dead one cached (`server.rs:4690`) |
| `RawTerm` `DuringEnable`, `Concurrent` | a fatal signal between publishing the settings and `tcsetattr`, or two at once, can leave the terminal raw (`terminal/raw.rs:54`, `:190`, `:208`) |
| `BuiltinPlugins` `IoWrites` | I/O threads write guest RAM during a dump (`plugin/builtin.rs:229`; `docs/plugins.md` says so) |
| `ExportSpec` `EmptyPaths` | an empty `path=` beside `socket=` is taken as a socket export (`config.rs:223`) |

Other comments claim more than the code does. The modules follow the code, and
their properties state what does hold:

- virtio-blk does not record a write that fails part-way, or one whose status byte
  is not in guest memory (`block.rs:620`). `CapturedIsTold` is about what the guest
  was told.
- The built-in network stack logs no flow for an ICMP message that is not an echo
  request, nor for a DNS message it cannot parse (`net.rs:981`).
- A vsock send that the client's close cuts short gives the guest no credit for the
  bytes the socket took before (`vsock.rs:806`). The host has gone then, and the
  guest is told so.
- A write to the gateway's blocking socket holds the device's lock, and a stop does
  not interrupt it (`net.rs:792`).
- A node whose only recorded path is unlinked becomes an orphan even if another
  link leads to the file (`server.rs:5002`). A socket's node does not survive FORGET
  (`server.rs:4948`), nor is its record moved with its directory (`server.rs:2736`).
  A tmpfile's node keeps its inode key until FORGET (`server.rs:3785`).
- A descriptor parked before an early FORGET outlives its node (`server.rs:4983`).
  An open of an orphan evicts nothing and so passes the budget (`server.rs:3144`).
  It shares its file description, and so its locks, with the handle it was copied
  from (`server.rs:3156`).
- The read-ahead's `skip` keeps the path of an entry a full queue dropped
  (`server.rs:677`). The directory cache compacts its queue only on a hit
  (`server.rs:5552`).
- A direct READ with less room than a reply header writes the part that fits
  (`server.rs:3290`). A parked lock request is answered on a queue that was taken
  down and set up again (`server.rs:1811`).
- The CMOS latch may refresh in the middle of a guest's read of the clock
  (`rtc_cmos.rs:106`).
- The HVF boot does not check an export's SPI against the controller's
  (`hvf/boot.rs:212`).

## Not modelled

- Encodings: the ledger's JSON, the bytes of devicetree, ACPI and MP tables beyond
  their places and lengths, the ELF and bzImage formats beyond what places them,
  and the splice of the kernel command line.
- The KVM backends' decoding of exits, CPUID leaves and initial registers.
- The reassembly of the gateway's byte stream: `Net` takes its frames whole.
- Several vsock sessions on one receive ring.
- The rules inside the seccomp and Seatbelt filters: `Boot` has which of hvi's own
  calls each filter lets through.
- The walk of a path through symbolic links below an export, and the search for
  the descriptor limit (`fs/fdlimit.rs`), whose result `FsFiles` takes as a constant.
- Weak memory: every atomic is sequentially consistent.
- The kernel, the framework, daemons, drivers and host processes are external. They
  appear as the steps the code relies on.

The components' notes in `PROJECT.json` have the rest.
