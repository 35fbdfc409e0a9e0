----------------------------- MODULE MCMachine ------------------------------
(***************************************************************************)
(* The machine while it runs, for TLC: the built-in plugins, the vCPUs and *)
(* the exits of Hypervisor.framework, the console's filter and the small   *)
(* devices. They share no state here, so a behaviour is of one of them,    *)
(* `part`, and the variables of the others rest.                           *)
(***************************************************************************)
EXTENDS BuiltinPlugins

CONSTANTS Parts

VARIABLES part, running2, handles, vcpu2, pending2, mbox, holder, pc, entry, call, stopper,
          todo, ons, kicks, asked, regs, pcs, dev, outcome, mbox2, exits, insn, before, filter,
          terminal, ideal, acts, kind, dev2, driver

Hvf == INSTANCE HvfVcpus
    WITH N <- 3, Entries <- {"e", "f"}, MaxOns <- 1, MaxKicks <- 1, running <- running2,
         vcpu <- vcpu2, pending <- pending2
Exits == INSTANCE HvfExits
    WITH Regs <- {0, 1, 30, 31}, MaxTarget <- 530, Bases <- {0, 65536, 16777216}, NumCpus <- 20,
         MaxExits <- 1, mbox <- mbox2
Two == INSTANCE HvfExits
    WITH Regs <- {0, 1, 30, 31}, MaxTarget <- 3, Bases <- {0, 65536, 16777216}, NumCpus <- 20,
         MaxExits <- 2, mbox <- mbox2
Filter == INSTANCE ConsoleFilter
    WITH MAX_SEQ <- 6
Legacy == INSTANCE LegacyDevices
    WITH Kinds <- {"com1", "pl011", "cmos", "calendar", "pm"}, RxCap <- 2, RX_CAP <- 3,
         MaxPush <- 5, MaxSend <- 2, MaxPolled <- 2, LATCH_MAX_AGE <- 2, SecTicks <- 4,
         MaxTime <- 10, Values <- {0, 1}, Bytes <- {0, 1, 32, 52}, MaxWidth <- 2,
         LastDay <- 47600, dev <- dev2, guest <- driver

\* The variables by the components that have them, and their value in the parts
\* that have not.
ofHvfVcpus == <<running2, handles, vcpu2, pending2, mbox, holder, pc, entry, call, stopper,
                todo, ons, kicks, asked>>
NoHvfVcpus == running2 = 0 /\ handles = 0 /\ vcpu2 = 0 /\ pending2 = 0 /\ mbox = 0 /\
    holder = 0 /\ pc = 0 /\ entry = 0 /\ call = 0 /\ stopper = 0 /\ todo = 0 /\ ons = 0 /\
    kicks = 0 /\ asked = 0
ofHvfExits == <<regs, pcs, dev, outcome, mbox2, exits, insn, before>>
NoHvfExits == regs = 0 /\ pcs = 0 /\ dev = 0 /\ outcome = 0 /\ mbox2 = 0 /\ exits = 0 /\
    insn = 0 /\ before = 0
ofConsoleFilter == <<filter, terminal, ideal, acts>>
NoConsoleFilter == filter = 0 /\ terminal = 0 /\ ideal = 0 /\ acts = 0
ofLegacyDevices == <<kind, dev2, driver>>
NoLegacyDevices == kind = 0 /\ dev2 = 0 /\ driver = 0
all == <<part, vars, ofHvfVcpus, ofHvfExits, ofConsoleFilter, ofLegacyDevices>>

\* A step of one part leaves the variables of the others alone.
InBuiltinPlugins(p, A) == part = p /\ A /\ UNCHANGED <<part, ofHvfVcpus, ofHvfExits,
    ofConsoleFilter, ofLegacyDevices>>
InHvfVcpus(p, A) == part = p /\ A /\ UNCHANGED <<part, vars, ofHvfExits, ofConsoleFilter,
    ofLegacyDevices>>
InHvfExits(p, A) == part = p /\ A /\ UNCHANGED <<part, vars, ofHvfVcpus, ofConsoleFilter,
    ofLegacyDevices>>
InConsoleFilter(p, A) == part = p /\ A /\ UNCHANGED <<part, vars, ofHvfVcpus, ofHvfExits,
    ofLegacyDevices>>
InLegacyDevices(p, A) == part = p /\ A /\ UNCHANGED <<part, vars, ofHvfVcpus, ofHvfExits,
    ofConsoleFilter>>

MCInit ==
    /\ part \in Parts
    /\ \/ part = "plugins" /\ Init /\ NoHvfVcpus /\ NoHvfExits /\ NoConsoleFilter /\ NoLegacyDevices
       \/ part = "hvf" /\ Hvf!Init /\ Init /\ NoHvfExits /\ NoConsoleFilter /\ NoLegacyDevices
       \/ ((part = "exits" /\ Exits!Init) \/ (part = "two_exits" /\ Two!Init))
          /\ Init /\ NoHvfVcpus /\ NoConsoleFilter /\ NoLegacyDevices
       \/ part = "filter" /\ Filter!Init /\ Init /\ NoHvfVcpus /\ NoHvfExits /\ NoLegacyDevices
       \/ part = "legacy" /\ Legacy!Init /\ Init /\ NoHvfVcpus /\ NoHvfExits /\ NoConsoleFilter
MCNext == \/ InBuiltinPlugins("plugins", Next) \/ InHvfVcpus("hvf", Hvf!Next)
          \/ InHvfExits("exits", Exits!Next) \/ InHvfExits("two_exits", Two!Next)
          \/ InConsoleFilter("filter", Filter!Next) \/ InLegacyDevices("legacy", Legacy!Next)
MCSpec == MCInit /\ [][MCNext]_all

-----------------------------------------------------------------------------
(* Properties. *)

\* On Hypervisor.framework a kick reaches every vCPU it names, none of them
\* destroyed, and a secondary starts only where a CPU_ON for it asked.  An exit does
\* what the trapped instruction asked and no more: the access has its width, register
\* and value, the guest goes past it once, and CPU_ON starts the vCPU whose affinity
\* was given (HvfVcpus, handle_exit, esr).
HvfIsExact ==
    /\ part = "hvf" => Hvf!KickReaches /\ Hvf!StartsAsAsked
    /\ part = "exits" => Exits!AccessIsExact /\ Exits!PcGoesPastOnce /\ Exits!CpuOnNamesOne
    /\ part = "two_exits" => Two!AccessIsExact /\ Two!PcGoesPastOnce /\ Two!CpuOnNamesOne

\* What the guest prints cannot steer the host's terminal, and what it may show is
\* shown, wherever its output is cut (console filter).
ConsoleIsHarmless ==
    part = "filter" => /\ Filter!TerminalInGround /\ Filter!NothingHarmful
                       /\ Filter!ShowsTheConsole

\* The small devices keep to their hardware: a line that is high has an edge to
\* come or bytes to read, every byte sent to the PL011 is accounted for, the clock
\* is recent and follows the calendar, and a write stops the machine just when it
\* asks for that (uart16550, pl011, rtc_cmos, acpi_pm).
LegacyIsFaithful ==
    part = "legacy" => /\ Legacy!LinesAreHonest /\ Legacy!BytesAccountedFor
                       /\ Legacy!ClockIsRecent /\ Legacy!ClockFollowsCalendar
                       /\ Legacy!StopsAsAsked
=============================================================================
