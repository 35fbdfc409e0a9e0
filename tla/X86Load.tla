------------------------------ MODULE X86Load ------------------------------
(***************************************************************************)
(* What an x86-64 boot writes in guest RAM before the guest runs: the       *)
(* kernel, its zero page with the e820 map, the command line and the        *)
(* initramfs (arch/x86_64/loader.rs), the MP table (mptable.rs), the ACPI   *)
(* tables (acpi.rs), the page tables and the GDT (kvm/regs.rs), around the  *)
(* MMIO hole (kvm/boot.rs and layout.rs).                                   *)
(*                                                                         *)
(* Addresses are in KiB; the tables' own lengths are in bytes.              *)
(***************************************************************************)
EXTENDS Naturals, Sequences, FiniteSets, SequencesExt

CONSTANTS
    MemSizes,              \* guest RAM, in KiB
    Kernels,               \* format, load address, end and init_size
    Initrds,               \* initramfs lengths; 0 for none
    CpuCounts, DevCounts,  \* vCPUs and virtio devices
    DsdtHead, DsdtDevice   \* bytes of a DSDT with no device, and of each device

VARIABLES
    mem, kernel, initrd, cpus, devs,   \* the inputs of this boot
    ram,                   \* the regions of guest RAM: <<start, end>>
    e820,                  \* the entries of the e820 map
    wrote,                 \* what was written: name -> <<start, end>>
    st                     \* the step, "booted" or "refused"

vars == <<mem, kernel, initrd, cpus, devs, ram, e820, wrote, st>>

-----------------------------------------------------------------------------
(* The layout. *)

ZERO_PAGE == 28
CMDLINE_ADDR == 128
CMDLINE_MAX == 64
EBDA_START == 639
ACPI_ADDR == 896
PML4_ADDR == 36
PDPT_ADDR == 40
GDT_ADDR == 48
HIGH_MEM_START == 1024
MMIO_GAP_START == 3407872
HIGH_RAM_BASE == 4194304
Align == 2048              \* the initramfs is 2 MiB-aligned

MAX_VCPUS == 254

Kib(bytes) == (bytes + 1023) \div 1024
Smaller(a, b) == IF a < b THEN a ELSE b
Larger(a, b) == IF a > b THEN a ELSE b

\* mptable::build: the pointer, the header, a processor entry per vCPU, the bus,
\* the IOAPIC and its 24 inputs.
MpTableLen(n) == 16 + 44 + 20 * n + 8 + 8 + 24 * 8

\* The ids the MP table and build_madt give the vCPUs and, last, the IOAPIC.
ApicIds(n) == [i \in 1..(n + 1) |-> (i - 1) % 256]

\* next_multiple_of
NextMultiple(at, align) == ((at + align - 1) \div align) * align

\* Tables::place
PlaceAt(bytes, align) == NextMultiple(bytes, align)

\* acpi::build: where each table is, with the RSDP first; every offset is where
\* the table was appended.
AcpiTables(n, d) ==
    LET dsdt == PlaceAt(36, 1)
        dsdt_end == dsdt + DsdtHead + d * DsdtDevice
        facs == PlaceAt(dsdt_end, 64)
        fadt == PlaceAt(facs + 64, 1)
        madt == PlaceAt(fadt + 276, 1)
        madt_end == madt + 44 + 8 * n + 12
        xsdt == PlaceAt(madt_end, 1)
    IN  [dsdt |-> <<dsdt, dsdt_end>>, facs |-> <<facs, facs + 64>>,
         fadt |-> <<fadt, fadt + 276>>, madt |-> <<madt, madt_end>>,
         xsdt |-> <<xsdt, xsdt + 36 + 2 * 8>>, rsdp |-> <<0, 36>>]
AcpiLen(n, d) == AcpiTables(n, d).xsdt[2]

-----------------------------------------------------------------------------
(* A boot. *)

Init ==
    /\ mem \in MemSizes /\ kernel \in Kernels /\ initrd \in Initrds
    /\ cpus \in CpuCounts /\ devs \in DevCounts
    /\ ram = <<>> /\ e820 = <<>> /\ wrote = <<>> /\ st = "ram"

\* GuestRam resolves a range to one region, or refuses it.
InOneRegion(from, len) ==
    \E i \in 1..Len(ram) : ram[i][1] <= from /\ from + len <= ram[i][2]

Put(name, from, len) == Append(wrote, [name |-> name, from |-> from, to |-> from + len])

\* Writes `name` and goes on to `next`, or ends the boot.
Writes(name, from, len, next) ==
    IF InOneRegion(from, len) THEN wrote' = Put(name, from, len) /\ st' = next
    ELSE wrote' = wrote /\ st' = "refused"

LowBytes(m) == Smaller(m, MMIO_GAP_START)

\* RAM, split around the hole; an empty guest has no region.
MapsRam ==
    /\ st = "ram"
    /\ LET low == LowBytes(mem) IN
       ram' = <<<<0, low>>>> \o
              (IF mem > low THEN <<<<HIGH_RAM_BASE, HIGH_RAM_BASE + mem - low>>>> ELSE <<>>)
    /\ st' = IF cpus > MAX_VCPUS THEN "refused" ELSE "kernel"
    /\ UNCHANGED <<mem, kernel, initrd, cpus, devs, e820, wrote>>

Same == UNCHANGED <<mem, kernel, initrd, cpus, devs, ram, e820>>

\* load_kernel: linux-loader refuses an image below 1 MiB or past RAM.
LoadsKernel ==
    /\ st = "kernel"
    /\ IF kernel.load < HIGH_MEM_START THEN wrote' = wrote /\ st' = "refused"
       ELSE Writes("kernel", kernel.load, kernel.end - kernel.load, "cmdline")
    /\ Same

LoadsCmdline == st = "cmdline" /\ Writes("cmdline", CMDLINE_ADDR, CMDLINE_MAX, "e820") /\ Same

LowEnd == ram[1][2]

\* Mutant of LowEntries: low RAM is one entry.
LowEntriesWhole == <<<<0, LowEnd>>>>

\* The entries of the region at address 0.
LowEntries ==
    <<<<0, Smaller(EBDA_START, LowEnd)>>>> \o
    (IF LowEnd > HIGH_MEM_START THEN <<<<HIGH_MEM_START, LowEnd>>>> ELSE <<>>)

\* add_e820 for each region; there are at most three.
DescribesRam ==
    /\ st = "e820"
    /\ e820' = LowEntries \o SubSeq(ram, 2, Len(ram))
    /\ st' = "zero_page"
    /\ UNCHANGED <<mem, kernel, initrd, cpus, devs, ram, wrote>>

\* Mutant of KernelRoom: the room a bzImage unpacks into is left out.
KernelRoomFile == kernel.end

KernelRoom == Larger(kernel.end, kernel.load + kernel.init_size)

\* saturating_sub and the mask.
InitrdAddr == (IF LowEnd < initrd THEN 0 ELSE ((LowEnd - initrd) \div Align) * Align)

\* The slot of the initramfs, then the zero page, which names it.
WritesZeroPage ==
    /\ st = "zero_page"
    /\ IF initrd > 0 /\ InitrdAddr < KernelRoom THEN wrote' = wrote /\ st' = "refused"
       ELSE Writes("zero_page", ZERO_PAGE, 4, "initrd")
    /\ Same

WritesInitrd ==
    /\ st = "initrd"
    /\ IF initrd = 0 THEN wrote' = wrote /\ st' = "mptable"
       ELSE Writes("initrd", InitrdAddr, initrd, "mptable")
    /\ Same

WritesMpTable ==
    st = "mptable" /\ Writes("mptable", EBDA_START, Kib(MpTableLen(cpus)), "acpi") /\ Same

WritesAcpi ==
    st = "acpi" /\ Writes("acpi", ACPI_ADDR, Kib(AcpiLen(cpus, devs)), "pages") /\ Same

\* write_boot_page_tables and write_boot_gdt
WritesTables ==
    /\ \/ st = "pages" /\ Writes("pml4", PML4_ADDR, 1, "pdpt")
       \/ st = "pdpt" /\ Writes("pdpt", PDPT_ADDR, 1, "gdt")
       \/ st = "gdt" /\ Writes("gdt", GDT_ADDR, 1, "booted")
    /\ Same

Done == st \in {"booted", "refused"} /\ UNCHANGED vars

Next ==
    \/ MapsRam \/ LoadsKernel \/ LoadsCmdline \/ DescribesRam \/ WritesZeroPage
    \/ WritesInitrd \/ WritesMpTable \/ WritesAcpi \/ WritesTables \/ Done

Spec == Init /\ [][Next]_vars

-----------------------------------------------------------------------------
(* Properties of a guest that boots. *)

Overlap(a, b, c, d) == a < d /\ c < b
\* How much the ranges hold between them.
Span(ranges) == FoldSeq(LAMBDA r, n : n + r[2] - r[1], 0, ranges)

\* What the boot wrote is whole: no later write touched it, and the initramfs
\* leaves the kernel the room it unpacks into.
NothingOverlaps ==
    st = "booted" =>
        \A i, j \in 1..Len(wrote) : i < j =>
            ~Overlap(wrote[i].from,
                     IF wrote[i].name = "kernel" /\ wrote[j].name = "initrd"
                     THEN Larger(wrote[i].to, kernel.load + kernel.init_size) ELSE wrote[i].to,
                     wrote[j].from, wrote[j].to)

\* The e820 map names RAM only, each KiB of it once, all but the EBDA and the BIOS
\* area, which hold the MP table and the ACPI tables, and nothing in the MMIO hole.
E820IsRam ==
    st = "booted" =>
        /\ \A i \in 1..Len(e820) : \E r \in 1..Len(ram) :
              ram[r][1] <= e820[i][1] /\ e820[i][2] <= ram[r][2]
        /\ \A i \in 1..Len(e820) :
              /\ ~Overlap(e820[i][1], e820[i][2], MMIO_GAP_START, HIGH_RAM_BASE)
              /\ \A w \in 1..Len(wrote) : wrote[w].name \in {"mptable", "acpi"} =>
                    ~Overlap(e820[i][1], e820[i][2], wrote[w].from, wrote[w].to)
        /\ \A i, j \in 1..Len(e820) :
              i < j => ~Overlap(e820[i][1], e820[i][2], e820[j][1], e820[j][2])
        /\ Span(e820) = Span(ram) - (HIGH_MEM_START - EBDA_START)

\* The ACPI tables do not overlap, the FACS is 64-byte aligned, and the last
\* ends in the BIOS area.
AcpiTablesApart ==
    st = "booted" =>
        LET t == AcpiTables(cpus, devs) IN
        /\ \A x, y \in DOMAIN t : x = y \/ ~Overlap(t[x][1], t[x][2], t[y][1], t[y][2])
        /\ (ACPI_ADDR * 1024 + t.facs[1]) % 64 = 0
        /\ ACPI_ADDR + Kib(AcpiLen(cpus, devs)) <= HIGH_MEM_START

\* Every vCPU and the IOAPIC has an APIC id of its own, and none the broadcast
\* id, for any count the boot takes.
ApicIdsApart ==
    st = "booted" =>
        /\ Cardinality({ApicIds(cpus)[i] : i \in 1..(cpus + 1)}) = cpus + 1
        /\ \A i \in 1..(cpus + 1) : ApicIds(cpus)[i] # 255
=============================================================================
