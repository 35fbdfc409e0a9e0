----------------------------- MODULE Placement -----------------------------
(***************************************************************************)
(* Where the guest finds its devices: the windows and interrupt lines of    *)
(* arch/*/layout.rs as a boot hands them out, what the devicetree and the   *)
(* DSDT tell the guest, and where an exit at an address is sent.            *)
(*                                                                         *)
(* Addresses count virtio windows of 0x200 bytes, so a window of a virtio   *)
(* device is one address.  `lines` are SPIs on arm64 and GSIs on x86-64.    *)
(***************************************************************************)
EXTENDS Integers, FiniteSets, Sequences

CONSTANTS
    Backends,              \* of "kvm3", "kvm2" (vGICv3, vGICv2), "hvf", "x86"
    Vcpus,                 \* the vCPU counts a boot may ask for
    HvfGicr,               \* the redistributor sizes Hypervisor.framework may report
    MaxDisks,              \* MAX_DISKS
    MaxShares,             \* a bound on the exports a boot asks for
    NumIrqs,               \* GIC_NUM_IRQS
    IoapicInputs,          \* IOAPIC_INPUTS
    DeviceBase, RamBase,   \* DEVICE_WINDOW_BASE, and RAM_BASE, where it ends
    GicrBase, Frame,       \* QEMU_VIRT's gicr_base and gicr_size
    GiccEnd,               \* where QEMU_VIRT_V2's CPU interface ends
    UartBase, Page,        \* UART_BASE, and its size and the RTC's
    ArmVirtio,             \* VIRTIO_BASE of arm64
    X86Virtio, X86HoleEnd  \* VIRTIO_MMIO_BASE of x86-64 and its first address past

PlacementAssumption ==
    /\ MaxDisks \in Nat \ {0} /\ NumIrqs \in Nat /\ IoapicInputs \in Nat
    /\ {DeviceBase, RamBase, GicrBase, Frame, GiccEnd, UartBase, Page, ArmVirtio,
        X86Virtio, X86HoleEnd} \subseteq Nat
    /\ Vcpus \subseteq Nat \ {0} /\ HvfGicr \subseteq Nat
    /\ Frame > 0 /\ Page > 0
    /\ DeviceBase < GicrBase /\ GicrBase < UartBase /\ GiccEnd < UartBase
    /\ UartBase + 2 * Page <= ArmVirtio
    /\ MaxShares \in Nat

VARIABLES
    backend,
    vcpus,
    gic,                   \* where the GIC's second region ends (0 on x86-64)
    disks, net, vsock,     \* the devices placed so far
    exports,               \* base and line of each export, in order
    st                     \* "gic", "places", "boots" or "refused"

vars == <<backend, vcpus, gic, disks, net, vsock, exports, st>>

-----------------------------------------------------------------------------
(* The layout. *)

Base == IF backend = "x86" THEN X86Virtio ELSE ArmVirtio
NetBase == Base + 1
VsockBase == Base + 2
FsBase == Base + 3 + (MaxDisks - 1)

\* virtio_blk_base
BlkBase(i) == IF i = 0 THEN Base ELSE Base + 3 + (i - 1)

\* virtio_fs_base
ExportBase(i) == FsBase + i

\* The first line of the virtio devices: VIRTIO_SPI, VIRTIO_BLK_GSI.
Line == IF backend = "x86" THEN 5 ELSE 2
\* VIRTIO_BLK_EXTRA_SPI, VIRTIO_BLK_EXTRA_GSI: x86-64 leaves out line 8.
ExtraLine == IF backend = "x86" THEN 9 ELSE 5

\* virtio_blk_spi, virtio_blk_gsi
BlkLine(i) == IF i = 0 THEN Line ELSE ExtraLine + (i - 1)

\* virtio_fs_spi, virtio_fs_gsi
ExportLine(i) == ExtraLine + MaxDisks - 1 + i

\* UART_SPI, COM1_GSI; the RTC of a PC and the system control interrupt have
\* a line too.
UartLine == IF backend = "x86" THEN 4 ELSE 1
SciGsi == IoapicInputs - 1
FixedLines == IF backend = "x86" THEN {0, 1, 2, 8, SciGsi} ELSE {}

V2MaxCpus == 8
V3MaxCpus == (UartBase - GicrBase) \div Frame

\* for_vcpus
CpusFit(n) == n <= IF backend = "kvm2" THEN V2MaxCpus ELSE V3MaxCpus

\* Mutant of LinesFit: an export past the interrupt controller is placed.
LinesFitOneMore(i) == 32 + ExportLine(i) <= NumIrqs

\* place_virtio_fs is given the number of interrupts by KVM's boot only;
\* virtio_fs_gsi has a line for MAX_FS_DEVICES exports.
LinesFit(i) ==
    CASE backend = "x86" -> ExportLine(i) < SciGsi
      [] backend = "hvf" -> TRUE
      [] OTHER -> 32 + ExportLine(i) < NumIrqs

\* The bounds a window is placed between on arm64.
Between(base, size) == gic <= base /\ base + size <= RamBase

-----------------------------------------------------------------------------
(* A boot. *)

Init ==
    /\ backend \in Backends /\ vcpus \in Vcpus
    /\ gic = 0 /\ disks = 0 /\ net = FALSE /\ vsock = FALSE
    /\ exports = <<>> /\ st = "gic"

\* Vgic and for_vcpus on KVM; the size the framework gives on HVF.
PlacesGic ==
    /\ st = "gic"
    /\ \/ /\ backend = "x86" /\ gic' = 0 /\ st' = "places"
       \/ /\ backend \in {"kvm2", "kvm3"} /\ ~CpusFit(vcpus)
          /\ gic' = 0 /\ st' = "refused"
       \/ /\ backend = "kvm3" /\ CpusFit(vcpus)
          /\ gic' = GicrBase + vcpus * Frame /\ st' = "places"
       \/ /\ backend = "kvm2" /\ CpusFit(vcpus)
          /\ gic' = GiccEnd /\ st' = "places"
       \/ /\ backend = "hvf"
          /\ \E size \in HvfGicr : gic' = GicrBase + size
          /\ st' = "places"
    /\ UNCHANGED <<backend, vcpus, disks, net, vsock, exports>>

\* open_disks refuses more than MAX_DISKS.
AddsDisk ==
    /\ st = "places" /\ exports = <<>> /\ ~net /\ ~vsock
    /\ IF disks < MaxDisks THEN disks' = disks + 1 /\ st' = st
                           ELSE disks' = disks /\ st' = "refused"
    /\ UNCHANGED <<backend, vcpus, gic, net, vsock, exports>>

AddsNet ==
    /\ st = "places" /\ exports = <<>> /\ ~net /\ ~vsock
    /\ net' = TRUE
    /\ UNCHANGED <<backend, vcpus, gic, disks, vsock, exports, st>>

AddsVsock ==
    /\ st = "places" /\ exports = <<>> /\ ~vsock
    /\ vsock' = TRUE
    /\ UNCHANGED <<backend, vcpus, gic, disks, net, exports, st>>

\* The placement check of the fixed windows on HVF and of an export on arm64.
Fits(base, size) == backend = "x86" \/ Between(base, size)

\* place_virtio_fs, virtio_fs_base and virtio_fs_gsi
AddsExport ==
    /\ st = "places" /\ Len(exports) < MaxShares
    /\ LET i == Len(exports) IN
       IF Fits(ExportBase(i), 1) /\ LinesFit(i)
       THEN exports' = Append(exports, <<ExportBase(i), ExportLine(i)>>) /\ st' = st
       ELSE exports' = exports /\ st' = "refused"
    /\ UNCHANGED <<backend, vcpus, gic, disks, net, vsock>>

\* Only HVF's boot checks the fixed windows: all of them, whether or not the
\* guest has the device.  It does so before it places an export, and a boot that
\* fails either check is refused.
FixedFit ==
    \/ backend # "hvf"
    \/ /\ Fits(UartBase, Page) /\ Fits(UartBase + Page, Page)
       /\ Fits(NetBase, 1) /\ Fits(VsockBase, 1)
       /\ \A i \in 0..(disks - 1) : Fits(BlkBase(i), 1)

Boots ==
    /\ st = "places"
    /\ st' = IF FixedFit THEN "boots" ELSE "refused"
    /\ UNCHANGED <<backend, vcpus, gic, disks, net, vsock, exports>>

Next ==
    \/ PlacesGic \/ AddsDisk \/ AddsNet \/ AddsVsock \/ AddsExport \/ Boots
    \/ st \in {"boots", "refused"} /\ UNCHANGED vars

Spec == Init /\ [][Next]_vars

-----------------------------------------------------------------------------
(* What the guest is told, and what serves it. *)

DeviceAt(name, base, size, line) ==
    [name |-> name, base |-> base, size |-> size, line |-> line]

\* Mutant of ToldExports: the tables describe an export for every one asked.
ToldExportsAsked ==
    {DeviceAt(<<"fs", i>>, ExportBase(i), 1, ExportLine(i)) : i \in 0..Len(exports)}

\* fdt::build counts the exports, mmio_devices takes them as placed.
ToldExports ==
    {DeviceAt(<<"fs", i>>, ExportBase(i), 1, ExportLine(i)) : i \in 0..(Len(exports) - 1)}

\* The nodes of the devicetree, the devices of the DSDT.
Told ==
    (IF backend = "x86" THEN {}
     ELSE {DeviceAt(<<"uart", 0>>, UartBase, Page, UartLine),
           DeviceAt(<<"rtc", 0>>, UartBase + Page, Page, -1)})
    \cup {DeviceAt(<<"blk", i>>, BlkBase(i), 1, BlkLine(i)) : i \in 0..(disks - 1)}
    \cup (IF net THEN {DeviceAt(<<"net", 0>>, NetBase, 1, Line + 1)} ELSE {})
    \cup (IF vsock THEN {DeviceAt(<<"vsock", 0>>, VsockBase, 1, Line + 2)} ELSE {})
    \cup ToldExports

Nobody == <<"nobody", 0>>

ExportAt(a) == {i \in 1..Len(exports) : exports[i][1] = a}
DiskAt(a) == {i \in 0..(disks - 1) : BlkBase(i) = a}

\* mmio_read, mmio_write, on_mmio_write and handle_exit: who gets an access at
\* address `a`.
Serves(a) ==
    CASE backend # "x86" /\ a \in UartBase..(UartBase + Page - 1) -> <<"uart", 0>>
      [] backend # "x86" /\ a \in (UartBase + Page)..(UartBase + 2 * Page - 1) -> <<"rtc", 0>>
      [] DiskAt(a) # {} -> <<"blk", CHOOSE i \in DiskAt(a) : \A j \in DiskAt(a) : i <= j>>
      [] DiskAt(a) = {} /\ a = NetBase -> IF net THEN <<"net", 0>> ELSE Nobody
      [] DiskAt(a) = {} /\ a = VsockBase -> IF vsock THEN <<"vsock", 0>> ELSE Nobody
      [] DiskAt(a) = {} /\ a \notin {NetBase, VsockBase} /\ ExportAt(a) # {} ->
            <<"fs", (CHOOSE i \in ExportAt(a) : \A j \in ExportAt(a) : i <= j) - 1>>
      [] OTHER -> Nobody

-----------------------------------------------------------------------------
(* Properties of a guest that boots. *)

Apart(d, e) == d.base + d.size <= e.base \/ e.base + e.size <= d.base

\* No two windows overlap, and each lies between the interrupt controller and
\* RAM on arm64 and in the hole below 4 GiB on x86-64, for any number of vCPUs,
\* disks and exports.
WindowsApart ==
    st = "boots" =>
        /\ \A d, e \in Told : d = e \/ Apart(d, e)
        /\ \A d \in Told :
              IF backend = "x86" THEN X86Virtio <= d.base /\ d.base + d.size <= X86HoleEnd
              ELSE gic <= d.base /\ d.base + d.size <= RamBase

\* No two devices share an interrupt line or take one of the platform's.
LinesApart ==
    st = "boots" =>
        /\ \A d, e \in Told : d = e \/ d.line # e.line
        /\ \A d \in Told : d.line \notin FixedLines
        /\ backend = "x86" => \A d \in Told : d.line < IoapicInputs /\ d.line # UartLine

\* An access to any address of a window the guest was told of reaches that
\* device, and one elsewhere among the windows reaches none.
ServesWhatItTold ==
    st = "boots" =>
        /\ \A d \in Told : \A a \in {d.base, d.base + d.size - 1} : Serves(a) = d.name
        /\ \A a \in (Base - 1)..(FsBase + MaxShares) :
              (\A d \in Told : a # d.base) => Serves(a) = Nobody

\* On KVM every line the guest was told of is one the interrupt controller has.
KvmLinesExist ==
    st = "boots" /\ backend \in {"kvm2", "kvm3"} => \A d \in Told : 32 + d.line < NumIrqs

=============================================================================
