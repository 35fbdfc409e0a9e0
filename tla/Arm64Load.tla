----------------------------- MODULE Arm64Load -----------------------------
(***************************************************************************)
(* The three images of an arm64 boot: Payload::load and LoadedKernel        *)
(* (arch/aarch64/loader.rs), the layout they share (GuestLayout in          *)
(* arch/aarch64/layout.rs) and the devicetree's record of it                *)
(* (arch/aarch64/fdt.rs).  The devicetree's length decides where the        *)
(* initramfs goes, and the devicetree says where that is.                   *)
(*                                                                         *)
(* Addresses are offsets in RAM, in units smaller than a page.              *)
(***************************************************************************)
EXTENDS Naturals, Sequences

CONSTANTS
    RamSizes,              \* sizes of guest RAM
    Images,                \* kernels: file length, text_offset, image_size
    Initrds,               \* initramfs lengths; 0 for none
    TreeLengths,           \* lengths of a devicetree that names no initramfs
    TreeInitrd,            \* what naming an initramfs adds
    KernelAlign, Page,     \* KERNEL_ALIGN and 0x1000
    LegacyOffset,          \* LEGACY_TEXT_OFFSET
    Provisional,           \* PROVISIONAL_DTB_SIZE
    MaxTree                \* the boot protocol's 2 MiB

VARIABLES
    ram,                   \* who wrote each unit of RAM last
    image, initrd, tree,   \* the inputs of this boot
    kernel,                \* LoadedKernel: address and size
    layout,                \* GuestLayout, with the devicetree planned for it
    st                     \* the step Payload::load is at, "booted" or "failed"

vars == <<ram, image, initrd, tree, kernel, layout, st>>

None == [addr |-> 0, size |-> 0]
RamSize == Len(ram)

-----------------------------------------------------------------------------
(* GuestLayout. *)

\* align_up
AlignUp(v, align) == ((v + align - 1) \div align) * align

Larger(a, b) == IF a > b THEN a ELSE b

\* from_header: the room the header asks for.
KernelRoom(i) == Larger(i.size, i.file)

\* from_header
FromHeader(i) ==
    [addr |-> IF i.size = 0 THEN LegacyOffset ELSE i.offset, size |-> KernelRoom(i)]

\* GuestLayout::new
NewLayout(k, dtb_size, initrd_size) ==
    LET dtb == AlignUp(k.addr + k.size, KernelAlign) IN
    [dtb_addr |-> dtb, dtb_size |-> dtb_size,
     initrd_addr |-> AlignUp(dtb + dtb_size, Page), initrd_size |-> initrd_size]

\* initrd_end
InitrdEnd(l) ==
    IF l.initrd_size = 0 THEN l.initrd_addr
    ELSE AlignUp(l.initrd_addr + l.initrd_size, Page)

\* top
Top(l) == InitrdEnd(l)

\* validate
Valid(l) == Top(l) <= RamSize

\* fdt::build: how long the blob is, and the initramfs it names.
Build(l) ==
    [len |-> tree + (IF l.initrd_size # 0 THEN TreeInitrd ELSE 0),
     range |-> IF l.initrd_size # 0 THEN <<l.initrd_addr, InitrdEnd(l)>> ELSE <<>>]

\* Mutant of Planned: the blob of the provisional layout is kept.
PlannedOnce(first, l) == first

Planned(first, l) == Build(l)

\* plan: the blob is built for a provisional slot, and again at the layout its
\* length gives.
Plan(k, initrd_size) ==
    LET first == Build(NewLayout(k, Provisional, initrd_size))
        l == NewLayout(k, first.len, initrd_size)
    IN  [layout |-> l, dtb |-> Planned(first, l)]

-----------------------------------------------------------------------------
(* Payload::load. *)

Init ==
    /\ \E n \in RamSizes : ram = [a \in 1..n |-> "zero"]
    /\ image \in Images /\ initrd \in Initrds /\ tree \in TreeLengths
    /\ kernel = None /\ layout = None /\ st = "kernel"

\* Units from .. from + len - 1 of RAM, which counts from 0, now hold `what`.
Written(what, from, len) ==
    [a \in 1..RamSize |-> IF a - 1 >= from /\ a - 1 < from + len THEN what ELSE ram[a]]
InRam(from, len) == from + len <= RamSize

\* LoadedKernel::load: PE::load copies the file where from_header says.
LoadsKernel ==
    /\ st = "kernel"
    /\ kernel' = FromHeader(image)
    /\ IF InRam(kernel'.addr, image.file)
       THEN ram' = Written("kernel", kernel'.addr, image.file) /\ st' = "plan"
       ELSE ram' = ram /\ st' = "failed"
    /\ UNCHANGED <<image, initrd, tree, layout>>

Plans ==
    /\ st = "plan"
    /\ layout' = Plan(kernel, initrd)
    /\ st' = IF Valid(layout'.layout) THEN "dtb" ELSE "failed"
    /\ UNCHANGED <<ram, image, initrd, tree, kernel>>

\* write_dtb
WritesDtb ==
    /\ st = "dtb"
    /\ IF layout.dtb.len <= MaxTree /\ InRam(layout.layout.dtb_addr, layout.dtb.len)
       THEN /\ ram' = Written("dtb", layout.layout.dtb_addr, layout.dtb.len)
            /\ st' = IF initrd = 0 THEN "booted" ELSE "initrd"
       ELSE ram' = ram /\ st' = "failed"
    /\ UNCHANGED <<image, initrd, tree, kernel, layout>>

WritesInitrd ==
    /\ st = "initrd"
    /\ IF InRam(layout.layout.initrd_addr, initrd)
       THEN ram' = Written("initrd", layout.layout.initrd_addr, initrd) /\ st' = "booted"
       ELSE ram' = ram /\ st' = "failed"
    /\ UNCHANGED <<image, initrd, tree, kernel, layout>>

Done == st \in {"booted", "failed"} /\ UNCHANGED vars

Next == LoadsKernel \/ Plans \/ WritesDtb \/ WritesInitrd \/ Done

Spec == Init /\ [][Next]_vars

-----------------------------------------------------------------------------
(* Properties. *)

Held(what) == {a \in 1..RamSize : ram[a] = what}

\* A guest that boots has every unit of each image, and the room the kernel's
\* header claims past its file, BSS included, holds nothing else.
ImagesAreWhole ==
    st = "booted" =>
        /\ Held("kernel") = (kernel.addr + 1)..(kernel.addr + image.file)
        /\ Held("initrd") = IF initrd = 0 THEN {}
                            ELSE (layout.layout.initrd_addr + 1)..(layout.layout.initrd_addr + initrd)
        /\ Held("dtb") = (layout.layout.dtb_addr + 1)..(layout.layout.dtb_addr + layout.dtb.len)
        /\ \A a \in (kernel.addr + image.file + 1)..(kernel.addr + Larger(image.size, image.file)) :
              a <= RamSize => ram[a] = "zero"

\* The initramfs the devicetree names is where the initramfs was written, in
\* whole pages of RAM whose padding nothing wrote.
TreeNamesTheInitrd ==
    st = "booted" =>
        IF initrd = 0 THEN layout.dtb.range = <<>>
        ELSE LET from == layout.dtb.range[1]  to == layout.dtb.range[2] IN
             /\ from % Page = 0 /\ to % Page = 0 /\ to <= RamSize
             /\ \A a \in (from + 1)..to : ram[a] = IF a <= from + initrd THEN "initrd" ELSE "zero"
=============================================================================
