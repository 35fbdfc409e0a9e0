---------------------------- MODULE GuestMemory ----------------------------
(***************************************************************************)
(* Guest RAM (memory/guest.rs): regions of a shareable object mapped into    *)
(* the VMM and, from the regions it reports, into a plugin's process; the    *)
(* one place every access resolves its range, and the scan for a needle.     *)
(*                                                                         *)
(* Addresses are bytes of a small guest; ALIGN is two of them.               *)
(***************************************************************************)
EXTENDS Integers, Sequences, SequencesExt, FiniteSets

CONSTANTS
    Gpas, Sizes, Offsets,  \* what a caller may put in a region
    ObjectLen,             \* the length of the object
    AddressSpace,          \* the end of the guest-physical address space
    MaxRegions,            \* a bound on the regions of a list
    Needles,               \* the needles scanned for
    ScanCap                \* 64 in the code

ALIGN == 2
Bytes == {0, 1}

VARIABLES
    asked,                 \* the list of regions to map
    st,                    \* "asks", "maps", "mapped" or "refused"
    mapped,                \* GuestRamView::mapped
    object                 \* the bytes of the object

vars == <<asked, st, mapped, object>>

Region(g, s, o) == [gpa |-> g, size |-> s, file_offset |-> o]

-----------------------------------------------------------------------------
(* Mapping. *)

\* RamRegion::map: whether this region of the object can be mapped.
CanMap(r) ==
    /\ r.size # 0
    /\ r.gpa % ALIGN = 0 /\ r.size % ALIGN = 0 /\ r.file_offset % ALIGN = 0
    /\ r.file_offset + r.size <= ObjectLen
    /\ r.gpa + r.size <= AddressSpace

\* sort_by_key, which keeps equal keys in order.
Sorted(list) == SortSeq(list, LAMBDA r, s : r.gpa < s.gpa)

\* GuestMemoryMmap::from_arc_regions refuses an overlap and an empty list of
\* the sorted regions.
Disjoint(list) ==
    /\ list # <<>>
    /\ \A i \in 1..(Len(list) - 1) : list[i].gpa + list[i].size <= list[i + 1].gpa

\* Mutant of Collected: the mappings stay in the order they came.
CollectedAsAsked(list) == list

\* The order of the collection.
Collected(list) == Sorted(list)

Init ==
    /\ asked = <<>> /\ st = "asks" /\ mapped = <<>>
    /\ object \in [0..(ObjectLen - 1) -> Bytes]

Asks ==
    /\ st = "asks" /\ Len(asked) < MaxRegions
    /\ \E g \in Gpas, s \in Sizes, o \in Offsets : asked' = Append(asked, Region(g, s, o))
    /\ UNCHANGED <<st, mapped, object>>

\* GuestRam::new and GuestRamView::map: one region that cannot be mapped refuses
\* the list.
Maps ==
    /\ st = "asks"
    /\ IF (\A i \in 1..Len(asked) : CanMap(asked[i])) /\ Disjoint(Sorted(asked))
       THEN mapped' = Collected(asked) /\ st' = "mapped"
       ELSE mapped' = mapped /\ st' = "refused"
    /\ UNCHANGED <<asked, object>>

Next == Asks \/ Maps \/ (st \in {"mapped", "refused"} /\ UNCHANGED vars)

Spec == Init /\ [][Next]_vars

-----------------------------------------------------------------------------
(* Access. *)

Holds(r, gpa, len) == gpa >= r.gpa /\ gpa - r.gpa + len <= r.size

\* slice: the first region that holds the range, 0 for none.
Slice(gpa, len) == SelectInSeq(mapped, LAMBDA r : Holds(r, gpa, len))

\* Where byte `gpa` is in the object, by the mapping Slice found.
InObject(gpa, i) == mapped[i].file_offset + (gpa - mapped[i].gpa)

\* read
Read(gpa, len) ==
    LET i == Slice(gpa, len) IN
    IF i = 0 THEN <<>> ELSE [k \in 1..len |-> object[InObject(gpa + k - 1, i)]]

\* A match is skipped over.
Skip(needle) == Len(needle)

\* scan, from byte k of region i on.
RECURSIVE Scan(_, _, _, _)
Scan(needle, i, k, out) ==
    IF i > Len(mapped) \/ Len(out) >= ScanCap THEN out
    ELSE IF k + Len(needle) > mapped[i].size THEN Scan(needle, i + 1, 0, out)
    ELSE IF \A j \in 1..Len(needle) : object[mapped[i].file_offset + k + j - 1] = needle[j]
         THEN Scan(needle, i, k + Skip(needle), Append(out, mapped[i].gpa + k))
         ELSE Scan(needle, i, k + 1, out)

-----------------------------------------------------------------------------
(* Properties. *)

\* The one region of the list asked for that has byte a, whatever its order.
Owner(a) == {i \in 1..Len(asked) : asked[i].gpa <= a /\ a < asked[i].gpa + asked[i].size}

\* An access reads the bytes of the region that was asked for at its address, and
\* is refused exactly when some byte of it is no RAM or it runs from one region
\* into the next, even into one right after it.
ReadsWhatWasMapped ==
    st = "mapped" =>
        \A gpa \in 0..AddressSpace, len \in 1..4 :
            LET owners == {Owner(a) : a \in gpa..(gpa + len - 1)} IN
            IF Cardinality(owners) = 1 /\ owners # {{}}
            THEN /\ Slice(gpa, len) # 0
                 /\ \E i \in 1..Len(asked) : owners = {{i}} /\ \A k \in 1..len :
                       Read(gpa, len)[k] = object[asked[i].file_offset + gpa + k - 1 - asked[i].gpa]
            ELSE Slice(gpa, len) = 0

\* A plugin that maps the regions the VMM reports has the same list: the regions
\* are in address order, so mapping them again changes nothing.
ViewAgrees == st = "mapped" => Collected(mapped) = mapped /\ Sorted(mapped) = mapped

\* Every address the scan reports reads back the needle, and unless the cap was
\* reached every other place with the needle overlaps a reported one before it.
\* No two reports overlap.
ScanFindsMatches ==
    st = "mapped" =>
        \A needle \in Needles :
            LET out == Scan(needle, 1, 0, <<>>)
                n == Len(needle) IN
            /\ \A i \in 1..Len(out) : Read(out[i], n) = needle
            /\ \A i, j \in 1..Len(out) : i < j => out[i] + n <= out[j]
            /\ Len(out) < ScanCap =>
                  \A a \in 0..AddressSpace :
                      (Slice(a, n) # 0 /\ Read(a, n) = needle) =>
                          \E i \in 1..Len(out) : out[i] <= a /\ a < out[i] + n
=============================================================================
