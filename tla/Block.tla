------------------------------- MODULE Block --------------------------------
(***************************************************************************)
(* The virtio-blk device (devices/virtio/block.rs): one request of the     *)
(* guest against the backing image, the capture of its I/O, and the host   *)
(* below it.  The host caches what is written; a crash of the host leaves  *)
(* for each byte what reached the disk.                                    *)
(*                                                                         *)
(* A request is served under the device's lock and is one step; the vCPU   *)
(* that holds the lock takes what was captured and appends it to the       *)
(* ledger when it has let go of it (hypervisor/guest.rs).  A sector has    *)
(* SectorBytes bytes, and a word of the guest's is below WordSize, so that *)
(* a sector number can overflow the byte offset.                           *)
(***************************************************************************)
EXTENDS Integers, Sequences, FiniteSets, SequencesExt

CONSTANTS Capacity,      \* the size of the backing file in bytes
          SectorBytes,   \* SECTOR
          WordSize,      \* 2^64
          Values,        \* the values of a byte
          SectorNos,     \* the sectors requests are for
          SegLists,      \* the data segments of a request: sequences of lengths
          SerialLen,     \* SERIAL_LEN
          Vcpus,         \* how many threads serve the device, numbered from 1
          MaxRequests, MaxCrashes

VARIABLES
    readOnly,      \* VirtioBlk::read_only
    cache,         \* the image as the host has it cached
    stable,        \* the image as it is on the host's disk
    events,        \* VirtioBlk::events
    holder,        \* the vCPU that has the device's lock, or 0
    batch,         \* per vCPU, the events it took and has not yet appended
    \* What others have seen.
    ledger,        \* the events appended to the ledger
    last,          \* the last request and what the guest got for it
    \* History.
    view,          \* the values each byte may hold, by what the guest was told
    kept,          \* the values each byte may hold after a crash
    told,          \* the reads and writes told S_OK
    requests, crashes

image == <<readOnly, cache, stable>>
hist  == <<view, kept, told, crashes>>
capture == <<events, holder, batch, ledger>>
vars  == <<image, capture, last, hist, requests>>

Bytes == 0 .. Capacity - 1
Kinds == {"in", "out", "flush", "getid", "other", "unreadable"}
Shapes == {"whole", "noReadable", "noWritable"}
\* A bad segment is one that is not in guest memory; 0 is none.  Of a request
\* without data, only what it looks at varies.
Requests ==
    {r \in [typ : Kinds, shape : Shapes, sector : SectorNos, segs : SegLists,
            val : Values, badSeg : 0 .. 1, badStatus : BOOLEAN] :
        /\ r.typ \notin {"in", "out"} => \A s \in SectorNos : r.sector <= s
        /\ r.typ # "out" => \A v \in Values : r.val <= v
        /\ r.shape # "whole" => r.typ = "flush"}
NoRequest == [typ |-> "none", sector |-> 0, len |-> 0]

\* backing_len over SECTOR, rounded down.
CapacitySectors == Capacity \div SectorBytes

Init ==
    /\ readOnly \in BOOLEAN
    /\ \E v \in Values : cache = [b \in Bytes |-> v]
    /\ stable = cache
    /\ events = <<>> /\ ledger = <<>> /\ holder = 0 /\ batch = [v \in 1 .. Vcpus |-> <<>>]
    /\ last = [req |-> NoRequest, status |-> "untouched", used |-> 0, buf |-> <<>>]
    /\ view = [b \in Bytes |-> {cache[b]}] /\ kept = view
    /\ told = <<>> /\ requests = 0 /\ crashes = 0

-----------------------------------------------------------------------------
Total(segs) == FoldSeq(LAMBDA n, sum : n + sum, 0, segs)

\* Mutant of ByteRange: the offset wraps.
ByteRangeWraps(sector, len) ==
    LET base == (sector * SectorBytes) % WordSize
    IN  IF base + len <= CapacitySectors * SectorBytes THEN base ELSE -1

\* byte_range: the offset of a sector, or -1 when it overflows or the access
\* would leave the capacity.
ByteRange(sector, len) ==
    LET base == sector * SectorBytes
    IN  IF base < WordSize /\ base + len <= CapacitySectors * SectorBytes
        THEN base ELSE -1

\* scatter: the bytes written to the segments from a source of n bytes, or -1
\* when a segment is not in guest memory.
Scatter(r, n) ==
    IF r.badSeg \in 1 .. Len(r.segs) THEN -1
    ELSE IF Total(r.segs) < n THEN Total(r.segs) ELSE n

\* What the driver finds: the status byte, the length in the used ring and
\* what was read.  A read or a write it finds S_OK for is one it was told of.
Answer(r, status, used, buf) ==
    LET found == IF r.badStatus THEN "untouched" ELSE status
    IN  /\ last' = [req |-> [typ |-> r.typ, sector |-> r.sector, len |-> Total(r.segs)],
                    used |-> used, buf |-> buf, status |-> found]
        /\ told' = IF found = "ok" /\ r.typ \in {"in", "out"}
                   THEN Append(told, <<r.typ, r.sector, Total(r.segs)>>) ELSE told

\* The end of handle_chain for a request that failed: the status says so.
Failed(r) ==
    /\ Answer(r, "ioerr", 1, <<>>)
    /\ UNCHANGED events

\* Mutant of Capture: a request that was refused is captured too.
CaptureRefused(r, status) ==
    events' = IF r.typ \in {"in", "out"}
              THEN Append(events, <<r.typ, r.sector, Total(r.segs)>>) ELSE events

\* The end of handle_request: a read or a write that went through is captured.
Capture(r, status) ==
    events' = IF status = "ok" /\ r.typ \in {"in", "out"}
              THEN Append(events, <<r.typ, r.sector, Total(r.segs)>>) ELSE events

\* The status is written, which fails the request when it cannot be.
Complete(r, status, written, buf) ==
    IF r.badStatus THEN Failed(r)
    ELSE Answer(r, status, written + 1, buf) /\ Capture(r, status)

Span(base, n) == base .. base + n - 1
ReadOf(base, n) == [i \in 1 .. n |-> cache[base + i - 1]]

\* VIRTIO_BLK_T_IN.
In(r) ==
    LET n == Total(r.segs)
        base == ByteRange(r.sector, n)
    IN  /\ r.typ = "in"
        /\ IF base = -1 \/ Scatter(r, n) = -1 THEN Failed(r)
           ELSE Complete(r, "ok", n, ReadOf(base, n))
        /\ UNCHANGED <<cache, view, kept>>

\* The host fails a request of the device.
HostFails(r) == r.typ \in {"in", "flush"} /\ Failed(r) /\ UNCHANGED <<cache, view, kept>>

\* n bytes from base on take the request's value; the guest knows it only when
\* it is told that the write went through.
WriteTo(r, base, n, known) ==
    /\ cache' = [b \in Bytes |-> IF b \in Span(base, n) THEN r.val ELSE cache[b]]
    /\ view'  = [b \in Bytes |->
                    IF b \notin Span(base, n) THEN view[b]
                    ELSE IF known THEN {r.val} ELSE view[b] \cup {r.val}]
    /\ kept'  = [b \in Bytes |->
                    IF b \in Span(base, n) THEN kept[b] \cup {r.val} ELSE kept[b]]

\* Mutant of Refused: a read-only disk is written.
RefusedNever(r) == FALSE

\* A write to a read-only disk is refused.
Refused(r) == readOnly

\* VIRTIO_BLK_T_OUT: write_all_at may fail with a part written.
Out(r) ==
    LET n == Total(r.segs)
        base == ByteRange(r.sector, n)
    IN  /\ r.typ = "out"
        /\ \/ /\ Refused(r) /\ Complete(r, "ioerr", 0, <<>>)
              /\ UNCHANGED <<cache, view, kept>>
           \/ /\ ~Refused(r) /\ (base = -1 \/ r.badSeg \in 1 .. Len(r.segs))
              /\ Failed(r) /\ UNCHANGED <<cache, view, kept>>
           \/ /\ ~Refused(r) /\ base # -1 /\ r.badSeg \notin 1 .. Len(r.segs)
              /\ \/ WriteTo(r, base, n, ~r.badStatus) /\ Complete(r, "ok", 0, <<>>)
                 \/ \E m \in 0 .. n - 1 : WriteTo(r, base, m, FALSE) /\ Failed(r)

\* sync_data of the backing file.
Sync == stable' = cache

\* VIRTIO_BLK_T_FLUSH; on a read-only disk there is nothing to make durable.
Flush(r) ==
    /\ r.typ = "flush"
    /\ IF readOnly THEN UNCHANGED stable ELSE Sync
    /\ Complete(r, "ok", 0, <<>>)
    /\ kept' = IF r.badStatus THEN kept ELSE view
    /\ UNCHANGED <<cache, view>>

\* VIRTIO_BLK_T_GET_ID, and the types the device does not implement; a header
\* that cannot be read fails.
NoData(r) ==
    /\ \/ /\ r.typ = "getid"
          /\ IF Scatter(r, SerialLen) = -1 THEN Failed(r)
             ELSE Complete(r, "ok", Scatter(r, SerialLen), <<>>)
       \/ r.typ = "other" /\ Complete(r, "unsupp", 0, <<>>)
       \/ r.typ = "unreadable" /\ Failed(r)
    /\ UNCHANGED <<cache, view, kept>>

\* A chain with no readable or no writable descriptor gets no answer at all.
Malformed(r) ==
    /\ r.shape # "whole"
    /\ last' = [req |-> NoRequest, status |-> "untouched", used |-> 0, buf |-> <<>>]
    /\ UNCHANGED <<cache, view, kept, events, told>>

\* handle_chain, of a chain the holder of the lock pops.
HandleChain ==
    /\ holder # 0
    /\ requests < MaxRequests /\ requests' = requests + 1
    /\ \E r \in Requests :
          \/ Malformed(r) /\ UNCHANGED stable
          \/ r.shape = "whole" /\ (In(r) \/ Out(r) \/ NoData(r) \/ HostFails(r))
             /\ UNCHANGED stable
          \/ r.shape = "whole" /\ Flush(r)
    /\ UNCHANGED <<readOnly, holder, batch, ledger, crashes>>

\* A vCPU's access: it takes the lock, the QUEUE_NOTIFY serves any number of
\* chains, and the events are taken before the lock goes.
Lock(v) ==
    /\ holder = 0 /\ batch[v] = <<>> /\ requests < MaxRequests
    /\ holder' = v
    /\ UNCHANGED <<image, events, batch, ledger, last, hist, requests>>
TakeEvents(v) ==
    /\ holder = v /\ holder' = 0
    /\ batch' = [batch EXCEPT ![v] = events] /\ events' = <<>>
    /\ UNCHANGED <<image, ledger, last, hist, requests>>

\* Ledger::captured, after the lock: another vCPU may come first.
Captured(v) ==
    /\ batch[v] # <<>>
    /\ ledger' = ledger \o batch[v] /\ batch' = [batch EXCEPT ![v] = <<>>]
    /\ UNCHANGED <<image, events, holder, last, hist, requests>>

\* A write of 0 to STATUS: the queue goes; captured I/O stays.
Reset ==
    /\ holder = 0 /\ last.req # NoRequest
    /\ last' = [req |-> NoRequest, status |-> "untouched", used |-> 0, buf |-> <<>>]
    /\ UNCHANGED <<image, capture, hist, requests>>

\* The host writes a byte of its cache back.
WriteBack ==
    /\ \E b \in Bytes : cache[b] # stable[b] /\ stable' = [stable EXCEPT ![b] = cache[b]]
    /\ UNCHANGED <<readOnly, cache, capture, last, hist, requests>>

\* The host crashes, and the guest is booted anew on what is left.
HostCrash ==
    /\ crashes < MaxCrashes /\ crashes' = crashes + 1
    /\ cache' = stable /\ view' = kept
    /\ events' = <<>> /\ ledger' = <<>> /\ told' = <<>>
    /\ holder' = 0 /\ batch' = [v \in 1 .. Vcpus |-> <<>>]
    /\ last' = [req |-> NoRequest, status |-> "untouched", used |-> 0, buf |-> <<>>]
    /\ UNCHANGED <<readOnly, stable, kept, requests>>

Next ==
    \/ \E v \in 1 .. Vcpus : Lock(v) \/ TakeEvents(v) \/ Captured(v)
    \/ HandleChain \/ Reset \/ WriteBack \/ HostCrash

Spec == Init /\ [][Next]_vars

-----------------------------------------------------------------------------
(* Properties. *)

\* A read told S_OK returns, byte by byte, what the guest may expect there: the
\* last write it was told of, or of a failed one since either value; and it is
\* told S_OK only when the whole range is inside the disk.
ReadsAreTrue ==
    last.req.typ = "in" /\ last.status = "ok" =>
        /\ last.req.sector * SectorBytes + last.req.len <= Capacity
        /\ \A i \in 1 .. Len(last.buf) :
              last.buf[i] \in view[last.req.sector * SectorBytes + i - 1]

\* A flush told S_OK holds across a crash of the host: a byte on the disk is
\* what was flushed or a later write.
FlushIsDurable == \A b \in Bytes : stable[b] \in kept[b]

\* A read or a write the guest found S_OK for reaches the ledger once, and
\* nothing else does; what one access captured stays together and in order,
\* though two accesses may be appended in either order.
Times(e, q) == Cardinality({i \in DOMAIN q : q[i] = e})
RunOf(q, of) == \E i \in 0 .. Len(of) - Len(q) : SubSeq(of, i + 1, i + Len(q)) = q
CapturedIsTold ==
    LET appended == ledger \o events \o FlattenSeq([v \in 1 .. Vcpus |-> batch[v]])
    IN  /\ \A e \in ToSet(told) \cup ToSet(appended) : Times(e, appended) = Times(e, told)
        /\ \A v \in 1 .. Vcpus : RunOf(batch[v], told)

\* A step of the device changes the image only for a write, only in the bytes
\* the request names - however its sector number overflows, and when it fails
\* part of the way - and never on a read-only disk.
WritesStayInRange ==
    \A b \in Bytes : cache'[b] # cache[b] /\ crashes' = crashes =>
        /\ ~readOnly /\ last'.req.typ = "out"
        /\ b \in Span(last'.req.sector * SectorBytes, last'.req.len)

=============================================================================
