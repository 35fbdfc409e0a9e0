------------------------------ MODULE FsDirect ------------------------------
(***************************************************************************)
(* A READ or WRITE of the virtio-fs server, from the descriptor chain to the *)
(* used length (handle_chain, handle_fuse_desc, read_direct, write_direct    *)
(* and the buffered read and write in devices/virtio/fs/server.rs).  The     *)
(* direct paths move file data between the file and the guest's descriptors  *)
(* with no copy between, and leave what they do not handle to the buffered.  *)
(*                                                                         *)
(* Lengths are in units.  A descriptor outside guest RAM has ok = FALSE.     *)
(***************************************************************************)
EXTENDS Naturals, Sequences, SequencesExt

CONSTANTS
    InLens, OutLens,       \* lengths of a descriptor of each direction
    MaxIn, MaxOut,         \* bounds on the descriptors of each direction
    MaxUnits,              \* a bound on the units of the input
    MaxBad,                \* a bound on the descriptors outside RAM
    Declared, Sizes, Offsets,  \* what a request says
    IN_HEADER_LEN, OUT_HEADER_LEN,
    WriteIn,               \* units of fuse_write_in and fuse_read_in
    Args,                  \* the part of it that read_direct and write_direct read
    MAX_WRITE, MAX_REQUEST, IOV_MAX,
    FileLen                \* units of the file

VARIABLES
    input, output,         \* the descriptors
    req,                   \* the request's fields
    host,                  \* what the host's I/O does: how much it moves at most,
                           \* and whether it fails
    file,                  \* the file
    memory,                \* the units of each output descriptor
    used,                  \* the used length
    pc

vars == <<input, output, req, host, file, memory, used, pc>>

Unit(k, v) == [k |-> k, v |-> v]
Old == Unit("old", 0)
Smaller(a, b) == IF a < b THEN a ELSE b
Total(descs) == FoldLeft(LAMBDA n, d : n + d.len, 0, descs)
Less(a, b) == IF a > b THEN a - b ELSE 0

Requests ==
    [opcode : {"READ", "WRITE"}, declared : Declared, fh : {"none", "rw", "ro", "closed"},
     offset : Offsets, size : Sizes]

Hosts ==
    {[most |-> 1, fails |-> FALSE], [most |-> MAX_WRITE, fails |-> FALSE],
     [most |-> 0, fails |-> TRUE]}

Init ==
    /\ input = <<>> /\ output = <<>> /\ memory = <<>>
    /\ req \in Requests /\ host \in Hosts
    /\ file = [i \in 1..FileLen |-> Unit("file", i)]
    /\ used = 0 /\ pc = "builds"

\* Whether one more descriptor may be in RAM or not.
MayBe(ok) == ok \/ Len(SelectSeq(input \o output, LAMBDA d : ~d.ok)) < MaxBad

AddsInput ==
    /\ pc = "builds" /\ output = <<>> /\ Len(input) < MaxIn
    /\ \E n \in InLens, ok \in BOOLEAN :
         /\ Total(input) + n <= MaxUnits /\ MayBe(ok)
         /\ input' = Append(input, [len |-> n, ok |-> ok])
    /\ UNCHANGED <<output, req, host, file, memory, used, pc>>

AddsOutput ==
    /\ pc = "builds" /\ input # <<>> /\ Len(output) < MaxOut
    /\ \E n \in OutLens, ok \in BOOLEAN :
         /\ MayBe(ok)
         /\ output' = Append(output, [len |-> n, ok |-> ok])
         /\ memory' = Append(memory, [i \in 1..n |-> Old])
    /\ UNCHANGED <<input, req, host, file, used, pc>>

-----------------------------------------------------------------------------
(* Descriptors. *)

\* Mutant of StartInDesc: the part of a descriptor to skip is taken.
StartInDescWhole(skip, pos) == 0

\* skip.saturating_sub(pos)
StartInDesc(skip, pos) == Less(skip, pos)

\* gather, build_iov: the pieces of the descriptors from i on that hold `cap`
\* units past `skip`, when those before hold `pos` and `total` is collected.
RECURSIVE Pieces(_, _, _, _, _, _)
Pieces(descs, i, pos, skip, cap, total) ==
    IF i > Len(descs) \/ total = cap THEN <<>>
    ELSE LET d == descs[i]
             start == StartInDesc(skip, pos)
             avail == Smaller(Less(d.len, start), cap - total)
         IN  IF pos + d.len > skip /\ avail > 0
             THEN <<[desc |-> i, from |-> start, len |-> avail]>> \o
                  Pieces(descs, i + 1, pos + d.len, skip, cap, total + avail)
             ELSE Pieces(descs, i + 1, pos + d.len, skip, cap, total)

InRam(descs, pieces) == \A i \in 1..Len(pieces) : descs[pieces[i].desc].ok

\* gather: whether the units are there.
Gathers(descs, skip, n) ==
    LET p == Pieces(descs, 1, 0, skip, n, 0) IN Total(p) = n /\ InRam(descs, p)

\* build_iov: NONE, or the pieces.
NONE == <<[desc |-> 0, from |-> 0, len |-> 0]>>
BuildIov(descs, skip, cap) ==
    LET p == Pieces(descs, 1, 0, skip, cap, 0) IN
    IF Len(descs) > IOV_MAX \/ ~InRam(descs, p) THEN NONE ELSE p

\* The unit of the input at a piece's place: units are numbered through the chain.
Before(descs, i) == Total(SubSeq(descs, 1, i - 1))
InputUnits(pieces) ==
    FlattenSeq([i \in 1..Len(pieces) |->
        [j \in 1..pieces[i].len |-> Unit("in", Before(input, pieces[i].desc) + pieces[i].from + j)]])

\* Memory after `units` went to the pieces in turn.
Scatter(mem, pieces, units) ==
    [d \in DOMAIN mem |-> [k \in DOMAIN mem[d] |->
        LET hit == {i \in 1..Len(pieces) : /\ pieces[i].desc = d /\ k > pieces[i].from
                                           /\ k <= pieces[i].from + pieces[i].len}
        IN  IF hit = {} THEN mem[d][k]
            ELSE LET i == CHOOSE i \in hit : TRUE
                     at == Total(SubSeq(pieces, 1, i - 1)) + k - pieces[i].from
                 IN  IF at <= Len(units) THEN units[at] ELSE mem[d][k]]]

\* The pieces of the output that `n` units go to, up to the first outside RAM.
Reached(n) ==
    LET p == Pieces(output, 1, 0, 0, n, 0)
        bad == {i \in DOMAIN p : ~output[p[i].desc].ok}
    IN  IF bad = {} THEN p ELSE SubSeq(p, 1, Min(bad) - 1)

-----------------------------------------------------------------------------
(* Replies. *)

MaxOutput == Total(output)
Header(len, status) ==
    [i \in 1..OUT_HEADER_LEN |-> IF i = 1 THEN Unit("len", len) ELSE Unit(status, 0)]
\* success_response and error_response
Success(payload) == Header(OUT_HEADER_LEN + Len(payload), "ok") \o payload
Error(errno) == Header(OUT_HEADER_LEN, errno)

\* What serving the chain left: memory, used length and the file.
Outcome(m, u, f) == [memory |-> m, used |-> u, file |-> f]

\* write_reply
WriteReply(response, f) ==
    IF Len(response) > MaxOutput THEN Outcome(memory, 0, f)
    ELSE LET p == Reached(Len(response)) IN
         Outcome(Scatter(memory, p, response), Total(p), f)

-----------------------------------------------------------------------------
(* The file. *)

\* read_at, preadv: the units the host returns.
ReadAt(n) ==
    SubSeq(file, req.offset + 1,
           Smaller(FileLen, req.offset + Smaller(n, host.most)))

\* write_at, pwritev
WriteCount(n) == Smaller(n, host.most)
WriteAt(units) ==
    LET n == WriteCount(Len(units)) IN
    [i \in 1..FileLen |-> IF i > req.offset /\ i <= req.offset + n THEN units[i - req.offset]
                          ELSE file[i]]

-----------------------------------------------------------------------------
(* The buffered path, of a request whose input is in RAM and of a host that    *)
(* fails, or not.                                                             *)

Payload == req.declared - IN_HEADER_LEN

\* What a READ moves at most: the size asked for, the room and MAX_WRITE.
WantedRead == Smaller(Smaller(req.size, Less(MaxOutput, OUT_HEADER_LEN)), MAX_WRITE)

\* read
Read(fails) ==
    CASE Payload < Args -> WriteReply(Error("EINVAL"), file)
      [] Payload >= Args /\ req.fh = "closed" -> WriteReply(Error("EBADF"), file)
      [] Payload >= Args /\ req.fh # "closed" /\ fails -> WriteReply(Error("EIO"), file)
      [] OTHER -> WriteReply(Success(ReadAt(WantedRead)), file)

\* The units of the input that a WRITE moves.
Written == SubSeq([i \in 1..Total(input) |-> Unit("in", i)],
                  IN_HEADER_LEN + WriteIn + 1, IN_HEADER_LEN + WriteIn + req.size)

\* write, on a writable export
Write(fails) ==
    LET bad == Payload < Args \/ req.size > MAX_WRITE \/ Payload < WriteIn + req.size IN
    CASE bad -> WriteReply(Error("EINVAL"), file)
      [] ~bad /\ req.fh # "rw" -> WriteReply(Error("EBADF"), file)
      [] ~bad /\ req.fh = "rw" /\ fails -> WriteReply(Error("EIO"), file)
      [] OTHER -> WriteReply(Success(<<Unit("n", WriteCount(req.size))>>), WriteAt(Written))

\* handle_fuse, after the request is gathered
Buffered(gathers, fails) ==
    IF ~gathers THEN WriteReply(Error("EIO"), file)
    ELSE IF req.declared < IN_HEADER_LEN \/ req.declared > Total(input)
    THEN WriteReply(Error("EINVAL"), file)
    ELSE IF req.opcode = "READ" THEN Read(fails) ELSE Write(fails)

-----------------------------------------------------------------------------
(* The direct paths. *)

\* Whether read_direct and write_direct take the request so far.
TakesArgs(least) ==
    /\ req.declared >= least /\ req.declared <= Total(input)
    /\ Gathers(input, IN_HEADER_LEN, Args)

ReadIov == BuildIov(output, OUT_HEADER_LEN, WantedRead)
TakesRead ==
    TakesArgs(IN_HEADER_LEN + Args) /\ req.fh \notin {"none", "closed"} /\ ReadIov # NONE

\* write_direct_out_header: the pieces of the header, which fail outside RAM.
HeaderPieces == Pieces(output, 1, 0, 0, OUT_HEADER_LEN, 0)

\* preadv_retry and pwritev_retry leave the host alone when there is nothing to move.
HostFails(iov) == host.fails /\ iov # <<>>

\* read_direct
ReadDirect ==
    LET units == ReadAt(WantedRead)
        filled == Scatter(memory, ReadIov, units)
        n == OUT_HEADER_LEN + Len(units)
    IN  IF HostFails(ReadIov) THEN WriteReply(Error("EIO"), file)
        ELSE IF InRam(output, HeaderPieces)
             THEN Outcome(Scatter(filled, HeaderPieces, Header(n, "ok")), n, file)
        ELSE LET reply == WriteReply(Error("EIO"), file) IN
             Outcome([d \in DOMAIN memory |-> [k \in DOMAIN memory[d] |->
                        IF reply.memory[d][k] = Old THEN filled[d][k] ELSE reply.memory[d][k]]],
                     reply.used, file)

\* The payload is in what the request declares.
SizeFits == req.size <= MAX_WRITE /\ req.declared >= IN_HEADER_LEN + WriteIn + req.size

WriteIov == BuildIov(input, IN_HEADER_LEN + WriteIn, req.size)
TakesWrite ==
    /\ TakesArgs(IN_HEADER_LEN) /\ SizeFits /\ req.fh = "rw"
    /\ WriteIov # NONE /\ Total(WriteIov) >= req.size

\* write_direct
WriteDirect ==
    IF HostFails(WriteIov) THEN WriteReply(Error("EIO"), file)
    ELSE WriteReply(Success(<<Unit("n", WriteCount(req.size))>>), WriteAt(InputUnits(WriteIov)))

\* Whether the direct path takes the request.
Takes == IF req.opcode = "READ" THEN TakesRead ELSE TakesWrite

\* Whether the header, and the whole of the input, can be gathered.
HeaderIn == Gathers(input, 0, IN_HEADER_LEN)
AllIn == Gathers(input, 0, Total(input))

\* handle_fuse_desc
Reply ==
    IF ~HeaderIn THEN WriteReply(Error("EIO"), file)
    ELSE IF ~Takes THEN Buffered(AllIn, host.fails)
    ELSE IF req.opcode = "READ" THEN ReadDirect ELSE WriteDirect

\* handle_chain's refusals.
Refused == Total(input) > MAX_REQUEST \/ Total(input) < IN_HEADER_LEN \/ output = <<>>

\* handle_chain
Serves ==
    /\ pc = "builds" /\ input # <<>>
    /\ LET r == IF Refused THEN Outcome(memory, 0, file) ELSE Reply IN
       memory' = r.memory /\ used' = r.used /\ file' = r.file
    /\ pc' = "served"
    /\ UNCHANGED <<input, output, req, host>>

Next == AddsInput \/ AddsOutput \/ Serves \/ (pc = "served" /\ UNCHANGED vars)

Spec == Init /\ [][Next]_vars

-----------------------------------------------------------------------------
(* Properties. *)

\* The units the guest may read of an outcome: the first `used` of the chain.
Visible(o) ==
    SubSeq(FlattenSeq(o.memory), 1, o.used)

\* The direct path is a shortcut: the guest gets the reply, the used length and
\* the file that the buffered path would have given, for every shape of a chain
\* that has room for a reply's header.  It fails less: a descriptor that holds
\* nothing it uses may be outside RAM, and a request to move nothing asks nothing
\* of the host.  In those cases it does what the buffered path does of a readable
\* request on a host that does not fail.
DirectIsBuffered ==
    pc = "builds" /\ input # <<>> /\ ~Refused /\ MaxOutput >= OUT_HEADER_LEN =>
        LET moves == IF req.opcode = "READ" THEN WantedRead ELSE req.size
            shortcut == HeaderIn /\ Takes
            buffered == Buffered(shortcut \/ AllIn, host.fails /\ (shortcut => moves > 0))
        IN  /\ Reply.used = buffered.used
            /\ Visible(Reply) = Visible(buffered)
            /\ Reply.file = buffered.file

=============================================================================
