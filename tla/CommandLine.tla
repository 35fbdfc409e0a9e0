----------------------------- MODULE CommandLine ----------------------------
(***************************************************************************)
(* `hvi boot` from its arguments to the backend: the loop over the flags,  *)
(* the checks that follow it, and the backend's own refusals.  (main.rs,   *)
(* config.rs, the start of each backend's boot)                            *)
(*                                                                         *)
(* A turn of the loop takes a flag with its values.  What --fs reads its   *)
(* value into is module ExportSpec's; here the value is the export.  A     *)
(* host directory is the sequence of names of its canonical path, and a    *)
(* path given on the line resolves to one, possibly through a link.        *)
(***************************************************************************)
EXTENDS Naturals, Sequences, SequencesExt

CONSTANTS MaxFlags,    \* bound on the flags of a line
          Backends,    \* the backends that may be built: "hvf", "kvm"
          Flags        \* the flags with their values that a line may hold

VARIABLES backend,    \* the backend of this build
          line,       \* the flags taken so far
          phase,      \* "parsing", then where the boot has come to
          options,    \* the flags that keep their last value
          shares,     \* BootConfig.fs_shares, with whether an old flag gave it
          sockets     \* BootConfig.fs

vars == <<backend, line, phase, options, shares, sockets>>

None == "none"
Missing == "missing"     \* the line ends where a value should be
NoNumber == 99           \* a number that is missing or malformed, or not set

\* The canonical directory of each path that resolves to one.
Canonical == [a |-> <<"srv", "a">>, ab |-> <<"srv", "ab">>, sub |-> <<"srv", "a", "sub">>,
              link |-> <<"srv", "a">>]

Init == /\ backend \in Backends
        /\ line = <<>> /\ phase = "parsing"
        /\ options = [kernel |-> None, dump_memory |-> None, dump_after |-> NoNumber,
                      trace_io |-> None, fs_uid |-> 0, cpus |-> 1]
        /\ shares = <<>> /\ sockets = <<>>

-----------------------------------------------------------------------------
(* The loop over the flags. *)

Taken(f) == phase = "parsing" /\ Len(line) < MaxFlags /\ line' = Append(line, f)

Fails == phase' = "error" /\ UNCHANGED <<options, shares, sockets>>

\* A flag that takes the next argument as it stands.  At the end of the line there is none, which
\* leaves the flag not set.
TakeOptional(f) ==
    /\ f.flag \in {"kernel", "dump_memory", "trace_io"}
    /\ Taken(f)
    /\ options' = [options EXCEPT ![f.flag] = IF f.value = Missing THEN None ELSE f.value]
    /\ phase' = IF f.value = Missing THEN "parsed" ELSE phase
    /\ UNCHANGED <<backend, shares, sockets>>

\* A flag whose value is a number: a missing or malformed one fails.
TakeNumber(f) ==
    /\ f.flag \in {"dump_after", "fs_uid", "cpus"}
    /\ Taken(f)
    /\ IF f.value = NoNumber THEN Fails
       ELSE options' = [options EXCEPT ![f.flag] = f.value] /\ UNCHANGED <<phase, shares, sockets>>
    /\ UNCHANGED backend

\* tag_taken.
TagTaken(tag) == \/ \E i \in DOMAIN shares : shares[i].tag = tag
                 \/ \E i \in DOMAIN sockets : sockets[i].tag = tag

\* --share-ro, --share-rw and --fs path=: the tag is checked and the directory resolved.
TakeShare(f) ==
    /\ f.flag \in {"share", "fs_path"}
    /\ Taken(f)
    /\ IF TagTaken(f.tag) \/ f.path \notin DOMAIN Canonical THEN Fails
       ELSE /\ shares' = Append(shares, [root |-> Canonical[f.path], tag |-> f.tag,
                                         writable |-> f.writable, uid |-> f.uid,
                                         legacy |-> f.flag = "share"])
            /\ UNCHANGED <<phase, options, sockets>>
    /\ UNCHANGED backend

TakeSocket(f) ==
    /\ f.flag = "fs_socket"
    /\ Taken(f)
    /\ IF TagTaken(f.tag) THEN Fails
       ELSE /\ sockets' = Append(sockets, [tag |-> f.tag, queues |-> f.queues])
            /\ UNCHANGED <<phase, options, shares>>
    /\ UNCHANGED backend

TakeUnknown(f) == /\ f.flag = "unknown"
                  /\ Taken(f) /\ Fails /\ UNCHANGED backend

\* The arguments end.
LineEnds == /\ phase = "parsing" /\ phase' = "parsed"
            /\ UNCHANGED <<backend, line, options, shares, sockets>>

-----------------------------------------------------------------------------
(* After the loop. *)

\* --fs-uid and --fs-gid reach the exports the old flags gave, wherever they stood on the line.
Owned(share) == IF share.legacy THEN [share EXCEPT !.uid = options.fs_uid] ELSE share

\* The tools' flags, the kernel's, and the ids of the old exports; then the configuration is whole.
Configure ==
    /\ phase = "parsed"
    /\ IF \/ options.dump_after # NoNumber /\ options.dump_memory = None
          \/ options.kernel = None
       THEN Fails
       ELSE /\ shares' = [i \in DOMAIN shares |-> Owned(shares[i])]
            /\ phase' = "configured"
            /\ UNCHANGED <<options, sockets>>
    /\ UNCHANGED <<backend, line>>

\* A file that cannot be opened: the trace, the kernel or a disk.
CannotOpen == /\ phase = "parsed" /\ Fails /\ UNCHANGED <<backend, line>>

\* Mutant of Nested: the names are compared as text, so /srv/ab is inside /srv/a.
NestedAsText(inner, outer) ==
    IsPrefix(outer, inner) \/ (outer = <<"srv", "a">> /\ inner = <<"srv", "ab">>)

\* Path::starts_with.
Nested(inner, outer) == IsPrefix(outer, inner)

\* check_export_overlap.
Overlap == \E i, j \in DOMAIN shares :
              /\ i < j /\ shares[i].writable # shares[j].writable
              /\ \/ Nested(shares[i].root, shares[j].root)
                 \/ Nested(shares[j].root, shares[i].root)

\* A guest has at least one vCPU.
Cpus == IF options.cpus = 0 THEN 1 ELSE options.cpus

\* check_fs on the exports of daemons: the tags differ, and a queue has a vCPU.
CheckFs == /\ \A i, j \in DOMAIN sockets : sockets[i].tag = sockets[j].tag => i = j
           /\ \A i \in DOMAIN sockets : sockets[i].queues <= Cpus

\* The backend refuses what it does not serve, before the VM exists.
Boot == /\ phase = "configured"
        /\ phase' = IF IF backend = "hvf" THEN Overlap \/ sockets # <<>>
                                          ELSE shares # <<>> \/ ~CheckFs
                    THEN "refused" ELSE "booting"
        /\ UNCHANGED <<backend, line, options, shares, sockets>>

Over == phase \in {"error", "refused", "booting"} /\ UNCHANGED vars

Take == \E f \in Flags : \/ TakeOptional(f) \/ TakeNumber(f) \/ TakeShare(f)
                         \/ TakeSocket(f) \/ TakeUnknown(f)
Next == Take \/ LineEnds \/ Configure \/ CannotOpen \/ Boot \/ Over
Spec == Init /\ [][Next]_vars

-----------------------------------------------------------------------------
LastGiven(flag, default) ==
    LET given == {i \in DOMAIN line : line[i].flag = flag}
    IN IF given = {} THEN default ELSE line[CHOOSE i \in given : \A j \in given : j <= i].value

\* The directories of the host, each of which an export of one above it reaches.
Directories == {Canonical[p] : p \in DOMAIN Canonical} \cup {<<"srv">>}
Reaches(share, d) == IsPrefix(share.root, d)

\* A backend that serves directories refuses the exports exactly when some directory would be both
\* read-only and writable to the guest, however the two are spelled.  (check_export_overlap)
ReadOnlyIsKept ==
    (backend = "hvf" /\ sockets = <<>> /\ phase \in {"refused", "booting"}) =>
        ((phase = "refused") <=>
            \E d \in Directories : \E i, j \in DOMAIN shares :
                /\ Reaches(shares[i], d) /\ Reaches(shares[j], d)
                /\ shares[i].writable /\ ~shares[j].writable)

\* Two exports of a guest never carry one tag, whichever flags gave them.  (tag_taken, check_fs)
TagsDiffer ==
    LET tags == [i \in DOMAIN shares |-> shares[i].tag] \o [i \in DOMAIN sockets |-> sockets[i].tag]
    IN \A i, j \in DOMAIN tags : tags[i] = tags[j] => i = j

\* The last --fs-uid of the line is the owner in every export of the old flags, those before it
\* included, and in no other.  (boot_guest)
OldFlagsOwn ==
    phase \in {"configured", "refused", "booting"} =>
        \A i \in DOMAIN shares :
            shares[i].uid = IF shares[i].legacy THEN LastGiven("fs_uid", 0) ELSE 0

\* A line that asks for one request queue per export is never refused for its number of vCPUs,
\* since a guest asked to have none gets one.  (check_fs, the backends' boot)
OneQueueIsServed ==
    (backend = "kvm" /\ phase = "refused" /\ shares = <<>>) =>
        \E i \in DOMAIN sockets : sockets[i].queues > 1
=============================================================================
