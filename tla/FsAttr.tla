------------------------------- MODULE FsAttr -------------------------------
(***************************************************************************)
(* The owner and mode the guest sees for a file of a virtio-fs share on    *)
(* macOS (devices/virtio/fs/server.rs).  The host file belongs to the user *)
(* who runs the VMM, so what the guest set is kept in an extended          *)
(* attribute of the file and cached on its node; every request that writes *)
(* it drops the cached copy.                                               *)
(*                                                                         *)
(* One file and its node.  A mode is a set of permissions and the set-id   *)
(* bit; sizes, times and contents are not modelled, but the host calls     *)
(* that change them may fail where the code makes them.                    *)
(***************************************************************************)
EXTENDS Naturals

CONSTANTS HostFails,    \* whether a host call may fail
          HostUnlinks,  \* whether a process of the host removes the name
          CreateKnown   \* whether CREATE meets a name that is there already

Perms == SUBSET {"owner", "other"}
Modes == [perms : Perms, setid : BOOLEAN]
Uids == {"host", "guest"}
Absent == [absent |-> TRUE]     \* Some(None), and a file without the attribute
Unknown == [unknown |-> TRUE]   \* None

VARIABLES
    file,     \* the host: [perms, setid] of the file
    stored,   \* the host: its attribute, or Absent
    named,    \* the host: whether the export still names it
    cached,   \* Node::guest_attr
    ahead,    \* the attribute in a prepared listing, or Unknown without one
    orphan,   \* whether the guest removed the name (paths is empty)
    open,     \* whether the guest holds a handle
    want      \* what the guest last set, or Unknown when it did not or failed to

vars == <<file, stored, named, cached, ahead, orphan, open, want>>

Init ==
    /\ file \in Modes
    /\ stored = Absent /\ named = TRUE /\ cached = Unknown /\ ahead = Unknown
    /\ orphan = FALSE /\ open \in BOOLEAN /\ want = Absent

-----------------------------------------------------------------------------
\* host_uid_to_guest: the host user's own files belong to the guest id chosen
\* for the share.
Mapped(f) == [perms |-> f.perms, setid |-> f.setid, uid |-> "host"]

\* host_creation_mode: the host user keeps its own access.
host_creation_mode(perms) == perms \cup {"owner"}

\* The free function guest_attr, which reads the attribute through a descriptor.
guest_attr(f, s) == IF s = Absent THEN Mapped(f) ELSE s

\* open_entry_at: an orphan through one of its handles, the rest by name.
Reachable(isNamed, isOrphan) == IF isOrphan THEN open ELSE isNamed

\* VirtioFs::guest_attr: the cached copy, or the one read now and remembered.
Filled(c, s) == IF c # Unknown THEN c
                ELSE IF Reachable(named, orphan) THEN s ELSE Absent
Reported == LET c == Filled(cached, stored) IN IF c = Absent THEN Mapped(file) ELSE c

\* Whether a request can name the file: by path or by handle.
Usable == (named /\ ~orphan) \/ open

\* GETATTR and STATX.
GetAttr ==
    /\ Usable /\ cached' = Filled(cached, stored)
    /\ UNCHANGED <<file, stored, named, ahead, orphan, open, want>>

\* A readahead worker lists the directory, attributes included; the listing is
\* used for as long as it is fresh.
WorkerLists ==
    /\ named /\ ahead' \in {stored, Unknown} \ {ahead}
    /\ UNCHANGED <<file, stored, named, cached, orphan, open, want>>

\* READDIRPLUS: a prepared attribute goes on a node that has none.
ReadDirPlus ==
    /\ named /\ ~orphan
    /\ cached' = IF cached = Unknown /\ ahead # Unknown THEN ahead ELSE Filled(cached, stored)
    /\ UNCHANGED <<file, stored, named, ahead, orphan, open, want>>

\* Mutant of DropPrepared: what was prepared outlives the request.
DropPreparedNot == UNCHANGED ahead
\* drop_prepared, before any request that is not read-only.
DropPrepared == ahead' = Unknown

\* Mutant of Dropped: the copy stays when only the owner changed.
DroppedNot(s, done) == cached

\* invalidate_guest_attr, and the reply that reads the attribute again; a
\* request that failed before returns without it.
Dropped(s, done) == IF done THEN Filled(Unknown, s) ELSE cached

\* What a CHOWN stores: the attributes the guest sees, with the new owner.
Owned(s, uid) == [guest_attr(file, s) EXCEPT !.uid = uid]
Moded(f, s, perms, setid) == [guest_attr(f, s) EXCEPT !.perms = perms, !.setid = setid]

\* SETATTR of the owner, the mode, the set-id bits and the times, in the order
\* of the code.  Each host call may fail, which ends the request there.
SetAttr(uid, chown, asked, chmod, kill, fail) ==
    LET s1 == IF chown /\ fail # "chown" THEN Owned(stored, uid) ELSE stored
        mode == IF chmod THEN asked ELSE guest_attr(file, s1)
        setid == mode.setid /\ ~kill
        on == (chmod \/ kill) /\ fail \notin {"chown", "chmod"}
        f2 == IF on THEN [file EXCEPT !.perms = host_creation_mode(mode.perms)] ELSE file
        s2 == IF on /\ fail # "store" THEN Moded(file, s1, mode.perms, setid) ELSE s1
        done == fail = "none"
    IN  /\ Usable /\ (chown \/ chmod \/ kill) /\ (fail = "none" \/ HostFails)
        /\ fail = "chown" => chown
        /\ fail \in {"chmod", "store"} => chmod \/ kill
        /\ DropPrepared
        /\ file' = f2 /\ stored' = s2
        /\ cached' = Dropped(s2, done)
        /\ want' = IF ~done \/ want = Unknown THEN Unknown
                   ELSE LET w1 == [Reported EXCEPT !.uid = IF chown THEN uid ELSE @]
                        IN  [w1 EXCEPT !.perms = IF chmod THEN asked.perms ELSE @,
                                       !.setid = (IF chmod THEN asked.setid ELSE @) /\ ~kill]
        /\ UNCHANGED <<named, orphan, open>>

\* Mutant of ClearSetId: the bit is cleared on the host's file.
ClearSetIdHost ==
    /\ file' = [file EXCEPT !.setid = FALSE] /\ UNCHANGED stored

\* clear_suid_sgid.
ClearSetId ==
    /\ stored' = IF guest_attr(file, stored).setid
                 THEN [guest_attr(file, stored) EXCEPT !.setid = FALSE] ELSE stored
    /\ UNCHANGED file

\* A WRITE or an OPEN that clears the set-id bits, through a handle.
KillSetId ==
    /\ open /\ ClearSetId /\ cached' = Unknown /\ DropPrepared
    /\ want' = IF want = Unknown \/ ~Reported.setid THEN want
               ELSE [Reported EXCEPT !.setid = FALSE]
    /\ UNCHANGED <<named, orphan, open>>

\* CREATE of a name that is there: open, then initialize_guest_metadata, and
\* node_for finds the node it already has.
Initialized(mode, uid) ==
    /\ file' = [perms |-> host_creation_mode(mode.perms), setid |-> FALSE]
    /\ stored' = [perms |-> mode.perms, setid |-> mode.setid, uid |-> uid]
Create(mode, uid) ==
    /\ CreateKnown /\ named /\ ~orphan
    /\ Initialized(mode, uid)
    /\ cached' = Filled(cached, stored')
    /\ open' = TRUE /\ want' = stored' /\ DropPrepared
    /\ UNCHANGED <<named, orphan>>

\* The same for a new file: it has a new inode, so a new node.
CreateNew(mode, uid) ==
    /\ ~named /\ ~open
    /\ Initialized(mode, uid)
    /\ cached' = stored' /\ want' = stored'
    /\ named' = TRUE /\ orphan' = FALSE /\ open' = TRUE /\ DropPrepared

\* OPEN, for reading or for writing, RELEASE and UNLINK, for what they do here.
Open == /\ named /\ ~orphan /\ ~open /\ open' = TRUE /\ (UNCHANGED ahead \/ DropPrepared)
        /\ UNCHANGED <<file, stored, named, cached, orphan, want>>
Release == /\ open /\ open' = FALSE
           /\ UNCHANGED <<file, stored, named, cached, ahead, orphan, want>>
Unlink == /\ named /\ ~orphan /\ named' = FALSE /\ orphan' = TRUE /\ DropPrepared
          /\ UNCHANGED <<file, stored, cached, open, want>>

\* A process of the host changes the mode, or removes the name.
HostChmod ==
    /\ \E p \in Perms : p # file.perms /\ file' = [file EXCEPT !.perms = p]
    /\ UNCHANGED <<stored, named, cached, ahead, orphan, open, want>>
HostUnlink ==
    /\ HostUnlinks /\ named /\ named' = FALSE
    /\ UNCHANGED <<file, stored, cached, ahead, orphan, open, want>>

Next ==
    \/ GetAttr \/ WorkerLists \/ ReadDirPlus \/ KillSetId \/ Open \/ Release \/ Unlink \/ HostChmod \/ HostUnlink
    \/ \E uid \in Uids, chown, chmod, kill \in BOOLEAN, mode \in Modes,
          fail \in {"none", "chown", "chmod", "store", "times"} :
         SetAttr(uid, chown, mode, chmod, kill, fail)
    \/ \E mode \in Modes, uid \in Uids : Create(mode, uid) \/ CreateNew(mode, uid)

Spec == Init /\ [][Next]_vars

-----------------------------------------------------------------------------
(* Properties. *)

\* The node's copy is the file's attribute whenever there is a copy ("`Some(None)`
\* means "checked, not present" ... Invalidated whenever this module writes the
\* xattr or changes ownership/mode").
CacheIsCurrent == Usable /\ cached # Unknown => cached = stored

\* The guest gets back the owner and the mode it set, the set-id bits cleared
\* where it asked for that, whatever the host does to the file's own mode and
\* however the file is reached.
GuestGetsItsOwn == Usable /\ want \notin {Unknown, Absent} => Reported = want

\* The set-id bit of a host file is left as it was found ("The host copy of a
\* setuid or setgid bit is left exactly as found").
HostSetIdKept == file.setid = file'.setid \/ (~named /\ named')
=============================================================================
