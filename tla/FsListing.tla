----------------------------- MODULE FsListing -----------------------------
(***************************************************************************)
(* READDIR and READDIRPLUS without a handle in the virtio-fs server        *)
(* (devices/virtio/fs/server.rs): the guest pages through a directory by   *)
(* offset, the server keeps the listing the offsets index, and a listing   *)
(* prepared ahead brings its stats along while they are fresh.             *)
(*                                                                         *)
(* One process of the guest reads each directory.  An entry is a number,   *)
(* in the order of names, and 0 stands for "." and ".."; what a stat would *)
(* return is a version.  How a listing is prepared on the worker threads   *)
(* is Readahead's.                                                         *)
(***************************************************************************)
EXTENDS Integers, Sequences, FiniteSets, SequencesExt

CONSTANTS Dirs, MaxName,
          PageMax,       \* the most records a page holds
          ListingsMax,   \* FH0_LISTINGS_MAX
          CacheSeconds,  \* the attribute timeout; 0 with CachePolicy::None
          MaxVersion

Names == 1 .. MaxName

VARIABLES
    holds,     \* the host: the names in a directory
    version,   \* the host: what a stat of an entry returns
    ctime,     \* the host: the change time of a directory
    prepared,  \* the readahead's cache: [names, stats, ctime, age] or NoneYet
    listing,   \* fh0_listings: [entries, stats, age] or NoneYet
    order, finished,
    reader,    \* the guest's processes: at, seen, throughout, torn
    guestSaw,  \* the version of an entry after the guest's last change to it
    servedStale

vars == <<holds, version, ctime, prepared, listing, order, finished, reader,
          guestSaw, servedStale>>

NoneYet == [none |-> TRUE]
NoStats == [n \in {} |-> 0]
Idle == [at |-> 0, seen |-> <<>>, throughout |-> {}, torn |-> FALSE, done |-> FALSE]

Init ==
    /\ holds \in [Dirs -> {Names, Names \ {1}}]
    /\ version = [d \in Dirs |-> [n \in Names |-> 0]]
    /\ ctime = [d \in Dirs |-> 0]
    /\ prepared = [d \in Dirs |-> NoneYet] /\ listing = [d \in Dirs |-> NoneYet]
    /\ order = <<>> /\ finished = {}
    /\ reader = [d \in Dirs |-> Idle]
    /\ guestSaw = [d \in Dirs |-> [n \in Names |-> 0]]
    /\ servedStale = FALSE

-----------------------------------------------------------------------------
\* dir_entries and assemble_entries: the names in order, "." and ".." first.
Entries(names) == <<0>> \o SetToSortSeq(names, <)

\* prepared_is_fresh.
IsFresh(age) == age < CacheSeconds

\* Mutant of Unchanged: the names of a prepared listing hold for good.
UnchangedAlways(d, p) == TRUE

\* What fh0_listing_for asks of a prepared listing.
Unchanged(d, p) == ctime[d] = p.ctime

\* fh0_listing_for: the listing a first page starts with.
ListingFor(d, plus) ==
    LET p == prepared[d]
    IN  IF plus /\ p # NoneYet /\ Unchanged(d, p)
        THEN [entries |-> Entries(p.names),
              stats |-> IF IsFresh(p.age) THEN p.stats ELSE NoStats, age |-> p.age]
        ELSE [entries |-> Entries(holds[d]), stats |-> NoStats, age |-> 0]

\* Mutant of Victim: the listing read least recently goes.
VictimOldest(o) == 1

\* make_room_for_fh0_listing: a finished listing goes first.
Victim(o) ==
    LET over == {i \in DOMAIN o : o[i] \in finished}
    IN  IF over = {} THEN 1 ELSE CHOOSE i \in over : \A j \in over : i <= j

\* The listing that has to go before one more comes in.
Room(o) == IF Len(o) >= ListingsMax THEN {o[Victim(o)]} ELSE {}

\* The page at an offset: how many entries of the batch are gone through, and
\* which of them are sent; one that can no longer be stat'd is left out.
Batch(l, at) == SubSeq(l.entries, at + 1,
                       IF at + PageMax + 1 < Len(l.entries) THEN at + PageMax + 1
                       ELSE Len(l.entries))
Sent(d, l, plus, batch) ==
    SelectSeq(batch, LAMBDA n : n = 0 \/ ~plus \/ n \in DOMAIN l.stats \/ n \in holds[d])

\* The stat sent for an entry.
StatOf(d, l, n) == IF n \in DOMAIN l.stats THEN l.stats[n] ELSE version[d][n]

\* Whether a page goes on with the listing the server holds.
Reuse(d) == reader[d].at # 0 /\ listing[d] # NoneYet

\* READDIR or READDIRPLUS of directory d with fh 0, for the page after what its
\* reader has seen.  `cut` entries of the batch fit the reply.
Page(d, plus, cut) ==
    LET fetched == ~Reuse(d)
        l0 == IF fetched THEN ListingFor(d, plus) ELSE listing[d]
        l == IF IsFresh(l0.age) THEN l0 ELSE [l0 EXCEPT !.stats = NoStats]
        rest == SelectSeq(order, LAMBDA e : e # d)
        gone == Room(rest)
        r == reader[d]
        batch == Batch(l, r.at)
        out == Sent(d, l, plus, SubSeq(batch, 1, cut))
        ends == cut = Len(batch) /\ r.at + Len(batch) >= Len(l.entries)
        \* The offset the guest goes on from is that of the last record.
        next == IF out = <<>> THEN r.at
                ELSE r.at + CHOOSE i \in 1 .. cut : batch[i] = Last(out)
        was == IF fetched THEN finished \ {d} ELSE finished
    IN  /\ ~r.done /\ cut \in 0 .. Len(batch)
        /\ Len(out) <= PageMax /\ cut < Len(batch) => out # <<>>
        /\ listing' = [e \in Dirs |-> IF e = d THEN l ELSE IF e \in gone THEN NoneYet
                                      ELSE listing[e]]
        /\ prepared' = IF fetched /\ plus THEN [prepared EXCEPT ![d] = NoneYet] ELSE prepared
        /\ order' = Append(SelectSeq(rest, LAMBDA e : e \notin gone), d)
        /\ finished' = (was \ gone) \cup (IF ends THEN {d} ELSE {})
        /\ reader' = [e \in Dirs |->
             IF e = d THEN [at |-> next, seen |-> r.seen \o out,
                            throughout |-> IF r.at = 0 THEN holds[d] ELSE r.throughout,
                            torn |-> r.torn \/ (fetched /\ r.at # 0) \/ (out = <<>> /\ ~ends),
                            done |-> out = <<>>]
             ELSE reader[e]]
        /\ servedStale' =
             \E n \in Range(out) \ {0} :
                plus /\ (StatOf(d, l, n) < guestSaw[d][n]
                         \/ (n \in DOMAIN l.stats /\ l.age >= CacheSeconds))
        /\ UNCHANGED <<holds, version, ctime, guestSaw>>

\* The reader is done with the directory.
Close(d) ==
    /\ reader[d].done /\ reader' = [reader EXCEPT ![d] = Idle]
    /\ UNCHANGED <<holds, version, ctime, prepared, listing, order, finished,
                   guestSaw, servedStale>>

\* drop_fh0_listing, when the guest forgets the directory.
Forget(d) ==
    /\ reader[d] = Idle /\ listing[d] # NoneYet
    /\ listing' = [listing EXCEPT ![d] = NoneYet]
    /\ order' = SelectSeq(order, LAMBDA e : e # d) /\ finished' = finished \ {d}
    /\ UNCHANGED <<holds, version, ctime, prepared, reader, guestSaw, servedStale>>

\* The readahead, where the share has one, has prepared a directory.
readahead_enabled == CacheSeconds # 0
Prepare(d) ==
    /\ readahead_enabled /\ prepared[d] = NoneYet
    /\ prepared' = [prepared EXCEPT ![d] =
         [names |-> holds[d], stats |-> [n \in holds[d] |-> version[d][n]],
          ctime |-> ctime[d], age |-> 0]]
    /\ UNCHANGED <<holds, version, ctime, listing, order, finished, reader, guestSaw,
                   servedStale>>

\* drop_prepared, before every request that may change the share.
DropPrepared ==
    /\ prepared' = [d \in Dirs |-> NoneYet]
    /\ listing' = [d \in Dirs |-> IF listing[d] = NoneYet THEN NoneYet
                                  ELSE [listing[d] EXCEPT !.stats = NoStats, !.age = 0]]

\* A write, or the creation or removal of a name, by the guest or by the host.
Touched(d, n) == version' = [version EXCEPT ![d][n] = @ + 1]
Changed(d, n) ==
    /\ holds' = [holds EXCEPT ![d] = IF n \in @ THEN @ \ {n} ELSE @ \cup {n}]
    /\ ctime' = [ctime EXCEPT ![d] = @ + 1]
    /\ reader' = [reader EXCEPT ![d].throughout = @ \ {n}]
GuestWrite(d, n) ==
    /\ n \in holds[d] /\ version[d][n] < MaxVersion
    /\ Touched(d, n) /\ guestSaw' = [guestSaw EXCEPT ![d][n] = version[d][n] + 1]
    /\ DropPrepared
    /\ UNCHANGED <<holds, ctime, order, finished, reader, servedStale>>
GuestChange(d, n) ==
    /\ ctime[d] < MaxVersion /\ Changed(d, n) /\ DropPrepared
    /\ UNCHANGED <<version, order, finished, guestSaw, servedStale>>
HostWrite(d, n) ==
    /\ n \in holds[d] /\ version[d][n] < MaxVersion /\ Touched(d, n)
    /\ UNCHANGED <<holds, ctime, prepared, listing, order, finished, reader, guestSaw,
                   servedStale>>
HostChange(d, n) ==
    /\ ctime[d] < MaxVersion /\ Changed(d, n)
    /\ UNCHANGED <<version, prepared, listing, order, finished, guestSaw, servedStale>>

\* Time passes, and what was prepared ages.
Older(x) == IF x = NoneYet \/ x.age >= CacheSeconds THEN x ELSE [x EXCEPT !.age = @ + 1]
Tick ==
    /\ prepared' = [d \in Dirs |-> Older(prepared[d])]
    /\ listing' = [d \in Dirs |-> IF listing[d] # NoneYet /\ listing[d].stats = NoStats
                                  THEN listing[d] ELSE Older(listing[d])]
    /\ <<prepared', listing'>> # <<prepared, listing>>
    /\ UNCHANGED <<holds, version, ctime, order, finished, reader, guestSaw, servedStale>>

Next ==
    \/ \E d \in Dirs :
        \/ \E plus \in BOOLEAN, cut \in 0 .. PageMax + 1 : Page(d, plus, cut)
        \/ Close(d) \/ Forget(d) \/ Prepare(d)
        \/ \E n \in Names : GuestWrite(d, n) \/ GuestChange(d, n)
                            \/ HostWrite(d, n) \/ HostChange(d, n)
    \/ Tick

Spec == Init /\ [][Next]_vars

-----------------------------------------------------------------------------
(* Properties. *)

\* A process that pages through a directory sees no entry twice and, by the
\* end, every entry that was there throughout, whatever the guest and the host
\* create, remove and write meanwhile; unless its listing was evicted, or a
\* page had nothing left to send before the end.
ListedOnce ==
    \A d \in Dirs : LET r == reader[d] IN
        ~r.torn => /\ IsInjective(r.seen)
                   /\ r.done => r.throughout \subseteq Range(r.seen)

\* A stat sent with READDIRPLUS is never older than the guest's own last change
\* to the file, and one read ahead is never older than the attribute timeout.
NoStaleStats == ~servedStale

\* The tables agree, and hold no more listings than the bound.
ListingsBounded ==
    /\ Len(order) <= ListingsMax /\ IsInjective(order)
    /\ Range(order) = {d \in Dirs : listing[d] # NoneYet}
    /\ finished \subseteq Range(order)

\* A listing still being paged through is evicted only when every listing held
\* is (make_room_for_fh0_listing: "goes only when all of them are").
UnfinishedGoLast ==
    \A d \in Range(order) \ Range(order') :
        d \notin finished /\ reader[d].at # 0
        => finished \cap Range(order') \subseteq {Last(order')}
=============================================================================
