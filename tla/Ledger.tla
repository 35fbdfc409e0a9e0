------------------------------- MODULE Ledger -------------------------------
(***************************************************************************)
(* The ledger of a run (events.rs): threads add records to a bounded       *)
(* buffer, and one writer thread writes them to a locked file.             *)
(*                                                                         *)
(* A line is a record, numbered in the order records were offered to the   *)
(* ledger, or a `vmm.dropped` marker with the number of records it stands  *)
(* for.  Every line counts 1 against the cap.  A step is one section under *)
(* Shared::state's lock, or one call that changes the file.  A deadline is *)
(* a step that may come at any time.                                       *)
(***************************************************************************)
EXTENDS Integers, Sequences, FiniteSets

CONSTANTS Threads,         \* the threads that add records
          Cap,             \* MAX_BUFFERED_BYTES, in lines
          MaxRecords,      \* a bound on the records offered
          MaxBatches       \* a bound on the batches added

ASSUME CapAssumption == Cap \in Nat \ {0}
ASSUME BoundsAssumption == MaxRecords \in Nat /\ MaxBatches \in Nat

VARIABLES
    \* State, under the lock.
    lines, pending, added, written, dropped, unmarked, urgent, idle, closed,
    failing, gaveUp,
    \* The writer's locals.
    wpc,                   \* where it is
    taken,                 \* the lines it has taken and not written
    offset,                \* the lines it has written
    wrote,                 \* whether it has written before
    retrying,              \* its own `failing`
    giveUpAt,              \* "unset", "set", or "past" once the time has come
    snapshot,              \* `added` as it took the lines
    \* The file.
    file,                  \* its lines
    locked,                \* whether the writer holds it open and locked
    \* The threads that add records.
    tpc,                   \* where each is in submit or captured
    target,                \* the batch it waits for
    last,                  \* whether its call closes the ledger
    fails,                 \* whether its call errors whatever is written
    outcome,               \* what its last call to submit returned: "ok", "err",
                           \* or "closed" for an Ok of a call that closed it
    \* What the properties refer to.
    made,                  \* the number of records offered to an open ledger
    ends                   \* the lines up to the end of each batch added

buffer  == <<lines, unmarked, dropped, made>>
batches == <<added, ends>>
wake    == <<urgent, idle, closed>>
status  == <<failing, gaveUp>>
writer  == <<taken, offset, wrote, retrying, giveUpAt, snapshot>>
disk    == <<file, locked>>
calls   == <<target, last, fails>>
vars == <<buffer, pending, batches, written, wake, status, wpc, writer, disk,
          tpc, calls, outcome>>

Record(k) == [kind |-> "record", n |-> k]
Marker(n) == [kind |-> "dropped", n |-> n]
Torn      == [kind |-> "torn", n |-> 0]

Init ==
    /\ lines = <<>> /\ unmarked = 0 /\ dropped = 0 /\ made = 0
    /\ pending = 0 /\ added = 0 /\ ends = <<>> /\ written = 0
    /\ urgent = FALSE /\ idle = FALSE /\ closed = FALSE
    /\ failing = FALSE /\ gaveUp = FALSE
    /\ wpc = "top" /\ taken = <<>> /\ offset = 0 /\ wrote = FALSE
    /\ retrying = FALSE /\ giveUpAt = "unset" /\ snapshot = 0
    /\ file = <<>> /\ locked = TRUE
    /\ tpc = [t \in Threads |-> "idle"] /\ target = [t \in Threads |-> 0]
    /\ last = [t \in Threads |-> FALSE] /\ fails = [t \in Threads |-> FALSE]
    /\ outcome = [t \in Threads |-> "none"]

-----------------------------------------------------------------------------
(* Adding records. *)

\* Mutant of AddOne: the count of a marker is not reset.
AddOneKeepsUnmarked(b, droppable) ==
    LET k   == b.made + 1
        new == b.lines
               \o (IF b.unmarked > 0 THEN <<Marker(b.unmarked)>> ELSE <<>>)
               \o <<Record(k)>>
    IN  IF droppable /\ Len(new) + pending > Cap
        THEN [lines |-> b.lines, unmarked |-> b.unmarked + 1,
              dropped |-> b.dropped + 1, made |-> k]
        ELSE [lines |-> new, unmarked |-> b.unmarked, dropped |-> b.dropped, made |-> k]

\* One turn of the loop in Ledger::add.  The first record that fits after a run
\* of drops brings a marker with it.
AddOne(b, droppable) ==
    LET k   == b.made + 1
        new == b.lines
               \o (IF b.unmarked > 0 THEN <<Marker(b.unmarked)>> ELSE <<>>)
               \o <<Record(k)>>
    IN  IF droppable /\ Len(new) + pending > Cap
        THEN [lines |-> b.lines, unmarked |-> b.unmarked + 1,
              dropped |-> b.dropped + 1, made |-> k]
        ELSE [lines |-> new, unmarked |-> 0, dropped |-> b.dropped, made |-> k]

\* A bound on the records of a batch: After goes through the loop at most twice.
BatchMax == 2

\* The loop of Ledger::add for n records.
After(n, droppable) ==
    LET start == [lines |-> lines, unmarked |-> unmarked, dropped |-> dropped,
                  made |-> made]
        first == AddOne(start, droppable)
    IN  IF n = 0 THEN start ELSE IF n = 1 THEN first ELSE AddOne(first, droppable)

\* Ledger::add of a batch of n records.
Add(n, droppable) ==
    LET b == After(n, droppable)
    IN  /\ made + n <= MaxRecords /\ added < MaxBatches
        /\ lines' = b.lines /\ unmarked' = b.unmarked
        /\ dropped' = b.dropped /\ made' = b.made
        /\ added' = added + 1
        /\ ends' = Append(ends, offset + Len(taken) + Len(lines'))

\* Condvar::notify_one on to_writer, where only the writer waits.
NotifyWriter == IF wpc = "asleep" THEN "awake" ELSE wpc

\* Condvar::notify_all on from_writer.
NotifyThreads ==
    [t \in Threads |-> IF tpc[t] = "blocked" THEN "wait" ELSE tpc[t]]

\* Ledger::submit on an open ledger, of n records that are never dropped.  A call
\* that closes it does so without them if a payload fails to serialize, and then
\* errors; any other call errors at once.  The drop of Ledger closes it with no
\* records.
Submit(t, n, closing, spoilt) ==
    /\ tpc[t] = "idle" /\ ~closed
    /\ spoilt => closing /\ n = 0
    /\ Add(n, FALSE)
    /\ IF closing THEN closed' = TRUE /\ urgent' = urgent
                  ELSE urgent' = TRUE /\ closed' = closed
    /\ idle' = IF Len(lines') > Len(lines) THEN FALSE ELSE idle
    /\ wpc' = NotifyWriter
    /\ tpc' = [tpc EXCEPT ![t] = "wait"]
    /\ target' = [target EXCEPT ![t] = added']
    /\ last' = [last EXCEPT ![t] = closing]
    /\ fails' = [fails EXCEPT ![t] = spoilt]
    /\ outcome' = [outcome EXCEPT ![t] = "none"]
    /\ UNCHANGED <<pending, written, status, writer, disk>>

\* Ledger::submit on a closed ledger.  A call that would close it waits for the
\* one that did.
SubmitClosed(t, closing) ==
    /\ tpc[t] = "idle" /\ closed
    /\ IF closing
       THEN /\ tpc' = [tpc EXCEPT ![t] = "wait"]
            /\ target' = [target EXCEPT ![t] = added]
            /\ last' = [last EXCEPT ![t] = TRUE]
            /\ fails' = [fails EXCEPT ![t] = TRUE]
            /\ outcome' = [outcome EXCEPT ![t] = "none"]
       ELSE /\ outcome' = [outcome EXCEPT ![t] = "err"]
            /\ UNCHANGED <<tpc, calls>>
    /\ UNCHANGED <<buffer, pending, batches, written, wake, status, wpc,
                   writer, disk>>

\* Mutant of Captured: a closed ledger takes the records.
CapturedAfterClose(t, n) ==
    /\ tpc[t] = "idle" /\ n > 0
    /\ Add(n, TRUE)
    /\ IF idle /\ Len(lines') > Len(lines)
       THEN idle' = FALSE /\ tpc' = [tpc EXCEPT ![t] = "notify"]
       ELSE UNCHANGED <<idle, tpc>>
    /\ UNCHANGED <<pending, written, urgent, closed, status, wpc, writer, disk,
                   calls, outcome>>

\* Mutant of Captured: the writer is no longer idle, but nobody wakes it.
CapturedNeverWakes(t, n) ==
    /\ tpc[t] = "idle" /\ ~closed /\ n > 0
    /\ Add(n, TRUE)
    /\ IF idle /\ Len(lines') > Len(lines)
       THEN idle' = FALSE /\ tpc' = tpc
       ELSE UNCHANGED <<idle, tpc>>
    /\ UNCHANGED <<pending, written, urgent, closed, status, wpc, writer, disk,
                   calls, outcome>>

\* Ledger::captured, of n records that are dropped when they do not fit.  Only
\* the thread that finds the writer idle wakes it, once it has left the lock.
Captured(t, n) ==
    /\ tpc[t] = "idle" /\ ~closed /\ n > 0
    /\ Add(n, TRUE)
    /\ IF idle /\ Len(lines') > Len(lines)
       THEN idle' = FALSE /\ tpc' = [tpc EXCEPT ![t] = "notify"]
       ELSE UNCHANGED <<idle, tpc>>
    /\ UNCHANGED <<pending, written, urgent, closed, status, wpc, writer, disk,
                   calls, outcome>>

CapturedWakes(t) ==
    /\ tpc[t] = "notify"
    /\ wpc' = NotifyWriter
    /\ tpc' = [tpc EXCEPT ![t] = "idle"]
    /\ UNCHANGED <<buffer, pending, batches, written, wake, status, writer,
                   disk, calls, outcome>>

\* What the wait in Shared::wait_for_writes waits for to end.
StillWaits(t) ==
    /\ written < target[t] /\ ~gaveUp
    /\ last[t] \/ ~failing

\* submit returns Ok if its batch is written, and an error if the writer gave
\* up, if the wait ended too soon or if the call fails in any case.
Return(t) ==
    /\ tpc' = [tpc EXCEPT ![t] = "idle"]
    /\ outcome' = [outcome EXCEPT ![t] =
                      IF written < target[t] \/ fails[t] THEN "err"
                      ELSE IF last[t] THEN "closed" ELSE "ok"]
    /\ target' = [target EXCEPT ![t] = 0]
    /\ last' = [last EXCEPT ![t] = FALSE]
    /\ fails' = [fails EXCEPT ![t] = FALSE]

\* Shared::wait_for_writes checks the condition under the lock.
WaitForWrites(t) ==
    /\ tpc[t] = "wait"
    /\ IF StillWaits(t)
       THEN tpc' = [tpc EXCEPT ![t] = "blocked"] /\ UNCHANGED <<calls, outcome>>
       ELSE Return(t)
    /\ UNCHANGED <<buffer, pending, batches, written, wake, status, wpc,
                   writer, disk>>

\* Its deadline passes.
DeadlinePasses(t) ==
    /\ tpc[t] = "blocked"
    /\ Return(t)
    /\ UNCHANGED <<buffer, pending, batches, written, wake, status, wpc,
                   writer, disk>>

-----------------------------------------------------------------------------
(* The writer, Shared::run_writer. *)

\* What Shared::wait_for_lines waits for.
Due == lines # <<>> \/ closed \/ urgent

\* Shared::wait_for_lines after a write waits a while for more lines.
Gather ==
    /\ wpc = "top" /\ wrote /\ ~Due
    /\ wpc' = "gather"
    /\ UNCHANGED <<buffer, pending, batches, written, wake, status, writer,
                   disk, tpc, calls, outcome>>

\* The while is over, or a thread's notify ends the wait.
GatherEnds ==
    /\ wpc = "gather"
    /\ wpc' = "gathered"
    /\ UNCHANGED <<buffer, pending, batches, written, wake, status, writer,
                   disk, tpc, calls, outcome>>

\* Mutant of Sleep: the writer does not mark itself idle.
SleepUnmarked ==
    /\ wpc = "gathered" \/ (wpc = "top" /\ ~wrote)
    /\ ~Due
    /\ idle' = idle
    /\ wpc' = "asleep"
    /\ UNCHANGED <<buffer, pending, batches, written, urgent, closed, status,
                   writer, disk, tpc, calls, outcome>>

\* With nothing to do, the writer marks itself idle and sleeps.
Sleep ==
    /\ wpc = "gathered" \/ (wpc = "top" /\ ~wrote)
    /\ ~Due
    /\ idle' = TRUE
    /\ wpc' = "asleep"
    /\ UNCHANGED <<buffer, pending, batches, written, urgent, closed, status,
                   writer, disk, tpc, calls, outcome>>

\* A notify that comes late finds nothing to do, and the wait goes on.
SleepOn ==
    /\ wpc = "awake" /\ ~Due
    /\ wpc' = "asleep"
    /\ UNCHANGED <<buffer, pending, batches, written, wake, status, writer,
                   disk, tpc, calls, outcome>>

\* The writer holds the lock and goes through its loop: with lines or a call
\* that waits, or after a write that failed.
Runs == wpc = "retry" \/ (wpc \in {"top", "gathered", "awake"} /\ Due)

\* The `idle = false` at the end of wait_for_lines.
NoLongerIdle == idle' = IF wpc = "awake" THEN FALSE ELSE idle

\* Closed, and everything is written.
Finish ==
    /\ Runs /\ closed /\ lines = <<>> /\ taken = <<>>
    /\ NoLongerIdle
    /\ wpc' = "closing"
    /\ UNCHANGED <<buffer, pending, batches, written, urgent, closed, status,
                   writer, disk, tpc, calls, outcome>>

\* Closed, and the writes kept failing for STOP_TIMEOUT.
GiveUp ==
    /\ Runs /\ retrying /\ closed /\ giveUpAt = "past"
    /\ ~(lines = <<>> /\ taken = <<>>)
    /\ lines' = <<>> /\ pending' = 0 /\ gaveUp' = TRUE /\ taken' = <<>>
    /\ NoLongerIdle
    /\ tpc' = NotifyThreads
    /\ wpc' = "quit"
    /\ UNCHANGED <<unmarked, dropped, made, batches, written, urgent, closed,
                   failing, offset, wrote, retrying, giveUpAt, snapshot, disk,
                   calls, outcome>>

\* Mutant of Take: the new lines go in front of those a failed write left.
TakeInFront ==
    /\ Runs
    /\ ~(closed /\ lines = <<>> /\ taken = <<>>)
    /\ ~(retrying /\ closed /\ giveUpAt = "past")
    /\ giveUpAt' = IF retrying /\ closed THEN "set" ELSE giveUpAt
    /\ taken' = lines \o taken
    /\ lines' = <<>>
    /\ pending' = Len(taken')
    /\ urgent' = FALSE
    /\ snapshot' = added
    /\ NoLongerIdle
    /\ wpc' = "write"
    /\ UNCHANGED <<unmarked, dropped, made, batches, written, closed, status,
                   offset, wrote, retrying, disk, tpc, calls, outcome>>

\* Mutant of Take: no deadline is set for writes that fail after the close.
TakeWithoutDeadline ==
    /\ Runs
    /\ ~(closed /\ lines = <<>> /\ taken = <<>>)
    /\ ~(retrying /\ closed /\ giveUpAt = "past")
    /\ giveUpAt' = giveUpAt
    /\ taken' = taken \o lines
    /\ lines' = <<>>
    /\ pending' = Len(taken')
    /\ urgent' = FALSE
    /\ snapshot' = added
    /\ NoLongerIdle
    /\ wpc' = "write"
    /\ UNCHANGED <<unmarked, dropped, made, batches, written, closed, status,
                   offset, wrote, retrying, disk, tpc, calls, outcome>>

\* The writer takes the lines added so far, behind those a failed write left.
Take ==
    /\ Runs
    /\ ~(closed /\ lines = <<>> /\ taken = <<>>)
    /\ ~(retrying /\ closed /\ giveUpAt = "past")
    /\ giveUpAt' = IF retrying /\ closed THEN "set" ELSE giveUpAt
    /\ taken' = taken \o lines
    /\ lines' = <<>>
    /\ pending' = Len(taken')
    /\ urgent' = FALSE
    /\ snapshot' = added
    /\ NoLongerIdle
    /\ wpc' = "write"
    /\ UNCHANGED <<unmarked, dropped, made, batches, written, closed, status,
                   offset, wrote, retrying, disk, tpc, calls, outcome>>

GiveUpTimePasses ==
    /\ giveUpAt = "set"
    /\ giveUpAt' = "past"
    /\ UNCHANGED <<buffer, pending, batches, written, wake, status, wpc, taken,
                   offset, wrote, retrying, snapshot, disk, tpc, calls,
                   outcome>>

\* The file with `new` written at `at`: what was there beyond it stays.
Overwrite(at, new) ==
    [i \in 1 .. (IF Len(file) > at + Len(new) THEN Len(file) ELSE at + Len(new))
        |-> IF i \in at + 1 .. at + Len(new) THEN new[i - at] ELSE file[i]]

\* What part of the line after the first k of `taken` leaves at its place: the
\* line itself if it was there whole, and a torn one if not.
PartOf(k) ==
    IF offset + k + 1 <= Len(file) /\ file[offset + k + 1] = taken[k + 1]
    THEN taken[k + 1] ELSE Torn

\* What a write that fails after k lines has written of those taken.
Partial(k, partly) ==
    SubSeq(taken, 1, k) \o (IF partly THEN <<PartOf(k)>> ELSE <<>>)

\* The write of the lines taken succeeds.
Write ==
    /\ wpc = "write"
    /\ file' = Overwrite(offset, taken)
    /\ offset' = offset + Len(taken)
    /\ taken' = <<>>
    /\ wrote' = TRUE /\ retrying' = FALSE
    /\ wpc' = "wrote"
    /\ UNCHANGED <<buffer, pending, batches, written, wake, status, giveUpAt,
                   snapshot, locked, tpc, calls, outcome>>

\* The write fails once it has written the first k lines and perhaps part of
\* the next.  A write of nothing does not fail.
WriteFails(k, partly) ==
    /\ wpc = "write" /\ k < Len(taken)
    /\ file' = Overwrite(offset, Partial(k, partly))
    /\ retrying' = TRUE
    /\ wpc' = "failed"
    /\ UNCHANGED <<buffer, pending, batches, written, wake, status, taken,
                   offset, wrote, giveUpAt, snapshot, locked, tpc, calls,
                   outcome>>

\* The failure is noted and the calls that wait are woken.  After FLUSH_INTERVAL
\* the writer tries again.
NoteFailure ==
    /\ wpc = "failed"
    /\ failing' = TRUE
    /\ tpc' = NotifyThreads
    /\ wpc' = "retry"
    /\ UNCHANGED <<buffer, pending, batches, written, wake, gaveUp, writer,
                   disk, calls, outcome>>

\* Mutant of NoteWrite: the last write is noted before the file is closed.
NoteWriteEarly ==
    /\ wpc = "wrote"
    /\ failing' = FALSE /\ pending' = 0
    /\ IF closed /\ lines = <<>>
       THEN wpc' = "closing" /\ written' = snapshot /\ tpc' = NotifyThreads
       ELSE wpc' = "top" /\ written' = snapshot /\ tpc' = NotifyThreads
    /\ UNCHANGED <<buffer, batches, wake, gaveUp, writer, disk, calls,
                   outcome>>

\* The write is noted.  If it was the last, that waits until the file is closed.
NoteWrite ==
    /\ wpc = "wrote"
    /\ failing' = FALSE /\ pending' = 0
    /\ IF closed /\ lines = <<>>
       THEN wpc' = "closing" /\ UNCHANGED <<written, tpc>>
       ELSE wpc' = "top" /\ written' = snapshot /\ tpc' = NotifyThreads
    /\ UNCHANGED <<buffer, batches, wake, gaveUp, writer, disk, calls,
                   outcome>>

\* The file is closed and its lock released.
CloseFile ==
    /\ wpc \in {"closing", "quit"}
    /\ locked' = FALSE
    /\ wpc' = IF wpc = "closing" THEN "final" ELSE "gone"
    /\ UNCHANGED <<buffer, pending, batches, written, wake, status, writer,
                   file, tpc, calls, outcome>>

NoteLast ==
    /\ wpc = "final"
    /\ written' = added
    /\ tpc' = NotifyThreads
    /\ wpc' = "gone"
    /\ UNCHANGED <<buffer, pending, batches, wake, status, writer, disk, calls,
                   outcome>>

WriterStep ==
    \/ Gather \/ GatherEnds \/ Sleep \/ SleepOn \/ Finish \/ GiveUp \/ Take
    \/ Write \/ NoteFailure \/ NoteWrite \/ CloseFile \/ NoteLast

ThreadStep(t) == WaitForWrites(t) \/ CapturedWakes(t) \/ DeadlinePasses(t)

\* Every call has returned and the bounds leave no other.
Done ==
    /\ wpc \in {"asleep", "gone"} /\ \A t \in Threads : tpc[t] = "idle"
    /\ UNCHANGED vars

Next ==
    \/ \E t \in Threads :
          \/ \E n \in 0 .. BatchMax, closing \in BOOLEAN, spoilt \in BOOLEAN :
                Submit(t, n, closing, spoilt)
          \/ \E closing \in BOOLEAN : SubmitClosed(t, closing)
          \/ \E n \in 1 .. BatchMax : Captured(t, n)
          \/ ThreadStep(t)
    \/ \E k \in 0 .. Len(taken), partly \in BOOLEAN : WriteFails(k, partly)
    \/ GiveUpTimePasses
    \/ WriterStep
    \/ Done

Spec == Init /\ [][Next]_vars

(***************************************************************************)
(* Fairness: the scheduler runs the writer and the threads, a write returns *)
(* and time passes.  Nothing makes a write succeed, or a thread add one.    *)
(***************************************************************************)
WriterMoves == WriterStep \/ \E k \in 0 .. Len(taken), partly \in BOOLEAN :
                                  WriteFails(k, partly)
Fairness ==
    /\ WF_vars(WriterMoves)
    /\ WF_vars(GiveUpTimePasses)
    /\ \A t \in Threads : WF_vars(ThreadStep(t))

FairSpec == Spec /\ Fairness

-----------------------------------------------------------------------------
(* Properties. *)

\* The lines accepted so far, in the order they will stand in the file.
Stream == SubSeq(file, 1, offset) \o taken \o lines

Records(s) == {i \in 1 .. Len(s) : s[i].kind = "record"}

\* The number of records the first i lines of s stand for, by what the last of
\* them says: a record has its number, and a marker counts on from the one before.
StandsFor(s, i) ==
    IF i = 0 THEN 0
    ELSE s[i].n + (IF s[i].kind = "dropped" /\ i > 1 THEN s[i - 1].n ELSE 0)

\* Each record is the next one, and a marker follows a record and counts some.
Follows(s, i) ==
    \/ s[i].kind = "record" /\ s[i].n = StandsFor(s, i - 1) + 1
    \/ s[i].kind = "dropped" /\ s[i].n > 0 /\ (i > 1 => s[i - 1].kind = "record")

(***************************************************************************)
(* No record goes missing unsaid: each record stands in the stream behind  *)
(* as many records and drops as were offered before it, and what the       *)
(* stream lacks at its end is the run of drops not marked yet.  The total  *)
(* the stop record reports is what the stream lacks (Ledger::add,          *)
(* Ledger::dropped).                                                       *)
(***************************************************************************)
EveryDropIsCounted ==
    /\ \A i \in 1 .. Len(Stream) : Follows(Stream, i)
    /\ ~gaveUp => /\ StandsFor(Stream, Len(Stream)) + unmarked = made
                  /\ Cardinality(Records(Stream)) + dropped = made

(***************************************************************************)
(* The file holds a prefix of the stream, whatever writes failed before:   *)
(* "The bytes it wrote before it failed are a prefix of what the next try  *)
(* writes" (Shared::run_writer).  A torn line is the last one, and stands  *)
(* only while a failed write is to be tried again or was given up.         *)
(***************************************************************************)
FileIsPrefix ==
    LET n == Len(file)
    IN  /\ offset <= n
        /\ ~gaveUp => \A i \in 1 .. n : file[i] \in {Torn, Stream[i]}
        /\ \A i \in 1 .. n : file[i] = Torn => i = n /\ retrying

(***************************************************************************)
(* A batch counts as written only once its lines are in the file, so a     *)
(* call returns Ok only for records a reader finds there.  A call that     *)
(* closed the ledger returns Ok only once the file is unlocked, so a       *)
(* ledger opened at the path then can lock it (Ledger::submit,             *)
(* Shared::run_writer).                                                    *)
(***************************************************************************)
OkMeansWritten ==
    /\ \A b \in 1 .. written : ends[b] <= offset
    /\ \A t \in Threads : outcome[t] = "closed" => ~locked

(***************************************************************************)
(* No wake is lost: the writer does not sleep on lines or on a call that   *)
(* waits, unless a thread is about to wake it, and no call stays blocked   *)
(* once what it waits for has happened (State::idle).                      *)
(***************************************************************************)
NoLostWake ==
    /\ wpc = "asleep" /\ Due => \E t \in Threads : tpc[t] = "notify"
    /\ \A t \in Threads : tpc[t] = "blocked" => StillWaits(t)

(***************************************************************************)
(* Nothing follows the closing batch: a closed ledger takes no record, and *)
(* loses none unless it gives up on its writes (Ledger::close_with).  A    *)
(* record that may be dropped never takes the lines buffered and those the *)
(* writer holds, a failed write's included, past the cap                   *)
(* (State::is_over_cap).                                                   *)
(***************************************************************************)
KeepsTheLast == closed => Stream' = Stream \/ gaveUp'
KeepsTheCap  == \A t \in Threads, n \in 1 .. BatchMax :
                   Captured(t, n) /\ lines' # lines => Len(lines') + Len(taken') <= Cap

NothingAfterTheLast == [][KeepsTheLast /\ KeepsTheCap]_vars
=============================================================================
