---------------------------- MODULE Ledger_proofs ----------------------------
(***************************************************************************)
(* Proofs about Ledger, for any number of threads, any cap and any bounds   *)
(* on the records and batches: no wake is lost, Ok means written, the file  *)
(* is a prefix of the stream, nothing follows the closing batch, and every *)
(* dropped record is counted by the line that follows it.                  *)
(***************************************************************************)
EXTENDS Ledger, TLAPS

Line == {Record(k) : k \in Nat} \cup {Marker(n) : n \in Nat}

TypeOK ==
    /\ lines \in Seq(Line) /\ taken \in Seq(Line)
    /\ file \in Seq(Line \cup {Torn})
    /\ pending \in Nat /\ added \in Nat /\ written \in Nat /\ dropped \in Nat
    /\ unmarked \in Nat /\ offset \in Nat /\ snapshot \in Nat /\ made \in Nat
    /\ urgent \in BOOLEAN /\ idle \in BOOLEAN /\ closed \in BOOLEAN
    /\ failing \in BOOLEAN /\ gaveUp \in BOOLEAN /\ retrying \in BOOLEAN
    /\ wrote \in BOOLEAN /\ locked \in BOOLEAN
    /\ wpc \in {"top", "gather", "gathered", "asleep", "awake", "write", "wrote",
                "failed", "retry", "closing", "final", "quit", "gone"}
    /\ giveUpAt \in {"unset", "set", "past"}
    /\ tpc \in [Threads -> {"idle", "wait", "blocked", "notify"}]
    /\ target \in [Threads -> Nat] /\ ends \in Seq(Nat)
    /\ last \in [Threads -> BOOLEAN] /\ fails \in [Threads -> BOOLEAN]
    /\ outcome \in [Threads -> {"none", "ok", "closed", "err"}]

\* A writer that sleeps has said so, is asked for nothing, and finds lines only
\* when a thread is about to wake it.  A blocked call has nothing to return.
WakeOK ==
    /\ wpc = "asleep" => ~closed /\ ~urgent
    /\ wpc \in {"asleep", "awake"} /\ lines = <<>> => idle
    /\ wpc = "asleep" /\ lines # <<>> => \E t \in Threads : tpc[t] = "notify"
    /\ \A t \in Threads : tpc[t] = "blocked" => StillWaits(t)

\* Where the writer is in its loop, what it has taken.
LoopOK ==
    /\ gaveUp <=> wpc = "quit" \/ (wpc = "gone" /\ gaveUp)
    /\ wpc \in {"closing", "final", "quit"} => closed
    /\ wpc \in {"wrote", "closing", "final"} => taken = <<>>
    /\ wpc \in {"closing", "final"} => lines = <<>>
    /\ wpc \in {"final", "gone"} => ~locked
    /\ wpc \in {"write", "wrote"} /\ lines # <<>> => snapshot < added
    /\ Len(taken) <= pending

\* The end of every batch lies in the stream, and those the writer has taken
\* with it end no later than what it is about to write.
EndsOK ==
    /\ Len(ends) = added /\ written <= added /\ snapshot <= added
    /\ \A b \in 1 .. added : ~gaveUp => ends[b] <= offset + Len(taken) + Len(lines)
    /\ \A b \in 1 .. snapshot :
          wpc \in {"write", "wrote"} => ends[b] <= offset + Len(taken)
    /\ \A b \in 1 .. written : ends[b] <= offset

\* The call that closed the ledger waits for its last batch, and that one
\* counts as written only once the file is unlocked.
CloseOK ==
    /\ closed /\ written = added => ~locked
    /\ \A t \in Threads : last[t] /\ ~fails[t] => closed /\ target[t] = added
    /\ \A t \in Threads : outcome[t] = "closed" => ~locked

\* The file beyond the offset is what the writer has taken, whole up to the last
\* line, which a failed write may have torn.
FileOK ==
    /\ offset <= Len(file)
    /\ ~gaveUp => Len(file) <= offset + Len(taken)
    /\ \A i \in 1 .. Len(file) :
          \/ i <= offset /\ file[i] # Torn
          \/ i > offset /\ (gaveUp \/ file[i] = taken[i - offset]) /\ file[i] # Torn
          \/ i > offset /\ file[i] = Torn /\ i = Len(file) /\ retrying

Inv == TypeOK /\ WakeOK /\ LoopOK /\ EndsOK /\ CloseOK /\ FileOK

-----------------------------------------------------------------------------
(* What Ledger::add does to the buffer and to the batches. *)

Buffers == [lines : Seq(Line), unmarked : Nat, dropped : Nat, made : Nat]

\* Old stands for the lines before, new for those after: either nothing was
\* added, or what was added fits when it may be dropped.
Grows(old, new, droppable) ==
    \/ new = old
    \/ Len(new) > Len(old) /\ (droppable => Len(new) + pending <= Cap)

\* Zenon proves what follows by logic alone; the leaves that need arithmetic or
\* sequences name SMT.
USE Zenon

\* What joining and lengthening sequences does.

LEMMA SeqWidens == ASSUME NEW S, NEW T, S \subseteq T, NEW s \in Seq(S) PROVE s \in Seq(T)
BY SMTT(30)

LEMMA JoinParts ==
  ASSUME NEW S, NEW s \in Seq(S), NEW t \in Seq(S)
  PROVE  /\ s \o t \in Seq(S)
         /\ Len(s \o t) = Len(s) + Len(t)
         /\ \A i \in 1 .. Len(s) + Len(t) :
               (s \o t)[i] = IF i <= Len(s) THEN s[i] ELSE t[i - Len(s)]
BY SMTT(30)

LEMMA SameItems ==
  ASSUME NEW S, NEW T, NEW s \in Seq(S), NEW t \in Seq(T), Len(s) = Len(t),
         \A i \in 1 .. Len(s) : s[i] = t[i]
  PROVE  s = t
BY SMTT(30)

LEMMA JoinNothing == ASSUME NEW S, NEW s \in Seq(S) PROVE s \o <<>> = s /\ <<>> \o s = s
BY SMTT(30)

LEMMA JoinGroups ==
  ASSUME NEW S, NEW s \in Seq(S), NEW t \in Seq(S), NEW u \in Seq(S)
  PROVE  (s \o t) \o u = s \o (t \o u)
BY SMTT(30)

LEMMA AppendJoins == ASSUME NEW S, NEW s \in Seq(S), NEW x \in S PROVE Append(s, x) = s \o <<x>>
BY SMTT(30)

\* One turn of the loop of Ledger::add.
LEMMA AddOneGrows ==
  ASSUME TypeOK, NEW b \in Buffers, NEW droppable \in BOOLEAN
  PROVE  /\ AddOne(b, droppable) \in Buffers
         /\ Grows(b.lines, AddOne(b, droppable).lines, droppable)
<1> DEFINE k   == b.made + 1
           mark == IF b.unmarked > 0 THEN <<Marker(b.unmarked)>> ELSE <<>>
           new == b.lines \o mark \o <<Record(k)>>
<1>1. b.lines \in Seq(Line) /\ b.unmarked \in Nat /\ b.dropped \in Nat /\ b.made \in Nat
  BY DEF Buffers
<1>2. Record(k) \in Line /\ Marker(b.unmarked) \in Line
  BY <1>1, SMTT(30) DEF Line
<1>3. mark \in Seq(Line) /\ <<Record(k)>> \in Seq(Line) /\ Len(<<Record(k)>>) = 1
  BY <1>2, SMTT(30)
<1>4. new \in Seq(Line) /\ Len(new) = Len(b.lines) + Len(mark) + 1
  BY <1>1, <1>3, SMTT(30)
<1>5. Len(mark) \in Nat /\ Len(b.lines) \in Nat /\ Len(new) \in Nat /\ Len(new) > Len(b.lines)
  <2> HIDE DEF mark, new
  <2> QED BY <1>4, SMTT(30)
<1>6. CASE droppable /\ Len(new) + pending > Cap
  BY <1>6, SMTT(30) DEF AddOne, Buffers, Grows
<1>7. CASE ~(droppable /\ Len(new) + pending > Cap)
  <2>1. AddOne(b, droppable) = [lines |-> new, unmarked |-> 0, dropped |-> b.dropped,
                                made |-> k]
    BY <1>7 DEF AddOne
  <2> HIDE DEF new
  <2>2. droppable => Len(new) + pending <= Cap
    BY <1>7, CapAssumption, SMTT(30) DEF TypeOK
  <2>3. AddOne(b, droppable).lines = new
    BY <2>1, SMTT(30)
  <2>4. Grows(b.lines, AddOne(b, droppable).lines, droppable)
    BY <2>2, <2>3, <1>5 DEF Grows
  <2> QED BY <2>1, <2>4, <1>4, SMTT(30) DEF Buffers
<1> QED BY <1>6, <1>7

\* The whole loop, with the batch it counts.
LEMMA AddAdds ==
  ASSUME TypeOK, Len(ends) = added, NEW n \in Nat, NEW droppable \in BOOLEAN,
         Add(n, droppable)
  PROVE  /\ lines' \in Seq(Line) /\ unmarked' \in Nat /\ dropped' \in Nat /\ made' \in Nat
         /\ Grows(lines, lines', droppable)
         /\ added' = added + 1 /\ ends' \in Seq(Nat) /\ Len(ends') = added'
         /\ \A b \in 1 .. added : ends'[b] = ends[b]
         /\ ends'[added'] = offset + Len(taken) + Len(lines')
<1> DEFINE start == [lines |-> lines, unmarked |-> unmarked, dropped |-> dropped,
                     made |-> made]
           first == AddOne(start, droppable)
           second == AddOne(first, droppable)
<1>1. start \in Buffers /\ start.lines = lines
  BY DEF TypeOK, Buffers
<1>2. first \in Buffers /\ Grows(lines, first.lines, droppable)
  BY <1>1, AddOneGrows
<1>3. second \in Buffers /\ Grows(first.lines, second.lines, droppable)
  BY <1>2, AddOneGrows
<1>5. After(n, droppable) \in {start, first, second}
  BY DEF After
<1>6. After(n, droppable) \in Buffers /\ Grows(lines, After(n, droppable).lines, droppable)
  BY <1>1, <1>2, <1>3, <1>5, SMTT(30) DEF Grows
<1>7. /\ lines' \in Seq(Line) /\ unmarked' \in Nat /\ dropped' \in Nat /\ made' \in Nat
      /\ Grows(lines, lines', droppable) /\ added' = added + 1
      /\ ends' = Append(ends, offset + Len(taken) + Len(lines'))
  BY <1>6 DEF Add, Buffers
<1>8. offset + Len(taken) + Len(lines') \in Nat
  BY SMTT(30) DEF TypeOK
<1> QED BY <1>7, <1>8, SMTT(30) DEF TypeOK

-----------------------------------------------------------------------------
(* The threads that add records. *)

\* What a step that neither writes nor gives up leaves as it was.
LEMMA FileKept ==
  ASSUME FileOK, UNCHANGED <<file, offset, taken, gaveUp, retrying>>
  PROVE  FileOK'
BY DEF FileOK

\* Lines and a batch added behind what there is keep the ends in order.
LEMMA EndsGrow ==
  ASSUME TypeOK, EndsOK, NEW n \in Nat, NEW droppable \in BOOLEAN, Add(n, droppable),
         wpc' \in {"write", "wrote"} => wpc' = wpc,
         UNCHANGED <<written, snapshot, gaveUp, offset, taken>>
  PROVE  EndsOK'
<1>1. /\ lines' \in Seq(Line) /\ Grows(lines, lines', droppable)
      /\ added' = added + 1 /\ Len(ends') = added'
      /\ \A b \in 1 .. added : ends'[b] = ends[b]
      /\ ends'[added'] = offset + Len(taken) + Len(lines')
  BY AddAdds DEF EndsOK
<1>2. Len(lines) \in Nat /\ Len(lines') \in Nat /\ Len(taken) \in Nat /\ Len(lines') >= Len(lines)
  BY <1>1, SMTT(30) DEF TypeOK, Grows
<1>3. \A b \in 1 .. added : ends[b] \in Nat
  BY SMTT(30) DEF TypeOK, EndsOK
<1>4. \A b \in 1 .. added' : ~gaveUp' => ends'[b] <= offset' + Len(taken') + Len(lines')
  BY <1>1, <1>2, <1>3, SMTT(30) DEF EndsOK, TypeOK
<1>5. \A b \in 1 .. snapshot' :
         wpc' \in {"write", "wrote"} => ends'[b] <= offset' + Len(taken')
  <2> SUFFICES ASSUME NEW b \in 1 .. snapshot', wpc' \in {"write", "wrote"}
               PROVE  ends'[b] <= offset' + Len(taken')
    OBVIOUS
  <2>1. b \in 1 .. snapshot /\ b \in 1 .. added /\ wpc \in {"write", "wrote"}
    BY SMTT(30) DEF EndsOK, TypeOK
  <2>2. ends[b] <= offset + Len(taken)
    BY DEF EndsOK
  <2> QED BY <1>1, <2>1, <2>2
<1>6. \A b \in 1 .. written' : ends'[b] <= offset'
  BY <1>1, SMTT(30) DEF EndsOK, TypeOK
<1>7. written' <= added' /\ snapshot' <= added'
  BY <1>1, SMTT(30) DEF EndsOK, TypeOK
<1> QED BY <1>1, <1>4, <1>5, <1>6, <1>7 DEF EndsOK

\* Ledger::submit keeps the invariant; one lemma per step from here on.
LEMMA SubmitInv ==
  ASSUME Inv, NEW t \in Threads, NEW n \in 0 .. BatchMax, NEW closing \in BOOLEAN,
         NEW spoilt \in BOOLEAN, Submit(t, n, closing, spoilt)
  PROVE  Inv'
<1> n \in Nat
  BY SMTT(30) DEF BatchMax
<1> SUFFICES ASSUME Add(n, FALSE), TypeOK, WakeOK, LoopOK, EndsOK, CloseOK, FileOK
             PROVE  Inv'
  BY DEF Submit, Inv
<1>1. /\ lines' \in Seq(Line) /\ unmarked' \in Nat /\ dropped' \in Nat /\ made' \in Nat
      /\ Grows(lines, lines', FALSE)
      /\ added' = added + 1 /\ ends' \in Seq(Nat)
  BY AddAdds DEF EndsOK
<1>2. TypeOK'
  <2>1. wpc' \in {wpc, "awake"} /\ urgent' \in BOOLEAN /\ closed' \in BOOLEAN /\ idle' \in BOOLEAN
    BY DEF Submit, TypeOK, NotifyWriter
  <2>2. /\ tpc' \in [Threads -> {"idle", "wait", "blocked", "notify"}]
        /\ target' \in [Threads -> Nat]
        /\ last' \in [Threads -> BOOLEAN] /\ fails' \in [Threads -> BOOLEAN]
        /\ outcome' \in [Threads -> {"none", "ok", "closed", "err"}]
    BY <1>1, SMTT(30) DEF Submit, TypeOK
  <2>3. UNCHANGED <<pending, written, status, writer, disk>>
    BY DEF Submit
  <2> QED BY <1>1, <2>1, <2>2, <2>3, SMTT(30) DEF TypeOK, status, writer, disk
<1>3. lines' = <<>> => lines = <<>> /\ ~(Len(lines') > Len(lines))
  BY <1>1, SMTT(30) DEF Grows, TypeOK
<1>4. WakeOK'
  BY <1>3, SMTT(30) DEF Submit, NotifyWriter, WakeOK, StillWaits, status
<1>5. LoopOK'
  BY <1>1, SMTT(30) DEF Submit, LoopOK, NotifyWriter, status, writer, disk, EndsOK, TypeOK
<1>6. EndsOK'
  BY EndsGrow DEF Submit, NotifyWriter, status, writer
<1>7. CloseOK'
  <2>1. written' # added'
    BY <1>1, SMTT(30) DEF Submit, EndsOK, TypeOK
  <2>2. \A u \in Threads : last'[u] /\ ~fails'[u] => closed' /\ target'[u] = added'
    BY DEF Submit, CloseOK, TypeOK
  <2>3. \A u \in Threads : outcome'[u] = "closed" => ~locked'
    BY SMTT(30) DEF Submit, CloseOK, disk
  <2> QED BY <2>1, <2>2, <2>3 DEF CloseOK
<1>8. FileOK'
  BY FileKept DEF Submit, status, writer, disk
<1> QED BY <1>2, <1>4, <1>5, <1>6, <1>7, <1>8 DEF Inv

\* Ledger::captured, with room or without.
LEMMA CapturedInv ==
  ASSUME Inv, NEW t \in Threads, NEW n \in 1 .. BatchMax, Captured(t, n)
  PROVE  Inv'
<1> n \in Nat
  BY SMTT(30) DEF BatchMax
<1> SUFFICES ASSUME Add(n, TRUE), TypeOK, WakeOK, LoopOK, EndsOK, CloseOK, FileOK
             PROVE  Inv'
  BY DEF Captured, Inv
<1>1. /\ lines' \in Seq(Line) /\ unmarked' \in Nat /\ dropped' \in Nat /\ made' \in Nat
      /\ Grows(lines, lines', TRUE)
      /\ added' = added + 1 /\ ends' \in Seq(Nat)
  BY AddAdds DEF EndsOK
<1>2. TypeOK'
  <2>1. /\ tpc' \in [Threads -> {"idle", "wait", "blocked", "notify"}]
        /\ idle' \in BOOLEAN
    BY DEF Captured, TypeOK
  <2>2. UNCHANGED <<pending, written, urgent, closed, status, wpc, writer, disk,
                    calls, outcome>>
    BY DEF Captured
  <2>3. added' \in Nat
    BY <1>1, SMTT(30) DEF TypeOK
  <2> QED BY <1>1, <2>1, <2>2, <2>3, SMTT(30) DEF TypeOK, status, writer, disk, calls
<1>3. (lines' = <<>> => lines = <<>>) /\ (lines' # lines => Len(lines') > Len(lines))
  BY <1>1, SMTT(30) DEF Grows, TypeOK
<1>4. WakeOK'
  BY <1>3, SMTT(30) DEF Captured, WakeOK, TypeOK, StillWaits, status, calls
<1>5. LoopOK'
  BY <1>1, SMTT(30) DEF Captured, LoopOK, status, writer, disk, EndsOK, TypeOK
<1>6. EndsOK'
  BY EndsGrow DEF Captured, status, writer
<1>7. CloseOK'
  BY DEF Captured, CloseOK, disk, calls
<1>8. FileOK'
  BY FileKept DEF Captured, status, writer, disk
<1> QED BY <1>2, <1>4, <1>5, <1>6, <1>7, <1>8 DEF Inv

\* A step of a thread that adds nothing: what the writer and the file are at
\* stays, and every wake is accounted for.
LEMMA ThreadInv ==
  ASSUME Inv, TypeOK', CloseOK', WakeOK', wpc' \in {wpc, "awake"}, wpc' # wpc => wpc = "asleep",
         UNCHANGED <<buffer, pending, batches, written, wake, status, writer, disk>>
  PROVE  Inv'
<1>1. LoopOK'
  BY DEF Inv, LoopOK, buffer, batches, wake, status, writer, disk
<1>2. EndsOK'
  BY DEF Inv, EndsOK, buffer, batches, status, writer
<1>3. FileOK'
  BY FileKept DEF Inv, status, writer, disk
<1> QED BY <1>1, <1>2, <1>3 DEF Inv

\* Ledger::submit on a closed ledger.
LEMMA SubmitClosedInv ==
  ASSUME Inv, NEW t \in Threads, NEW closing \in BOOLEAN, SubmitClosed(t, closing)
  PROVE  Inv'
<1> SUFFICES ASSUME TypeOK, WakeOK, CloseOK
             PROVE  Inv'
  BY DEF Inv
<1>1. /\ tpc' \in [Threads -> {"idle", "wait", "blocked", "notify"}]
      /\ target' \in [Threads -> Nat]
      /\ last' \in [Threads -> BOOLEAN] /\ fails' \in [Threads -> BOOLEAN]
      /\ outcome' \in [Threads -> {"none", "ok", "closed", "err"}]
  BY ZenonT(30) DEF SubmitClosed, TypeOK, calls
<1>2. UNCHANGED <<buffer, pending, batches, written, wake, status, wpc, writer, disk>>
  BY DEF SubmitClosed
<1>3. TypeOK'
  BY <1>1, <1>2, SMTT(30) DEF TypeOK, buffer, batches, wake, status, writer, disk
<1>4. CloseOK'
  <2>1. \A u \in Threads : last'[u] /\ ~fails'[u] =>
                              last[u] /\ ~fails[u] /\ target'[u] = target[u]
    BY SMTT(30) DEF SubmitClosed, TypeOK, calls
  <2>2. \A u \in Threads : outcome'[u] = "closed" => outcome[u] = "closed"
    BY DEF SubmitClosed, TypeOK
  <2> QED BY <1>2, <2>1, <2>2 DEF CloseOK, batches, wake, disk
<1>5. WakeOK'
  <2>1. closed /\ wpc # "asleep"
    BY DEF SubmitClosed, WakeOK
  <2>2. \A u \in Threads : tpc'[u] = "blocked" =>
                              tpc[u] = "blocked" /\ target'[u] = target[u] /\ last'[u] = last[u]
    BY SMTT(30) DEF SubmitClosed, TypeOK, calls
  <2> QED BY <1>2, <2>1, <2>2 DEF WakeOK, StillWaits, buffer, wake, status
<1> QED BY <1>2, <1>3, <1>4, <1>5, ThreadInv

\* Ledger::captured wakes the writer after the unlock.
LEMMA CapturedWakesInv ==
  ASSUME Inv, NEW t \in Threads, CapturedWakes(t)
  PROVE  Inv'
<1> SUFFICES ASSUME TypeOK, WakeOK, CloseOK
             PROVE  Inv'
  BY DEF Inv
<1>1. wpc' # "asleep" /\ wpc' \in {wpc, "awake"} /\ (wpc' # wpc => wpc = "asleep")
  BY DEF CapturedWakes, NotifyWriter
<1>2. UNCHANGED <<buffer, pending, batches, written, wake, status, writer, disk, calls, outcome>>
  BY DEF CapturedWakes
<1>3. tpc' = [tpc EXCEPT ![t] = "idle"]
  BY DEF CapturedWakes
<1>4. TypeOK'
  BY <1>1, <1>2, <1>3, SMTT(30) DEF TypeOK, buffer, batches, wake, status, writer, disk, calls
<1>5. CloseOK'
  BY <1>2 DEF CloseOK, batches, wake, disk, calls
<1>6. WakeOK'
  BY <1>2, <1>3, <1>1, SMTT(30) DEF WakeOK, StillWaits, status, calls, buffer, wake
<1> QED BY <1>1, <1>2, <1>4, <1>5, <1>6, ThreadInv

\* The caller takes its result.
LEMMA ReturnInv ==
  ASSUME Inv, NEW t \in Threads, tpc[t] \in {"wait", "blocked"}, Return(t),
         UNCHANGED <<buffer, pending, batches, written, wake, status, wpc, writer, disk>>
  PROVE  Inv'
<1> SUFFICES ASSUME TypeOK, WakeOK, CloseOK, EndsOK
             PROVE  Inv'
  BY DEF Inv
<1>1. /\ tpc' \in [Threads -> {"idle", "wait", "blocked", "notify"}]
      /\ target' \in [Threads -> Nat]
      /\ last' \in [Threads -> BOOLEAN] /\ fails' \in [Threads -> BOOLEAN]
      /\ outcome' \in [Threads -> {"none", "ok", "closed", "err"}]
  BY DEF Return, TypeOK
<1>2. TypeOK'
  BY <1>1, SMTT(30) DEF TypeOK, buffer, batches, wake, status, writer, disk
<1>3. CloseOK'
  BY SMTT(30) DEF Return, TypeOK, CloseOK, EndsOK, batches, wake, disk
<1>4. WakeOK'
  BY DEF Return, TypeOK, WakeOK, StillWaits, buffer, wake, status
<1> QED BY <1>2, <1>3, <1>4, ThreadInv

\* A waiting call finds its batch written, fails, or blocks again.
LEMMA WaitForWritesInv ==
  ASSUME Inv, NEW t \in Threads, WaitForWrites(t)
  PROVE  Inv'
<1> SUFFICES ASSUME TypeOK, WakeOK, CloseOK
             PROVE  Inv'
  BY DEF Inv
<1>1. CASE StillWaits(t)
  <2>1. /\ tpc' = [tpc EXCEPT ![t] = "blocked"]
        /\ UNCHANGED <<buffer, pending, batches, written, wake, status, wpc, writer, disk,
                       calls, outcome>>
    BY <1>1 DEF WaitForWrites
  <2>2. TypeOK'
    BY <2>1, SMTT(30) DEF TypeOK, buffer, batches, wake, status, writer, disk, calls
  <2>3. CloseOK'
    BY <2>1 DEF CloseOK, batches, wake, disk, calls
  <2>4. WakeOK'
    BY <1>1 DEF WaitForWrites, TypeOK, StillWaits, status, calls, WakeOK, buffer, wake
  <2> QED BY <2>1, <2>2, <2>3, <2>4, ThreadInv
<1>2. CASE ~StillWaits(t)
  BY <1>2, ReturnInv DEF WaitForWrites
<1> QED BY <1>1, <1>2

\* The deadline of a waiting call passes.
LEMMA DeadlinePassesInv ==
  ASSUME Inv, NEW t \in Threads, DeadlinePasses(t)
  PROVE  Inv'
BY ReturnInv DEF DeadlinePasses

-----------------------------------------------------------------------------
(* The writer. *)

\* Once every call is woken, none is blocked, and who was to wake the writer
\* still is.
LEMMA Notified ==
  ASSUME TypeOK, tpc' = NotifyThreads
  PROVE  /\ tpc' \in [Threads -> {"idle", "wait", "blocked", "notify"}]
         /\ \A t \in Threads : tpc'[t] # "blocked" /\ (tpc[t] = "notify" => tpc'[t] = "notify")
BY DEF TypeOK, NotifyThreads

\* The writer waits, or goes on waiting.
LEMMA WaitsInv ==
  ASSUME Inv, Gather \/ GatherEnds \/ Sleep \/ SleepOn
  PROVE  Inv'
<1> SUFFICES ASSUME TypeOK, WakeOK, LoopOK, EndsOK, CloseOK, FileOK
             PROVE  Inv'
  BY DEF Inv
<1>1. /\ UNCHANGED <<buffer, pending, batches, written, urgent, closed, status, writer, disk,
                     tpc, calls, outcome>>
      /\ wpc \in {"top", "gather", "gathered", "awake"}
      /\ wpc' \in {"gather", "gathered", "asleep"}
      /\ idle' \in BOOLEAN
  BY DEF Gather, GatherEnds, Sleep, SleepOn, wake, TypeOK
<1>2. TypeOK'
  BY <1>1, SMTT(30) DEF TypeOK, buffer, batches, status, writer, disk, calls
<1>3. wpc' = "asleep" => ~closed /\ ~urgent /\ lines = <<>> /\ idle'
  BY DEF Gather, GatherEnds, Sleep, SleepOn, wake, Due, WakeOK
<1>4. WakeOK'
  BY <1>1, <1>3 DEF WakeOK, StillWaits, buffer, status, calls
<1>5. LoopOK'
  BY <1>1 DEF LoopOK, status, writer
<1>6. EndsOK'
  BY <1>1 DEF EndsOK, buffer, batches, status, writer
<1>7. CloseOK'
  BY <1>1 DEF CloseOK, batches, disk, calls
<1>8. FileOK'
  BY <1>1, FileKept DEF status, writer, disk
<1> QED BY <1>2, <1>4, <1>5, <1>6, <1>7, <1>8 DEF Inv

\* write_loop leaves its loop for good.
LEMMA FinishInv ==
  ASSUME Inv, Finish
  PROVE  Inv'
<1> SUFFICES ASSUME TypeOK, WakeOK, LoopOK, EndsOK, CloseOK, FileOK
             PROVE  Inv'
  BY DEF Inv
<1>1. /\ UNCHANGED <<buffer, pending, batches, written, urgent, closed, status, writer, disk,
                     tpc, calls, outcome>>
      /\ wpc \in {"retry", "top", "gathered", "awake"} /\ wpc' = "closing"
      /\ closed /\ lines = <<>> /\ taken = <<>> /\ idle' \in BOOLEAN
  BY DEF Finish, Runs, NoLongerIdle, TypeOK
<1>2. TypeOK'
  BY <1>1, SMTT(30) DEF TypeOK, buffer, batches, status, writer, disk, calls
<1>3. WakeOK'
  BY <1>1 DEF WakeOK, StillWaits, status, calls
<1>4. LoopOK'
  BY <1>1 DEF LoopOK, buffer, status, writer
<1>5. EndsOK'
  BY <1>1 DEF EndsOK, buffer, batches, status, writer
<1>6. CloseOK'
  BY <1>1 DEF CloseOK, batches, disk, calls
<1>7. FileOK'
  BY <1>1, FileKept DEF status, writer, disk
<1> QED BY <1>2, <1>3, <1>4, <1>5, <1>6, <1>7 DEF Inv

\* The writer gives up after the close.
LEMMA GiveUpInv ==
  ASSUME Inv, GiveUp
  PROVE  Inv'
<1> SUFFICES ASSUME TypeOK, WakeOK, LoopOK, EndsOK, CloseOK, FileOK
             PROVE  Inv'
  BY DEF Inv
<1>1. /\ UNCHANGED <<unmarked, dropped, made, batches, written, urgent, closed, failing,
                     offset, wrote, retrying, giveUpAt, snapshot, disk, calls, outcome>>
      /\ wpc' = "quit" /\ closed /\ gaveUp' = TRUE
      /\ lines' = <<>> /\ taken' = <<>> /\ pending' = 0 /\ idle' \in BOOLEAN
      /\ tpc' = NotifyThreads
  BY DEF GiveUp, NoLongerIdle, TypeOK
<1>2. tpc' \in [Threads -> {"idle", "wait", "blocked", "notify"}]
      /\ \A t \in Threads : tpc'[t] # "blocked"
  BY <1>1, Notified
<1>3. TypeOK'
  BY <1>1, <1>2, SMTT(30) DEF TypeOK, batches, disk, calls
<1>4. WakeOK'
  BY <1>1, <1>2 DEF WakeOK
<1>5. LoopOK'
  BY <1>1, SMTT(30) DEF LoopOK
<1>6. EndsOK'
  BY <1>1 DEF EndsOK, batches
<1>7. CloseOK'
  BY <1>1 DEF CloseOK, batches, disk, calls
<1>8. FileOK'
  BY <1>1 DEF FileOK, disk
<1> QED BY <1>3, <1>4, <1>5, <1>6, <1>7, <1>8 DEF Inv

\* The writer notes a failed write.
LEMMA NoteFailureInv ==
  ASSUME Inv, NoteFailure
  PROVE  Inv'
<1> SUFFICES ASSUME TypeOK, WakeOK, LoopOK, EndsOK, CloseOK, FileOK
             PROVE  Inv'
  BY DEF Inv
<1>1. /\ UNCHANGED <<buffer, pending, batches, written, wake, gaveUp, writer, disk, calls,
                     outcome>>
      /\ wpc = "failed" /\ wpc' = "retry" /\ failing' = TRUE /\ tpc' = NotifyThreads
  BY DEF NoteFailure
<1>2. tpc' \in [Threads -> {"idle", "wait", "blocked", "notify"}]
      /\ \A t \in Threads : tpc'[t] # "blocked"
  BY <1>1, Notified
<1>3. TypeOK'
  BY <1>1, <1>2, SMTT(30) DEF TypeOK, buffer, batches, wake, writer, disk, calls
<1>4. WakeOK'
  BY <1>1, <1>2 DEF WakeOK
<1>5. LoopOK'
  BY <1>1 DEF LoopOK, writer
<1>6. EndsOK'
  BY <1>1 DEF EndsOK, buffer, batches, writer
<1>7. CloseOK'
  BY <1>1 DEF CloseOK, batches, wake, disk, calls
<1>8. FileOK'
  BY <1>1, FileKept DEF writer, disk
<1> QED BY <1>3, <1>4, <1>5, <1>6, <1>7, <1>8 DEF Inv

\* The writer notes a write that went through.
LEMMA NoteWriteInv ==
  ASSUME Inv, NoteWrite
  PROVE  Inv'
<1> SUFFICES ASSUME TypeOK, WakeOK, LoopOK, EndsOK, CloseOK, FileOK
             PROVE  Inv'
  BY DEF Inv
<1>1. /\ UNCHANGED <<buffer, batches, wake, gaveUp, writer, disk, calls, outcome>>
      /\ wpc = "wrote" /\ failing' = FALSE /\ pending' = 0
      /\ taken = <<>> /\ Len(taken) = 0 /\ ~gaveUp
  BY DEF NoteWrite, LoopOK
<1>2. FileOK'
  BY <1>1, FileKept DEF writer, disk
<1>3. CASE closed /\ lines = <<>>
  <2>1. wpc' = "closing" /\ UNCHANGED <<written, tpc>>
    BY <1>3 DEF NoteWrite
  <2>2. TypeOK'
    BY <1>1, <2>1 DEF TypeOK, buffer, batches, wake, writer, disk, calls
  <2>3. WakeOK'
    BY <1>1, <2>1 DEF WakeOK, StillWaits, calls
  <2>4. LoopOK'
    BY <1>1, <1>3, <2>1, SMTT(30) DEF LoopOK, buffer, wake, writer
  <2>5. EndsOK'
    BY <1>1, <2>1 DEF EndsOK, buffer, batches, writer
  <2>6. CloseOK'
    BY <1>1, <2>1 DEF CloseOK, batches, wake, disk, calls
  <2> QED BY <1>2, <2>2, <2>3, <2>4, <2>5, <2>6 DEF Inv
<1>4. CASE ~(closed /\ lines = <<>>)
  <2>1. wpc' = "top" /\ written' = snapshot /\ tpc' = NotifyThreads
    BY <1>4 DEF NoteWrite
  <2>2. tpc' \in [Threads -> {"idle", "wait", "blocked", "notify"}]
        /\ \A t \in Threads : tpc'[t] # "blocked"
    BY <2>1, Notified
  <2>3. TypeOK'
    BY <1>1, <2>1, <2>2 DEF TypeOK, buffer, batches, wake, writer, disk, calls
  <2>4. WakeOK'
    BY <2>1, <2>2 DEF WakeOK
  <2>5. LoopOK'
    BY <1>1, <2>1, SMTT(30) DEF LoopOK, writer
  <2>6. EndsOK'
    BY <1>1, <2>1, SMTT(30) DEF EndsOK, TypeOK, buffer, batches, writer
  <2>7. CloseOK'
    BY <1>1, <1>4, <2>1, SMTT(30) DEF LoopOK, CloseOK, batches, wake, disk, calls, TypeOK
  <2> QED BY <1>2, <2>3, <2>4, <2>5, <2>6, <2>7 DEF Inv
<1> QED BY <1>3, <1>4

\* The writer unlocks the file.
LEMMA CloseFileInv ==
  ASSUME Inv, CloseFile
  PROVE  Inv'
<1> SUFFICES ASSUME TypeOK, WakeOK, LoopOK, EndsOK, CloseOK, FileOK
             PROVE  Inv'
  BY DEF Inv
<1>1. /\ UNCHANGED <<buffer, pending, batches, written, wake, status, writer, file, tpc, calls,
                     outcome>>
      /\ locked' = FALSE
      /\ \/ wpc = "closing" /\ wpc' = "final"
         \/ wpc = "quit" /\ wpc' = "gone"
  BY DEF CloseFile
<1>2. TypeOK'
  BY <1>1, ZenonT(30) DEF TypeOK, buffer, batches, wake, status, writer, calls
<1>3. WakeOK'
  BY <1>1 DEF WakeOK, StillWaits, status, calls
<1>4. LoopOK'
  BY <1>1 DEF LoopOK, buffer, wake, status, writer
<1>5. EndsOK'
  BY <1>1 DEF EndsOK, buffer, batches, status, writer
<1>6. CloseOK'
  BY <1>1 DEF CloseOK, batches, wake, calls
<1>7. FileOK'
  BY <1>1, FileKept DEF status, writer
<1> QED BY <1>2, <1>3, <1>4, <1>5, <1>6, <1>7 DEF Inv

\* The last batch counts as written.
LEMMA NoteLastInv ==
  ASSUME Inv, NoteLast
  PROVE  Inv'
<1> SUFFICES ASSUME TypeOK, WakeOK, LoopOK, EndsOK, CloseOK, FileOK
             PROVE  Inv'
  BY DEF Inv
<1>1. /\ UNCHANGED <<buffer, pending, batches, wake, status, writer, disk, calls, outcome>>
      /\ wpc = "final" /\ wpc' = "gone" /\ written' = added /\ tpc' = NotifyThreads
  BY DEF NoteLast
<1>2. lines = <<>> /\ taken = <<>> /\ Len(lines) = 0 /\ Len(taken) = 0 /\ ~gaveUp /\ ~locked
  BY <1>1 DEF LoopOK
<1>3. tpc' \in [Threads -> {"idle", "wait", "blocked", "notify"}]
      /\ \A t \in Threads : tpc'[t] # "blocked"
  BY <1>1, Notified
<1>4. TypeOK'
  BY <1>1, <1>3, SMTT(30) DEF TypeOK, buffer, batches, wake, status, writer, disk, calls
<1>5. WakeOK'
  BY <1>1, <1>3 DEF WakeOK
<1>6. LoopOK'
  BY <1>1 DEF LoopOK, writer, disk
<1>7. EndsOK'
  BY <1>2, <1>1, SMTT(30) DEF EndsOK, TypeOK, batches, writer
<1>8. CloseOK'
  BY <1>1, <1>2 DEF CloseOK, batches, wake, disk, calls
<1>9. FileOK'
  BY <1>1, FileKept DEF status, writer, disk
<1> QED BY <1>4, <1>5, <1>6, <1>7, <1>8, <1>9 DEF Inv

\* The time after which the writer gives up passes.
LEMMA GiveUpTimePassesInv ==
  ASSUME Inv, GiveUpTimePasses
  PROVE  Inv'
<1> SUFFICES ASSUME TypeOK, WakeOK, LoopOK, EndsOK, CloseOK, FileOK
             PROVE  Inv'
  BY DEF Inv
<1>1. /\ UNCHANGED <<buffer, pending, batches, written, wake, status, wpc, taken, offset, wrote,
                     retrying, snapshot, disk, tpc, calls, outcome>>
      /\ giveUpAt' = "past"
  BY DEF GiveUpTimePasses
<1>2. TypeOK'
  BY <1>1, SMTT(30) DEF TypeOK, buffer, batches, wake, status, disk, calls
<1>3. WakeOK' /\ LoopOK'
  BY <1>1 DEF WakeOK, LoopOK, StillWaits, buffer, batches, wake, status, disk, calls
<1>4. EndsOK' /\ CloseOK'
  BY <1>1 DEF EndsOK, CloseOK, buffer, batches, wake, status, disk, calls
<1>5. FileOK'
  BY <1>1, FileKept DEF status, disk
<1> QED BY <1>2, <1>3, <1>4, <1>5 DEF Inv

-----------------------------------------------------------------------------
(* The file. *)

\* The writer takes the lines.
LEMMA TakeInv ==
  ASSUME Inv, Take
  PROVE  Inv'
<1> SUFFICES ASSUME TypeOK, WakeOK, LoopOK, EndsOK, CloseOK, FileOK
             PROVE  Inv'
  BY DEF Inv
<1>1. /\ UNCHANGED <<unmarked, dropped, made, batches, written, closed, status, offset, wrote,
                     retrying, disk, tpc, calls, outcome>>
      /\ wpc \in {"retry", "top", "gathered", "awake"} /\ wpc' = "write"
      /\ lines' = <<>> /\ pending' = Len(taken')
      /\ urgent' = FALSE /\ snapshot' = added /\ idle' \in BOOLEAN
      /\ giveUpAt' \in {"unset", "set", "past"}
  BY DEF Take, Runs, NoLongerIdle, TypeOK
<1>2. /\ taken' \in Seq(Line) /\ Len(taken') = Len(taken) + Len(lines)
      /\ Len(taken) \in Nat /\ Len(lines) \in Nat
      /\ \A i \in 1 .. Len(taken) : taken'[i] = taken[i]
  BY SMTT(30) DEF TypeOK, Take
<1>3. TypeOK'
  <2>3. urgent' \in BOOLEAN /\ wpc' = "write"
    BY <1>1, ZenonT(30)
  <2> QED BY <1>1, <1>2, <2>3, SMTT(30) DEF TypeOK, batches, status, disk, calls
<1>4. WakeOK'
  BY <1>1 DEF WakeOK, StillWaits, status, calls
<1>5. ~gaveUp
  BY <1>1 DEF LoopOK
<1>6. LoopOK'
  BY <1>1, SMTT(30) DEF LoopOK, status, TypeOK
<1>7. EndsOK'
  BY <1>1, <1>2, <1>5, SMTT(30) DEF EndsOK, batches, TypeOK
<1>8. CloseOK'
  BY <1>1 DEF CloseOK, batches, disk, calls
<1>9. FileOK'
  <2>1. Len(file') <= offset' + Len(taken')
    BY <1>1, <1>2, <1>5, SMTT(30) DEF FileOK, disk, TypeOK
  <2>2. \A i \in 1 .. Len(file) : i > offset => taken'[i - offset] = taken[i - offset]
    <3> SUFFICES ASSUME NEW i \in 1 .. Len(file), i > offset
                 PROVE  taken'[i - offset] = taken[i - offset]
      OBVIOUS
    <3>1. Len(file) \in Nat /\ offset \in Nat /\ Len(file) <= offset + Len(taken)
      BY <1>5, SMTT(30) DEF FileOK, TypeOK
    <3>2. i - offset \in 1 .. Len(taken)
      BY <3>1, SMTT(30)
    <3> QED BY <1>2, <3>2
  <2> QED BY <1>1, <2>1, <2>2 DEF FileOK, disk, status
<1> QED BY <1>3, <1>4, <1>6, <1>7, <1>8, <1>9 DEF Inv

\* Lines written at the offset stand there; what was in front of them or beyond
\* them stays.
LEMMA Overwritten ==
  ASSUME TypeOK, offset <= Len(file), NEW new \in Seq(Line \cup {Torn})
  PROVE  LET f == Overwrite(offset, new)
         IN  /\ f \in Seq(Line \cup {Torn})
             /\ Len(f) = IF Len(file) > offset + Len(new) THEN Len(file) ELSE offset + Len(new)
             /\ \A i \in 1 .. Len(f) :
                   f[i] = IF i \in offset + 1 .. offset + Len(new) THEN new[i - offset] ELSE file[i]
<1> DEFINE size == IF Len(file) > offset + Len(new) THEN Len(file) ELSE offset + Len(new)
           at(i) == IF i \in offset + 1 .. offset + Len(new) THEN new[i - offset] ELSE file[i]
           f == [i \in 1 .. size |-> at(i)]
<1>1. /\ file \in Seq(Line \cup {Torn}) /\ offset \in Nat
      /\ Len(file) \in Nat /\ Len(new) \in Nat /\ size \in Nat
  BY SMTT(30) DEF TypeOK
<1>5. f \in Seq(Line \cup {Torn}) /\ Len(f) = size /\ \A i \in 1 .. Len(f) : f[i] = at(i)
  BY <1>1, SMTT(30)
<1>6. Overwrite(offset, new) = f
  BY DEF Overwrite
<1> QED BY <1>5, <1>6

\* A write of all that was taken.
LEMMA WriteInv ==
  ASSUME Inv, Write
  PROVE  Inv'
<1> SUFFICES ASSUME TypeOK, WakeOK, LoopOK, EndsOK, CloseOK, FileOK
             PROVE  Inv'
  BY DEF Inv
<1>1. /\ UNCHANGED <<buffer, pending, batches, written, wake, status, giveUpAt, snapshot, locked,
                     tpc, calls, outcome>>
      /\ wpc = "write" /\ wpc' = "wrote" /\ wrote' = TRUE /\ retrying' = FALSE
      /\ taken' = <<>> /\ Len(taken') = 0 /\ offset' = offset + Len(taken)
      /\ file' = Overwrite(offset, taken)
  BY DEF Write
<1>2. /\ taken \in Seq(Line) /\ Len(taken) \in Nat /\ offset \in Nat /\ Len(file) \in Nat
      /\ offset <= Len(file) /\ ~gaveUp /\ Len(file) <= offset + Len(taken)
  BY <1>1, SMTT(30) DEF TypeOK, FileOK, LoopOK
<1>3. taken \in Seq(Line \cup {Torn})
  BY <1>2, SeqWidens
<1>4. /\ file' \in Seq(Line \cup {Torn}) /\ Len(file') = offset'
      /\ \A i \in 1 .. Len(file') :
            file'[i] = IF i \in offset + 1 .. offset + Len(taken) THEN taken[i - offset]
                                                              ELSE file[i]
  <2> DEFINE f == Overwrite(offset, taken)
  <2>1. /\ f \in Seq(Line \cup {Torn})
        /\ Len(f) = IF Len(file) > offset + Len(taken) THEN Len(file) ELSE offset + Len(taken)
        /\ \A i \in 1 .. Len(f) :
              f[i] = IF i \in offset + 1 .. offset + Len(taken) THEN taken[i - offset] ELSE file[i]
    BY <1>2, <1>3, Overwritten
  <2> HIDE DEF f
  <2>2. Len(f) = offset + Len(taken)
    BY <1>2, <2>1, SMTT(30)
  <2> QED BY <1>1, <2>1, <2>2 DEF f
<1>5. TypeOK'
  <2>1. /\ taken' \in Seq(Line) /\ offset' \in Nat
        /\ wpc' = "wrote" /\ wrote' \in BOOLEAN /\ retrying' \in BOOLEAN
    <3>1. taken' \in Seq(Line)
      BY <1>1, SMTT(30)
    <3>2. offset' \in Nat
      BY <1>1, <1>2, SMTT(30)
    <3> QED BY <1>1, <3>1, <3>2
  <2>2. UNCHANGED <<buffer, pending, batches, written, wake, status, giveUpAt, snapshot, locked,
                    tpc, calls, outcome>>
    BY <1>1
  <2>3. file' \in Seq(Line \cup {Torn})
    BY <1>4
  <2> QED BY <2>1, <2>2, <2>3 DEF TypeOK, buffer, batches, wake, status, calls
<1>6. WakeOK'
  BY <1>1 DEF WakeOK, StillWaits, status, calls
<1>7. LoopOK'
  BY <1>1, SMTT(30) DEF LoopOK, buffer, batches, status, TypeOK
<1>8. EndsOK'
  BY <1>1, SMTT(30) DEF TypeOK, EndsOK, buffer, batches, status
<1>9. CloseOK'
  BY <1>1 DEF CloseOK, batches, wake, calls
<1>10. FileOK'
  <2>1. ASSUME NEW i \in 1 .. Len(file') PROVE i <= offset' /\ file'[i] # Torn
    <3>1. CASE i <= offset
      BY <1>2, <1>4, <3>1, SMTT(30) DEF FileOK
    <3>2. CASE i > offset
      BY <1>1, <1>2, <1>4, <3>2, SMTT(30) DEF Line, Torn, Record, Marker
    <3> QED BY <1>2, <3>1, <3>2, SMTT(30)
  <2> QED BY <1>4, <2>1, SMTT(30) DEF FileOK
<1> QED BY <1>5, <1>6, <1>7, <1>8, <1>9, <1>10 DEF Inv

\* A torn line is none of the lines.
LEMMA TornIsNoLine == Torn \notin Line
BY ZenonT(30) DEF Line, Torn, Record, Marker

\* What a write that fails leaves of the lines it was to write: all of the first
\* k, and perhaps a torn one.
LEMMA PartialWrite ==
  ASSUME TypeOK, NEW k \in Nat, k < Len(taken), NEW partly \in BOOLEAN
  PROVE  /\ Partial(k, partly) \in Seq(Line \cup {Torn})
         /\ Len(Partial(k, partly)) = IF partly THEN k + 1 ELSE k
         /\ \A i \in 1 .. k : Partial(k, partly)[i] = taken[i]
         /\ partly => Partial(k, partly)[k + 1] = PartOf(k)
         /\ PartOf(k) \in {taken[k + 1], Torn}
<1> DEFINE new == SubSeq(taken, 1, k) \o (IF partly THEN <<PartOf(k)>> ELSE <<>>)
<1>a. taken \in Seq(Line) /\ Len(taken) \in Nat
  BY SMTT(30) DEF TypeOK
<1>b. \A i \in 1 .. Len(taken) : taken[i] \in Line
  BY <1>a, SMTT(30)
<1>c. PartOf(k) \in {taken[k + 1], Torn} /\ PartOf(k) \in Line \cup {Torn}
  BY <1>b, SMTT(30) DEF PartOf
<1>1. \A i \in 1 .. k : taken[i] \in Line \cup {Torn}
  BY <1>b, SMTT(30)
<1>2. /\ SubSeq(taken, 1, k) \in Seq(Line \cup {Torn}) /\ Len(SubSeq(taken, 1, k)) = k
      /\ \A i \in 1 .. k : SubSeq(taken, 1, k)[i] = taken[i]
  BY <1>1, SMTT(30)
<1>3. ASSUME partly
      PROVE  /\ new \in Seq(Line \cup {Torn})
             /\ Len(new) = IF partly THEN k + 1 ELSE k
             /\ \A i \in 1 .. k : new[i] = taken[i]
             /\ partly => new[k + 1] = PartOf(k)
  BY <1>c, <1>3, <1>a, SMTT(30)
<1>4. ASSUME ~partly
      PROVE  /\ new \in Seq(Line \cup {Torn})
             /\ Len(new) = IF partly THEN k + 1 ELSE k
             /\ \A i \in 1 .. k : new[i] = taken[i]
             /\ partly => new[k + 1] = PartOf(k)
  BY <1>4, <1>2, SMTT(30)
<1>5. /\ new \in Seq(Line \cup {Torn})
      /\ Len(new) = IF partly THEN k + 1 ELSE k
      /\ \A i \in 1 .. k : new[i] = taken[i]
      /\ partly => new[k + 1] = PartOf(k)
  BY <1>3, <1>4
<1> QED BY <1>5, <1>c DEF Partial

\* A write that fails leaves a prefix of what it was to write, and what an
\* earlier one left beyond that.
LEMMA WriteFailsInv ==
  ASSUME Inv, NEW k \in 0 .. Len(taken), NEW partly \in BOOLEAN, WriteFails(k, partly)
  PROVE  Inv'
<1> DEFINE new == Partial(k, partly)
<1>0. TypeOK /\ WakeOK /\ LoopOK /\ EndsOK /\ CloseOK /\ FileOK
  BY DEF Inv
<1>1. /\ UNCHANGED <<buffer, pending, batches, written, wake, status, taken, offset, wrote,
                     giveUpAt, snapshot, locked, tpc, calls, outcome>>
      /\ wpc = "write" /\ wpc' = "failed" /\ retrying' = TRUE
  BY DEF WriteFails
<1>2. /\ taken \in Seq(Line) /\ Len(taken) \in Nat /\ offset \in Nat /\ Len(file) \in Nat
      /\ offset <= Len(file) /\ ~gaveUp /\ Len(file) <= offset + Len(taken)
      /\ k \in Nat /\ k < Len(taken)
  BY <1>0, SMTT(30) DEF TypeOK, FileOK, LoopOK, WriteFails
<1>3. \A i \in 1 .. Len(taken) : taken[i] \in Line /\ taken[i] # Torn
  BY <1>2, TornIsNoLine, SMTT(30)
<1>5. /\ new \in Seq(Line \cup {Torn})
      /\ Len(new) = IF partly THEN k + 1 ELSE k
      /\ \A i \in 1 .. k : new[i] = taken[i]
      /\ partly => new[k + 1] = PartOf(k)
  BY <1>0, <1>2, PartialWrite
<1>6. /\ file' \in Seq(Line \cup {Torn})
      /\ Len(file') = IF Len(file) > offset + Len(new) THEN Len(file) ELSE offset + Len(new)
      /\ \A i \in 1 .. Len(file') :
            file'[i] = IF i \in offset + 1 .. offset + Len(new) THEN new[i - offset] ELSE file[i]
  <2> DEFINE f == Overwrite(offset, new)
  <2>1. file' = f
    BY DEF WriteFails
  <2> HIDE DEF new
  <2>2. /\ f \in Seq(Line \cup {Torn})
        /\ Len(f) = IF Len(file) > offset + Len(new) THEN Len(file) ELSE offset + Len(new)
        /\ \A i \in 1 .. Len(f) :
              f[i] = IF i \in offset + 1 .. offset + Len(new) THEN new[i - offset] ELSE file[i]
    BY <1>0, <1>2, <1>5, Overwritten
  <2> HIDE DEF f
  <2> QED BY <2>1, <2>2
<1> HIDE DEF new
<1>7. TypeOK'
  BY <1>0, <1>1, <1>6, ZenonT(30) DEF TypeOK, buffer, batches, wake, status, calls
<1>8. WakeOK'
  BY <1>0, <1>1 DEF WakeOK, StillWaits, status, calls
<1>9. LoopOK'
  BY <1>0, <1>1 DEF LoopOK, status
<1>10. EndsOK'
  BY <1>0, <1>1 DEF EndsOK, buffer, batches, status
<1>11. CloseOK'
  BY <1>0, <1>1, ZenonT(30) DEF CloseOK, batches, wake, calls
<1>12. FileOK'
  <2>0. offset' = offset /\ taken' = taken /\ retrying' /\ FileOK
    BY <1>0, <1>1
  <2>1. /\ Len(file') = IF Len(file) > offset + Len(new) THEN Len(file) ELSE offset + Len(new)
        /\ Len(file') \in Nat /\ offset <= Len(file') /\ Len(file') <= offset + Len(taken)
    BY <1>2, <1>5, <1>6, SMTT(30)
  <2>2. ASSUME NEW i \in 1 .. Len(file')
        PROVE  \/ i <= offset /\ file'[i] # Torn
               \/ i > offset /\ file'[i] = taken[i - offset] /\ file'[i] # Torn
               \/ i > offset /\ file'[i] = Torn /\ i = Len(file')
    <3> DEFINE j == i - offset
    <3>1. i \in Nat /\ Len(new) \in Nat
      BY <1>2, <1>5, <2>1, SMTT(30)
    <3>2. CASE i \in 1 .. offset
      <4>1. i \in 1 .. Len(file) /\ i <= offset /\ ~(i > offset)
            /\ i \notin offset + 1 .. offset + Len(new)
        BY <1>2, <3>1, <3>2, SMTT(30)
      <4> QED BY <1>6, <2>0, <4>1 DEF FileOK
    <3>3. CASE i \in offset + 1 .. offset + k
      <4>1. j \in 1 .. k /\ j \in 1 .. Len(taken) /\ i > offset
            /\ i \in offset + 1 .. offset + Len(new)
        BY <1>2, <1>5, <3>1, <3>3, SMTT(30)
      <4> QED BY <1>3, <1>5, <1>6, <4>1
    <3>4. CASE partly /\ i = offset + k + 1
      <4>1. j = k + 1 /\ i > offset /\ i \in offset + 1 .. offset + Len(new)
        BY <1>2, <1>5, <3>1, <3>4, SMTT(30)
      <4>2. file'[i] = PartOf(k)
        BY <1>5, <1>6, <3>4, <4>1
      <4>3. i = Len(file') \/ (i \in 1 .. Len(file) /\ i # Len(file) /\ i <= Len(file))
        BY <1>2, <1>5, <2>1, <3>1, <3>4, SMTT(30)
      <4>4. k + 1 \in 1 .. Len(taken) /\ ~(i <= offset)
        BY <1>2, <3>1, <4>1, SMTT(30)
      <4> QED BY <1>2, <1>3, <2>0, <3>4, <4>1, <4>2, <4>3, <4>4 DEF PartOf, FileOK
    <3>5. CASE i > offset + Len(new)
      <4>1. i \in 1 .. Len(file) /\ i > offset /\ ~(i <= offset) /\ Len(file') = Len(file)
            /\ i \notin offset + 1 .. offset + Len(new)
        BY <1>2, <2>1, <3>1, <3>5, SMTT(30)
      <4> QED BY <1>2, <1>6, <2>0, <4>1 DEF FileOK
    <3>6. i \in 1 .. offset \/ i \in offset + 1 .. offset + k \/ (partly /\ i = offset + k + 1)
          \/ i > offset + Len(new)
      BY <1>2, <1>5, <3>1, SMTT(30)
    <3> QED BY <3>2, <3>3, <3>4, <3>5, <3>6
  <2> QED BY <2>0, <2>1, <2>2 DEF FileOK
<1> QED BY <1>7, <1>8, <1>9, <1>10, <1>11, <1>12 DEF Inv

-----------------------------------------------------------------------------
(* The invariant, and what it gives. *)

\* The invariant holds at the start.
LEMMA InitInv == Init => Inv
<1> SUFFICES ASSUME Init PROVE Inv
  OBVIOUS
<1>1. TypeOK
  <2>2. /\ lines \in Seq(Line) /\ taken \in Seq(Line) /\ file \in Seq(Line \cup {Torn})
        /\ ends \in Seq(Nat)
    BY SMTT(30) DEF Init
  <2> QED BY <2>2 DEF Init, TypeOK
<1>2. WakeOK /\ LoopOK
  BY SMTT(30) DEF Init, WakeOK, LoopOK
<1>3. EndsOK /\ CloseOK /\ FileOK
  BY SMTT(30) DEF Init, EndsOK, CloseOK, FileOK
<1> QED BY <1>1, <1>2, <1>3 DEF Inv

\* Every step keeps it.
LEMMA NextInv ==
  ASSUME Inv, [Next]_vars
  PROVE  Inv'
<1>1. CASE UNCHANGED vars
  <2> USE <1>1 DEF vars, buffer, batches, wake, status, writer, disk, calls
  <2>1. TypeOK'
    BY SMTT(30) DEF Inv, TypeOK
  <2>2. WakeOK' /\ LoopOK'
    BY DEF Inv, WakeOK, LoopOK, StillWaits
  <2>3. EndsOK' /\ CloseOK' /\ FileOK'
    BY DEF Inv, EndsOK, CloseOK, FileOK
  <2> QED BY <2>1, <2>2, <2>3 DEF Inv
<1>2. ASSUME NEW t \in Threads, ThreadStep(t) PROVE Inv'
  BY <1>2, WaitForWritesInv, CapturedWakesInv, DeadlinePassesInv DEF ThreadStep
<1>3. CASE WriterStep
  BY <1>3, WaitsInv, FinishInv, GiveUpInv, TakeInv, WriteInv, NoteFailureInv, NoteWriteInv,
     CloseFileInv, NoteLastInv DEF WriterStep
<1>4. CASE Done
  BY <1>1, <1>4 DEF Done
<1> QED
  BY <1>1, <1>2, <1>3, <1>4, SubmitInv, SubmitClosedInv, CapturedInv, WriteFailsInv,
     GiveUpTimePassesInv DEF Next

\* The inductive invariant, for any number of threads, any cap and any failures
\* of the writes: where the writer sleeps, what it has taken, where the batches
\* end, what a call was told, and what the file holds.
THEOREM Invariance == Spec => []Inv
BY InitInv, NextInv, PTL DEF Spec

\* The writer never sleeps on lines or a call unless a thread is about to wake
\* it, and no call stays blocked past its time, for any number of threads.
THEOREM WakesAreNotLost == Spec => []NoLostWake
<1>1. Inv => NoLostWake
  BY DEF Inv, WakeOK, NoLostWake, Due
<1> QED BY <1>1, Invariance, PTL

\* What submit returns Ok for is in the file, and unlocked if it closed the
\* ledger, for any cap and whatever writes fail.
THEOREM OkIsHonest == Spec => []OkMeansWritten
<1>1. Inv => OkMeansWritten
  BY DEF Inv, EndsOK, CloseOK, OkMeansWritten
<1> QED BY <1>1, Invariance, PTL

\* The stream of a state of the ledger.
LEMMA StreamOf ==
  ASSUME TypeOK, FileOK
  PROVE  /\ Stream \in Seq(Line \cup {Torn})
         /\ Len(Stream) = offset + Len(taken) + Len(lines)
         /\ \A i \in 1 .. offset : Stream[i] = file[i]
         /\ \A i \in 1 .. Len(taken) : Stream[offset + i] = taken[i]
         /\ \A i \in 1 .. Len(lines) : Stream[offset + Len(taken) + i] = lines[i]
<1> DEFINE S    == Line \cup {Torn}
           head == SubSeq(file, 1, offset)
           two  == head \o taken
           s    == two \o lines
<1>0. file \in Seq(S) /\ taken \in Seq(S) /\ lines \in Seq(S)
  BY SMTT(30) DEF TypeOK
<1> HIDE DEF S
<1>1. /\ offset \in Nat /\ Len(file) \in Nat /\ Len(taken) \in Nat /\ Len(lines) \in Nat
      /\ offset <= Len(file)
  BY SMTT(30) DEF FileOK, TypeOK
<1>2. \A i \in 1 .. offset : file[i] \in S
  BY <1>0, <1>1, SMTT(30)
<1>3. head \in Seq(S) /\ Len(head) = offset /\ \A i \in 1 .. offset : head[i] = file[i]
  BY <1>1, <1>2, SMTT(30)
<1> HIDE DEF head
<1>4. /\ two \in Seq(S) /\ Len(two) = offset + Len(taken)
      /\ \A i \in 1 .. offset + Len(taken) :
            two[i] = IF i <= offset THEN head[i] ELSE taken[i - offset]
  BY <1>0, <1>3, JoinParts, SMTT(30)
<1> HIDE DEF two
<1>5. /\ s \in Seq(S) /\ Len(s) = offset + Len(taken) + Len(lines)
      /\ \A i \in 1 .. offset + Len(taken) + Len(lines) :
            s[i] = IF i <= offset + Len(taken) THEN two[i] ELSE lines[i - (offset + Len(taken))]
  <2>1. two \in Seq(S) /\ Len(two) = offset + Len(taken)
    BY <1>4
  <2>2. /\ s \in Seq(S) /\ Len(s) = Len(two) + Len(lines)
        /\ \A i \in 1 .. Len(two) + Len(lines) :
              s[i] = IF i <= Len(two) THEN two[i] ELSE lines[i - Len(two)]
    <3>1. \A p, q \in Seq(S) :
             /\ p \o q \in Seq(S) /\ Len(p \o q) = Len(p) + Len(q)
             /\ \A i \in 1 .. Len(p) + Len(q) :
                   (p \o q)[i] = IF i <= Len(p) THEN p[i] ELSE q[i - Len(p)]
      BY JoinParts
    <3> QED BY <1>0, <2>1, <3>1
  <2> HIDE DEF s
  <2> QED BY <2>1, <2>2
<1> HIDE DEF s
<1>6. \A i \in 1 .. offset : s[i] = file[i]
  BY <1>3, <1>4, <1>5, SMTT(30)
<1>7. ASSUME NEW i \in 1 .. Len(taken) PROVE s[offset + i] = taken[i]
  BY <1>1, <1>4, <1>5, SMTT(30)
<1>8. ASSUME NEW i \in 1 .. Len(lines) PROVE s[offset + Len(taken) + i] = lines[i]
  BY <1>1, <1>5, SMTT(30)
<1>9. s = Stream
  BY DEF s, two, head, Stream
<1> QED BY <1>5, <1>6, <1>7, <1>8, <1>9 DEF S

\* Whatever writes failed, the file is a prefix of the stream, and only its last
\* line may be torn, for any number of threads and lines.
THEOREM FileIsSound == Spec => []FileIsPrefix
<1>1. ASSUME Inv PROVE FileIsPrefix
  <2>0. TypeOK /\ FileOK /\ Len(file) \in Nat /\ offset \in Nat /\ Len(taken) \in Nat
    BY <1>1, SMTT(30) DEF Inv, TypeOK
  <2>1. ASSUME ~gaveUp, NEW i \in 1 .. Len(file), file[i] # Torn PROVE file[i] = Stream[i]
    <3>1. CASE i \in 1 .. offset
      BY <2>0, <3>1, StreamOf
    <3>2. CASE i \notin 1 .. offset
      <4>1. i - offset \in 1 .. Len(taken) /\ offset + (i - offset) = i /\ ~(i <= offset)
        <5>1. Len(file) <= offset + Len(taken)
          BY <2>0, <2>1 DEF FileOK
        <5> QED BY <2>0, <3>2, <5>1, SMTT(30)
      <4>2. file[i] = taken[i - offset]
        BY <2>0, <2>1, <4>1 DEF FileOK
      <4>3. Stream[offset + (i - offset)] = taken[i - offset]
        BY <2>0, <4>1, StreamOf
      <4> QED BY <4>1, <4>2, <4>3
    <3> QED BY <3>1, <3>2
  <2> QED BY <2>0, <2>1 DEF FileIsPrefix, FileOK
<1> QED BY <1>1, Invariance, PTL

-----------------------------------------------------------------------------
(* What a step may not do. *)

\* A record that may be dropped fits under the cap.
LEMMA CapKept == ASSUME Inv PROVE KeepsTheCap
<1> SUFFICES ASSUME NEW t \in Threads, NEW n \in 1 .. BatchMax, Captured(t, n), lines' # lines
             PROVE  Len(lines') + Len(taken') <= Cap
  BY DEF KeepsTheCap
<1>0. TypeOK /\ LoopOK /\ EndsOK /\ n \in Nat
  BY SMTT(30) DEF Inv, BatchMax
<1>1. lines' \in Seq(Line) /\ Grows(lines, lines', TRUE)
  BY <1>0, AddAdds DEF Captured, EndsOK
<1>2. Len(lines') + pending <= Cap
  BY <1>1 DEF Grows
<1>3. taken' = taken /\ Len(taken) <= pending
  BY <1>0 DEF Captured, writer, LoopOK
<1>4. Len(lines') \in Nat /\ Len(taken) \in Nat /\ pending \in Nat
  BY <1>0, SMTT(30) DEF TypeOK
<1> QED BY <1>2, <1>3, <1>4, CapAssumption, SMTT(30)

\* The file up to the offset stays, and is followed by what is written.
LEMMA HeadKept ==
  ASSUME TypeOK, FileOK, NEW new \in Seq(Line \cup {Torn})
  PROVE  LET f == Overwrite(offset, new)
         IN  /\ SubSeq(f, 1, offset) = SubSeq(file, 1, offset)
             /\ SubSeq(f, 1, offset + Len(new)) = SubSeq(file, 1, offset) \o new
<1> DEFINE f    == Overwrite(offset, new)
           S    == Line \cup {Torn}
           head == SubSeq(file, 1, offset)
           both == head \o new
           long == SubSeq(f, 1, offset + Len(new))
           short == SubSeq(f, 1, offset)
<1>1. /\ offset \in Nat /\ Len(file) \in Nat /\ Len(new) \in Nat /\ offset <= Len(file)
      /\ file \in Seq(S)
  BY SMTT(30) DEF TypeOK, FileOK
<1>2. /\ f \in Seq(S)
      /\ Len(f) = IF Len(file) > offset + Len(new) THEN Len(file) ELSE offset + Len(new)
      /\ \A i \in 1 .. Len(f) :
            f[i] = IF i \in offset + 1 .. offset + Len(new) THEN new[i - offset] ELSE file[i]
  BY <1>1, Overwritten
<1> HIDE DEF f, S
<1>3. Len(f) \in Nat /\ offset + Len(new) <= Len(f) /\ offset <= Len(f)
  BY <1>1, <1>2, SMTT(30)
<1>4. \A i \in 1 .. Len(f) : f[i] \in S
  BY <1>2, SMTT(30)
<1>6. head \in Seq(S) /\ Len(head) = offset /\ \A i \in 1 .. offset : head[i] = file[i]
  BY <1>1, SMTT(30)
<1>7. /\ long \in Seq(S) /\ Len(long) = offset + Len(new)
      /\ \A i \in 1 .. offset + Len(new) : long[i] = f[i]
  BY <1>1, <1>3, <1>4, SMTT(30)
<1>8. short \in Seq(S) /\ Len(short) = offset /\ \A i \in 1 .. offset : short[i] = f[i]
  BY <1>1, <1>3, <1>4, SMTT(30)
<1> HIDE DEF head, long, short
<1>9. /\ both \in Seq(S) /\ Len(both) = offset + Len(new)
      /\ \A i \in 1 .. offset + Len(new) :
            both[i] = IF i <= offset THEN head[i] ELSE new[i - offset]
  BY <1>6, JoinParts DEF S
<1> HIDE DEF both
<1>10. ASSUME NEW i \in 1 .. offset PROVE f[i] = file[i]
  BY <1>1, <1>2, SMTT(30)
<1>11. short = head
  BY <1>6, <1>8, <1>10, SMTT(30)
<1>12. ASSUME NEW i \in 1 .. offset + Len(new) PROVE long[i] = both[i]
  <2>1. CASE i <= offset
    <3>1. i \in 1 .. offset
      BY <1>1, <2>1, SMTT(30)
    <3> QED BY <1>6, <1>7, <1>9, <1>10, <2>1, <3>1
  <2>2. CASE ~(i <= offset)
    <3>1. i \in offset + 1 .. offset + Len(new) /\ i \in 1 .. Len(f)
      BY <1>1, <1>3, <2>2, SMTT(30)
    <3> QED BY <1>2, <1>7, <1>9, <2>2, <3>1
  <2> QED BY <2>1, <2>2
<1>13. long = both
  BY <1>7, <1>9, <1>12, SMTT(30)
<1> QED BY <1>11, <1>13, ZenonT(30) DEF f, head, both, long, short

\* The writer only moves lines along the stream.
LEMMA StreamKept ==
  ASSUME Inv,
         Take \/ Write \/ (\E k \in 0 .. Len(taken), partly \in BOOLEAN : WriteFails(k, partly))
  PROVE  Stream' = Stream
<1> DEFINE S    == Line \cup {Torn}
           head == SubSeq(file, 1, offset)
<1>0. TypeOK /\ FileOK
  BY DEF Inv
<1>1. /\ file \in Seq(S) /\ taken \in Seq(S) /\ lines \in Seq(S)
      /\ offset \in Nat /\ Len(file) \in Nat /\ offset <= Len(file)
  BY <1>0, SMTT(30) DEF TypeOK, FileOK
<1>2. head \in Seq(S)
  BY <1>1, SMTT(30)
<1>3. CASE Take
  <2>1. Stream' = head \o (taken \o lines) \o <<>>
    BY <1>3 DEF Take, Stream, disk
  <2> HIDE DEF head, S
  <2>2. head \o (taken \o lines) = head \o taken \o lines /\ head \o (taken \o lines) \in Seq(S)
    <3>2. taken \o lines \in Seq(S)
      BY <1>1, SMTT(30)
    <3> QED BY <1>2, <3>2, JoinParts, SMTT(30)
  <2>3. head \o (taken \o lines) \o <<>> = head \o (taken \o lines)
    BY SMTT(30)
  <2> QED BY <2>1, <2>2, <2>3, ZenonT(30) DEF Stream, head
<1>4. CASE Write
  <2>1. Stream' = SubSeq(Overwrite(offset, taken), 1, offset + Len(taken)) \o <<>> \o lines
    BY <1>4 DEF Write, Stream, buffer
  <2>2. SubSeq(Overwrite(offset, taken), 1, offset + Len(taken)) = head \o taken
    BY <1>0, <1>1, HeadKept
  <2> HIDE DEF head, S
  <2>4. (head \o taken) \o <<>> = head \o taken
    BY SMTT(30)
  <2> QED BY <2>1, <2>2, <2>4, ZenonT(30) DEF Stream, head
<1>5. ASSUME NEW k \in 0 .. Len(taken), NEW partly \in BOOLEAN, WriteFails(k, partly)
      PROVE  Stream' = Stream
  <2> DEFINE new == Partial(k, partly)
  <2>1. file' = Overwrite(offset, new) /\ UNCHANGED <<offset, taken, lines>>
    BY <1>5 DEF WriteFails, buffer
  <2>2. new \in Seq(S)
    BY <1>5, <1>0, PartialWrite, SMTT(30) DEF WriteFails
  <2> HIDE DEF new
  <2>3. SubSeq(Overwrite(offset, new), 1, offset) = head
    BY <1>0, <2>2, HeadKept
  <2> QED BY <2>1, <2>3 DEF Stream
<1> QED BY <1>3, <1>4, <1>5

\* A closed ledger takes nothing more and loses nothing until it gives up, and a
\* record that may be dropped never takes it over the cap, for any cap.
THEOREM LastIsLast == Spec => NothingAfterTheLast
<1>1. ASSUME Inv, [Next]_vars PROVE [KeepsTheLast /\ KeepsTheCap]_vars
  <2>1. CASE UNCHANGED <<file, offset, taken, lines>>
    BY <2>1, <1>1, CapKept DEF Stream, KeepsTheLast
  <2>2. CASE \E t \in Threads : \/ \E n \in 0 .. BatchMax, closing, spoilt \in BOOLEAN :
                                      Submit(t, n, closing, spoilt)
                                \/ \E n \in 1 .. BatchMax : Captured(t, n)
    BY <1>1, <2>2, CapKept DEF KeepsTheLast, Submit, Captured
  <2>3. CASE Take \/ Write \/ \E k \in 0 .. Len(taken), partly \in BOOLEAN : WriteFails(k, partly)
    BY <1>1, <2>3, StreamKept, CapKept DEF KeepsTheLast
  <2>4. CASE GiveUp
    BY <1>1, <2>4, CapKept DEF KeepsTheLast, GiveUp
  <2>5. ASSUME \/ \E t \in Threads : (\E closing \in BOOLEAN : SubmitClosed(t, closing))
                                     \/ ThreadStep(t)
               \/ Gather \/ GatherEnds \/ Sleep \/ SleepOn \/ Finish \/ NoteFailure
               \/ NoteWrite \/ CloseFile \/ NoteLast \/ GiveUpTimePasses \/ Done
               \/ UNCHANGED vars
        PROVE  UNCHANGED <<file, offset, taken, lines>>
    BY <2>5 DEF SubmitClosed, ThreadStep, WaitForWrites, CapturedWakes, DeadlinePasses, Gather,
       GatherEnds, Sleep, SleepOn, Finish, NoteFailure, NoteWrite, CloseFile, NoteLast,
       GiveUpTimePasses, Done, vars, buffer, writer, disk
  <2> QED BY <1>1, <2>1, <2>2, <2>3, <2>4, <2>5 DEF Next, WriterStep
<1> QED BY <1>1, Invariance, PTL DEF Spec, NothingAfterTheLast

-----------------------------------------------------------------------------
(* The account of what was dropped. *)

\* What a line of the file can be.
FileLine == Line \cup {Torn}

\* Every line has a number and a kind.
LEMMA LineParts ==
  \A x \in FileLine : x.n \in Nat /\ x.kind \in {"record", "dropped", "torn"}
BY SMTT(30) DEF FileLine, Line, Torn, Record, Marker

\* Every line of s follows from the lines before it.
InOrder(s) == \A i \in 1 .. Len(s) : Follows(s, i)

\* The lines s account for m records of which d were dropped, all of them marked.
Settled(s, d, m) ==
    /\ InOrder(s)
    /\ StandsFor(s, Len(s)) = m
    /\ Cardinality(Records(s)) + d = m

\* The same when the last u dropped records stand under no marker yet: the account
\* the ledger keeps in made, dropped and unmarked.
Tally(s, u, d, m) ==
    /\ InOrder(s)
    /\ Len(s) > 0 => s[Len(s)].kind = "record"
    /\ StandsFor(s, Len(s)) + u = m
    /\ Cardinality(Records(s)) + d = m

\* A line behind the others leaves what they say.
LEMMA AppendKeeps ==
  ASSUME NEW s \in Seq(FileLine), NEW x \in FileLine,
         NEW a \in Seq(FileLine), a = Append(s, x)
  PROVE  /\ StandsFor(a, Len(s)) = StandsFor(s, Len(s))
         /\ InOrder(s) /\ Follows(a, Len(s) + 1) => InOrder(a)
<1>3. ASSUME NEW i \in 0 .. Len(s) PROVE StandsFor(a, i) = StandsFor(s, i)
  BY SMTT(30) DEF StandsFor
<1>4. ASSUME NEW i \in 1 .. Len(s), Follows(s, i) PROVE Follows(a, i)
  BY <1>3, <1>4, SMTT(30) DEF Follows
<1> QED BY <1>3, <1>4, SMTT(30) DEF InOrder

\* The part of the stream that is in the file, when the writer gives up.
LEMMA GivenUp ==
  ASSUME TypeOK, FileOK, GiveUp, InOrder(Stream)
  PROVE  InOrder(Stream)'
<1>1. /\ Stream \in Seq(FileLine) /\ Len(Stream) = offset + Len(taken) + Len(lines)
      /\ \A i \in 1 .. offset : Stream[i] = file[i]
      /\ offset \in Nat /\ Len(taken) \in Nat /\ Len(lines) \in Nat
  BY StreamOf, SMTT(30) DEF FileLine, TypeOK
<1> DEFINE h == SubSeq(file, 1, offset)
<1>2. h \in Seq(FileLine) /\ Len(h) = offset /\ \A i \in 1 .. offset : h[i] = file[i]
  BY SMTT(30) DEF TypeOK, FileOK, FileLine
<1>3. Stream' = h \o <<>> \o <<>>
  BY DEF Stream, GiveUp, disk
<1> HIDE DEF h
<1>4. Stream' = h
  BY <1>3, SMTT(30)
<1>5. ASSUME NEW i \in 1 .. offset PROVE Follows(h, i)
  <2>1. Follows(Stream, i) /\ h[i] = Stream[i]
    BY <1>1, <1>2, SMTT(30) DEF InOrder
  <2>2. ASSUME NEW j \in 1 .. offset PROVE h[j] = Stream[j]
    BY <1>1, <1>2
  <2>3. i > 1 => i - 1 \in 1 .. offset
    BY <1>1, SMTT(30)
  <2>4. i > 1 => h[i - 1] = Stream[i - 1]
    BY <2>2, <2>3
  <2>5. i - 1 > 1 => h[(i - 1) - 1] = Stream[(i - 1) - 1]
    BY <1>1, <2>2, SMTT(30)
  <2>6. StandsFor(h, i - 1) = StandsFor(Stream, i - 1)
    BY <2>4, <2>5, SMTT(30) DEF StandsFor
  <2> QED BY <2>1, <2>4, <2>6, ZenonT(30) DEF Follows
<1> QED BY <1>2, <1>4, <1>5 DEF InOrder

\* Lines behind the last of two parts stand behind both.
LEMMA AppendBehind ==
  ASSUME NEW p \in Seq(FileLine), NEW l \in Seq(FileLine), NEW x \in FileLine, NEW y \in FileLine
  PROVE  /\ Append(p \o l, y) = p \o (l \o <<y>>)
         /\ Append(Append(p \o l, x), y) = p \o ((l \o <<x>>) \o <<y>>)
<1>2. \A e \in Seq(FileLine), z \in FileLine : Append(e, z) = e \o <<z>>
  BY SMTT(30)
<1>5. Append(p \o l, x) \in Seq(FileLine)
  BY SMTT(30)
<1>6. ASSUME NEW z \in FileLine PROVE Append(p \o l, z) = p \o (l \o <<z>>)
  <2>1. Append(p \o l, z) = (p \o l) \o <<z>> /\ <<z>> \in Seq(FileLine)
    BY SMTT(30)
  <2> QED BY <2>1, SMTT(30)
<1>7. Append(p \o l, x) = p \o (l \o <<x>>) /\ Append(p \o l, y) = p \o (l \o <<y>>)
  BY <1>6
<1>8. Append(Append(p \o l, x), y) = (p \o (l \o <<x>>)) \o <<y>>
  BY <1>2, <1>5, <1>7
<1>9. (p \o (l \o <<x>>)) \o <<y>> = p \o ((l \o <<x>>) \o <<y>>)
  BY SMTT(30)
<1> QED BY <1>7, <1>8, <1>9

\* The records of a stream can be counted, and a record behind it is one more: what
\* the lemmas below assume of Cardinality, and CountingHolds shows of it.
Counting ==
    /\ Cardinality({}) = 0
    /\ \A s \in Seq(FileLine) : Cardinality(Records(s)) \in Nat
    /\ \A s \in Seq(FileLine), x \in FileLine :
          Cardinality(Records(Append(s, x))) =
              Cardinality(Records(s)) + (IF x.kind = "record" THEN 1 ELSE 0)

\* A record in place keeps the account.
LEMMA RecordSettles ==
  ASSUME Counting, NEW s \in Seq(FileLine), NEW d \in Nat, NEW m \in Nat, Settled(s, d, m)
  PROVE  Tally(Append(s, Record(m + 1)), 0, d, m + 1)
<1>0. Record(m + 1) \in FileLine
  BY SMTT(30) DEF FileLine, Line, Record
<1>1. PICK x \in FileLine : x = Record(m + 1) /\ x.kind = "record" /\ x.n = m + 1
  BY <1>0 DEF Record
<1>2. PICK a \in Seq(FileLine) : a = Append(s, x)
  <2>1. Append(s, x) \in Seq(FileLine)
    BY SMTT(30)
  <2> QED BY <2>1
<1>3. Len(s) \in Nat /\ Len(a) = Len(s) + 1 /\ a[Len(a)] = x /\ Len(a) - 1 = Len(s)
  BY <1>2, SMTT(30)
<1>4. StandsFor(a, Len(s)) = m /\ InOrder(s)
  BY <1>2, AppendKeeps DEF Settled
<1>5. Follows(a, Len(a))
  BY <1>1, <1>3, <1>4 DEF Follows
<1>6. InOrder(a)
  BY <1>2, <1>3, <1>4, <1>5, AppendKeeps
<1>7. StandsFor(a, Len(a)) + 0 = m + 1
  BY <1>1, <1>3, SMTT(30) DEF StandsFor
<1>8. Cardinality(Records(a)) + d = m + 1
  BY <1>1, <1>2, SMTT(30) DEF Counting, Settled
<1>9. Tally(a, 0, d, m + 1)
  BY <1>1, <1>3, <1>6, <1>7, <1>8 DEF Tally
<1> QED BY <1>1, <1>2, <1>9

\* An account that is kept is in numbers.
LEMMA TallyType ==
  ASSUME Counting, NEW s \in Seq(FileLine), NEW u \in Nat, NEW d \in Nat, NEW m \in Nat,
         Tally(s, u, d, m)
  PROVE  StandsFor(s, Len(s)) \in Nat /\ Cardinality(Records(s)) \in Nat
<1>1. CASE Len(s) = 0
  BY <1>1 DEF StandsFor, Counting
<1>2. CASE Len(s) > 0
  BY LineParts, SMTT(30) DEF Tally, StandsFor, Counting
<1> QED BY <1>1, <1>2, SMTT(30)

\* With nothing unmarked the account is settled, and a marker settles the rest.
LEMMA NothingUnmarked ==
  ASSUME Counting, NEW s \in Seq(FileLine), NEW d \in Nat, NEW m \in Nat, Tally(s, 0, d, m)
  PROVE  Settled(s, d, m)
<1>1. StandsFor(s, Len(s)) \in Nat /\ StandsFor(s, Len(s)) + 0 = m
  BY TallyType DEF Tally
<1>2. StandsFor(s, Len(s)) = m
  BY <1>1, SMTT(30)
<1> QED BY <1>2 DEF Tally, Settled

LEMMA MarkerSettles ==
  ASSUME Counting, NEW s \in Seq(FileLine), NEW u \in Nat \ {0}, NEW d \in Nat, NEW m \in Nat,
         Tally(s, u, d, m)
  PROVE  Settled(Append(s, Marker(u)), d, m)
<1>0. Marker(u) \in FileLine
  BY DEF FileLine, Line, Marker
<1>1. PICK x \in FileLine : x = Marker(u) /\ x.kind = "dropped" /\ x.n = u
  BY <1>0 DEF Marker
<1>2. PICK a \in Seq(FileLine) : a = Append(s, x)
  <2>1. Append(s, x) \in Seq(FileLine)
    BY SMTT(30)
  <2> QED BY <2>1
<1>3. Len(s) \in Nat /\ Len(a) = Len(s) + 1 /\ a[Len(a)] = x /\ Len(a) - 1 = Len(s)
  BY <1>2, SMTT(30)
<1>4. Len(s) > 0 => a[Len(s)] = s[Len(s)] /\ s[Len(s)].kind = "record"
  BY <1>2, SMTT(30) DEF Tally
<1>5. Follows(a, Len(a))
  BY <1>1, <1>3, <1>4, SMTT(30) DEF Follows
<1>6. InOrder(a)
  BY <1>2, <1>3, <1>5, AppendKeeps DEF Tally
<1>7. StandsFor(a, Len(a)) = m
  <2>1. CASE Len(s) = 0
    BY <2>1, <1>1, <1>3, SMTT(30) DEF StandsFor, Tally
  <2>2. CASE Len(s) > 0
    BY <2>2, LineParts, <1>4, <1>1, <1>3, SMTT(30) DEF StandsFor, Tally
  <2> QED BY <2>1, <2>2, SMTT(30)
<1>8. Cardinality(Records(a)) + d = m
  BY <1>1, <1>2, SMTT(30) DEF Counting, Tally
<1> QED BY <1>1, <1>2, <1>6, <1>7, <1>8 DEF Settled

\* A dropped record waits for the next marker.
LEMMA TallyDropped ==
  ASSUME Counting, NEW s \in Seq(FileLine), NEW u \in Nat, NEW d \in Nat, NEW m \in Nat,
         Tally(s, u, d, m)
  PROVE  Tally(s, u + 1, d + 1, m + 1)
BY TallyType, SMTT(30) DEF Tally

\* Behind any lines p, one turn of the loop keeps the tally.
LEMMA AddOneTally ==
  ASSUME Counting, TypeOK, NEW p \in Seq(FileLine), NEW b \in Buffers, NEW droppable \in BOOLEAN,
         Tally(p \o b.lines, b.unmarked, b.dropped, b.made)
  PROVE  LET c == AddOne(b, droppable)
         IN  Tally(p \o c.lines, c.unmarked, c.dropped, c.made)
<1> DEFINE c == AddOne(b, droppable)
           x == Marker(b.unmarked)
           y == Record(b.made + 1)
           mark == IF b.unmarked > 0 THEN <<x>> ELSE <<>>
           new == b.lines \o mark \o <<y>>
           s   == p \o b.lines
<1>1. b.lines \in Seq(Line) /\ b.unmarked \in Nat /\ b.dropped \in Nat /\ b.made \in Nat
  BY DEF Buffers
<1>2. x \in FileLine /\ y \in FileLine
  BY <1>1, SMTT(30) DEF FileLine, Line
<1>3. b.lines \in Seq(FileLine)
  BY <1>1, SMTT(30) DEF FileLine
<1>4. s \in Seq(FileLine)
  BY <1>3, SMTT(30)
<1>5. CASE droppable /\ Len(new) + pending > Cap
  <2>1. c = [lines |-> b.lines, unmarked |-> b.unmarked + 1, dropped |-> b.dropped + 1,
             made |-> b.made + 1]
    BY <1>5 DEF AddOne
  <2>2. Tally(s, b.unmarked + 1, b.dropped + 1, b.made + 1)
    <3> HIDE DEF s
    <3>1. Tally(s, b.unmarked, b.dropped, b.made)
      BY DEF s
    <3> QED BY <1>1, <1>4, <3>1, TallyDropped
  <2> QED BY <2>1, <2>2, SMTT(30)
<1>6. CASE ~(droppable /\ Len(new) + pending > Cap)
  <2>1. c = [lines |-> new, unmarked |-> 0, dropped |-> b.dropped, made |-> b.made + 1]
    BY <1>6 DEF AddOne
  <2>2. Tally(p \o new, 0, b.dropped, b.made + 1)
    <3>0. Tally(s, b.unmarked, b.dropped, b.made)
      OBVIOUS
    <3>1. CASE b.unmarked > 0
      <4> HIDE DEF x, y, s
      <4>1. Tally(Append(Append(s, x), y), 0, b.dropped, b.made + 1)
        <5>1. Settled(Append(s, x), b.dropped, b.made)
          BY <1>1, <1>4, <3>0, <3>1, MarkerSettles, SMTT(30) DEF x
        <5>2. Append(s, x) \in Seq(FileLine)
          BY <1>2, <1>4, SMTT(30)
        <5> QED BY <1>1, <5>1, <5>2, RecordSettles, ZenonT(30) DEF y
      <4>2. Append(Append(s, x), y) = p \o new
        BY <1>2, <1>3, <3>1, AppendBehind, ZenonT(30) DEF s
      <4> QED BY <4>1, <4>2
    <3>2. CASE b.unmarked = 0
      <4> HIDE DEF y, s
      <4>1. Tally(Append(s, y), 0, b.dropped, b.made + 1)
        BY <1>1, <1>4, <3>0, <3>2, NothingUnmarked, RecordSettles DEF y
      <4>2. Append(s, y) = p \o new
        <5>2. new = b.lines \o <<y>>
          BY <3>2, SMTT(30)
        <5>3. Append(s, y) = p \o (b.lines \o <<y>>)
          BY <1>2, <1>3, AppendBehind, ZenonT(30) DEF s
        <5> QED BY <5>2, <5>3
      <4> QED BY <4>1, <4>2
    <3> QED BY <1>1, <3>1, <3>2, SMTT(30)
  <2> HIDE DEF new
  <2> QED BY <2>1, <2>2, SMTT(30)
<1> QED BY <1>5, <1>6

\* A batch of any size keeps the account (Ledger::submit, captured).
LEMMA AddTally ==
  ASSUME Counting, TypeOK, FileOK, NEW n \in Nat, NEW droppable \in BOOLEAN, Add(n, droppable),
         UNCHANGED <<file, offset, taken>>, Tally(Stream, unmarked, dropped, made)
  PROVE  Tally(Stream, unmarked, dropped, made)'
<1> DEFINE p     == SubSeq(file, 1, offset) \o taken
           start == [lines |-> lines, unmarked |-> unmarked, dropped |-> dropped,
                     made |-> made]
           first == AddOne(start, droppable)
           second == AddOne(first, droppable)
           T(b)  == Tally(p \o b.lines, b.unmarked, b.dropped, b.made)
<1>1. start \in Buffers
  BY DEF TypeOK, Buffers
<1>2. first \in Buffers
  BY <1>1, AddOneGrows
<1>3. p \in Seq(FileLine)
  BY SMTT(30) DEF TypeOK, FileOK, FileLine
<1>4. T(start)
  BY DEF Stream
<1>5. T(first)
  BY <1>1, <1>3, <1>4, AddOneTally
<1>6. T(second)
  <2> HIDE DEF first, p
  <2> QED BY <1>2, <1>3, <1>5, AddOneTally
<1>7. After(n, droppable) \in {start, first, second}
  BY DEF After
<1>8. T(After(n, droppable))
  BY <1>4, <1>5, <1>6, <1>7
<1>9. /\ lines' = After(n, droppable).lines /\ unmarked' = After(n, droppable).unmarked
      /\ dropped' = After(n, droppable).dropped /\ made' = After(n, droppable).made
  BY DEF Add
<1>10. Stream' = p \o lines'
  BY DEF Stream
<1> HIDE DEF p
<1> QED BY <1>8, <1>9, <1>10

\* Until the writer gives up the stream is in account; a writer that gave up has
\* closed the ledger, and what it left in the file still counts every drop.
CountOK ==
    IF gaveUp THEN closed /\ InOrder(Stream)
              ELSE Tally(Stream, unmarked, dropped, made)

\* Every step keeps the account.
LEMMA CountStep ==
  ASSUME Counting, Inv, CountOK, [Next]_vars
  PROVE  CountOK'
<1>0. TypeOK /\ FileOK
  BY DEF Inv
<1>1. ASSUME Stream' = Stream, UNCHANGED <<gaveUp, closed, unmarked, dropped, made>>
      PROVE  CountOK'
  BY <1>1 DEF CountOK
<1>2. ASSUME NEW t \in Threads, NEW n \in 0 .. BatchMax, NEW closing \in BOOLEAN,
             NEW spoilt \in BOOLEAN, Submit(t, n, closing, spoilt)
      PROVE  CountOK'
  <2>1. n \in Nat /\ Add(n, FALSE) /\ UNCHANGED <<file, offset, taken, gaveUp>> /\ ~closed
    <3>1. n \in Nat
      BY SMTT(30) DEF BatchMax
    <3>2. Add(n, FALSE) /\ ~closed /\ UNCHANGED <<status, writer, disk>>
      BY <1>2 DEF Submit
    <3> QED BY <3>1, <3>2 DEF status, writer, disk
  <2>2. ~gaveUp /\ Tally(Stream, unmarked, dropped, made)
    BY <2>1 DEF CountOK
  <2>3. Tally(Stream, unmarked, dropped, made)'
    BY <1>0, <2>1, <2>2, AddTally, ZenonT(30)
  <2> QED BY <2>1, <2>3 DEF CountOK
<1>3. ASSUME NEW t \in Threads, NEW n \in 1 .. BatchMax, Captured(t, n)
      PROVE  CountOK'
  <2>1. n \in Nat /\ Add(n, TRUE) /\ UNCHANGED <<file, offset, taken, gaveUp>> /\ ~closed
    <3>1. n \in Nat
      BY SMTT(30) DEF BatchMax
    <3>2. Add(n, TRUE) /\ ~closed /\ UNCHANGED <<status, writer, disk>>
      BY <1>3 DEF Captured
    <3> QED BY <3>1, <3>2 DEF status, writer, disk
  <2>2. ~gaveUp /\ Tally(Stream, unmarked, dropped, made)
    BY <2>1 DEF CountOK
  <2>3. Tally(Stream, unmarked, dropped, made)'
    BY <1>0, <2>1, <2>2, AddTally
  <2> QED BY <2>1, <2>3 DEF CountOK
<1>4. CASE GiveUp
  BY <1>4, <1>0, GivenUp DEF CountOK, Tally, GiveUp
<1>5. CASE Take \/ Write \/ \E k \in 0 .. Len(taken), partly \in BOOLEAN : WriteFails(k, partly)
  BY <1>5, <1>1, StreamKept DEF Take, Write, WriteFails, buffer, wake, status
<1>6. CASE \/ \E t \in Threads : (\E closing \in BOOLEAN : SubmitClosed(t, closing))
                                 \/ ThreadStep(t)
           \/ Gather \/ GatherEnds \/ Sleep \/ SleepOn \/ Finish \/ NoteFailure
           \/ NoteWrite \/ CloseFile \/ NoteLast \/ GiveUpTimePasses \/ Done
           \/ UNCHANGED vars
  BY <1>6, <1>1 DEF SubmitClosed, ThreadStep, WaitForWrites, CapturedWakes, DeadlinePasses,
     Gather, GatherEnds, Sleep, SleepOn, Finish, NoteFailure, NoteWrite, CloseFile, NoteLast,
     GiveUpTimePasses, Done, vars, buffer, writer, disk, wake, status, Stream
<1> QED BY <1>2, <1>3, <1>4, <1>5, <1>6 DEF Next, WriterStep

\* A line behind the others is one more record, or none.
LEMMA RecordsBehind ==
  ASSUME NEW s \in Seq(FileLine), NEW x \in FileLine
  PROVE  Records(Append(s, x)) =
             IF x.kind = "record" THEN Records(s) \cup {Len(s) + 1} ELSE Records(s)
<1>1. PICK a : a = Append(s, x)
  OBVIOUS
<1>3. CASE x.kind # "record"
  BY SMTT(30) DEF Records
<1>4. CASE x.kind = "record"
  BY SMTT(30) DEF Records
<1> QED BY <1>3, <1>4

\* An empty ledger has a settled account.
LEMMA CountInit == ASSUME Counting, Init PROVE CountOK
<1>1. file = <<>> /\ offset = 0 /\ taken = <<>> /\ lines = <<>>
  BY DEF Init
<1>2. Stream = <<>>
  BY <1>1, SMTT(30) DEF Stream
<1>3. Len(Stream) = 0 /\ Records(Stream) = {} /\ StandsFor(Stream, 0) = 0
  BY <1>2, SMTT(30) DEF Records, StandsFor
<1>4. Cardinality(Records(Stream)) = 0
  BY <1>3 DEF Counting
<1> QED BY <1>3, <1>4, SMTT(30) DEF Init, CountOK, Tally, InOrder

\* A kept account counts every dropped record.
LEMMA CountMeans == CountOK => EveryDropIsCounted
<1>1. CASE gaveUp
  BY <1>1 DEF CountOK, InOrder, EveryDropIsCounted
<1>2. CASE ~gaveUp
  BY DEF CountOK, Tally, InOrder, EveryDropIsCounted
<1> QED BY <1>1, <1>2

\* The facts about finite sets are taken here and not before, which keeps them out
\* of the steps above; their count is the model's.
FST == INSTANCE FiniteSetTheorems

\* The cardinality of the library is that of the model.
LEMMA SameCount == ASSUME NEW T PROVE Cardinality(T) = FST!Cardinality(T)
  BY DEF Cardinality, FST!Cardinality

\* Counting the records of one more line is adding one, or nothing.
LEMMA CountingHolds == Counting
<1>1. Cardinality({}) = 0
  BY SameCount, FST!FS_EmptySet
<1>2. ASSUME NEW s \in Seq(FileLine)
      PROVE  /\ Cardinality(Records(s)) \in Nat
             /\ \A j : j \notin Records(s) =>
                    Cardinality(Records(s) \cup {j}) = Cardinality(Records(s)) + 1
  <2>1. Len(s) \in Nat /\ FST!IsFiniteSet(1 .. Len(s))
    BY FST!FS_Interval, SMTT(30)
  <2>2. Records(s) \subseteq 1 .. Len(s)
    BY DEF Records
  <2>3. PICK r : r = Records(s)
    OBVIOUS
  <2>4. FST!IsFiniteSet(r)
    BY <2>1, <2>2, <2>3, FST!FS_Subset, ZenonT(30)
  <2>5. FST!Cardinality(r) \in Nat
    BY <2>4, FST!FS_CardinalityType
  <2>6. \A j : j \notin r => FST!Cardinality(r \cup {j}) = FST!Cardinality(r) + 1
    BY <2>4, FST!FS_AddElement
  <2> QED BY <2>3, <2>5, <2>6, SameCount, ZenonT(30)
<1>3. ASSUME NEW s \in Seq(FileLine), NEW x \in FileLine
      PROVE  Cardinality(Records(Append(s, x))) =
                 Cardinality(Records(s)) + (IF x.kind = "record" THEN 1 ELSE 0)
  <2>1. Cardinality(Records(s)) \in Nat /\ Len(s) + 1 \notin Records(s)
    BY <1>2, SMTT(30) DEF Records
  <2> QED BY <1>2, <2>1, RecordsBehind, SMTT(30)
<1> QED BY <1>1, <1>2, <1>3 DEF Counting

\* No record is lost unsaid, for any number of threads, any cap and any number of
\* records: each line in the stream is the next record or a marker that says how
\* many were dropped before it, and made is what was kept and what was dropped.
\* (Ledger::add, write_loop)
THEOREM DropsAreCounted == Spec => []EveryDropIsCounted
<1>1. Init => CountOK
  BY CountInit, CountingHolds
<1>2. Inv /\ CountOK /\ [Next]_vars => CountOK'
  BY CountStep, CountingHolds
<1> QED BY <1>1, <1>2, CountMeans, Invariance, PTL DEF Spec
=============================================================================
