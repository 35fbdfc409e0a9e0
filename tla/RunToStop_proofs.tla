-------------------------- MODULE RunToStop_proofs ---------------------------
(***************************************************************************)
(* The properties for any number of vCPUs, I/O threads, callers and        *)
(* requests.  The inductive invariant says what each thread's place tells: *)
(* a vCPU ends with a report or because it was told to, the thread that    *)
(* called boot leaves its wait for a reason that the result will name, and *)
(* whatever it has gone past is gone or on the list of threads left.       *)
(***************************************************************************)
EXTENDS RunToStop, TLAPS

\* Where the thread that called boot is after its wait, after its joins, and
\* with the result.
AfterWait == {"stop", "exits", "waitexits", "join", "waitio", "joinio", "outcome"}
AfterVcpus == {"waitio", "joinio", "outcome", "record", "claim", "returned"}
AfterIo == {"outcome", "record", "claim", "returned"}
WithResult == {"record", "claim", "returned", "panicked"}

\* The type of every variable the properties rest on.
TypeOK ==
    /\ vpc \in [Cpus -> {"none", "new", "loop", "ended", "marked", "counted", "gone"}]
    /\ ipc \in [Io -> {"body", "ask", "wake", "ended", "finished", "gone"}]
    /\ exitFlag \in [Cpus -> BOOLEAN] /\ finished \in [Io -> BOOLEAN]
    /\ apc \in [Askers -> {"idle", "first", "wake"}]
    /\ asking \in [Askers -> Signals \cup {"none", "api"}]
    /\ outcome \in {"none", "off", "reset", "failed"}
    /\ wakes \in Nat /\ exited \in Nat
    /\ spawned \in 0 .. N /\ next \in 0 .. N

ThreadsOK ==
    /\ \A c \in Cpus : /\ exitFlag[c] <=> vpc[c] \in {"marked", "counted", "gone"}
                       /\ vpc[c] = "none" <=> c >= spawned
    /\ \A t \in Io : finished[t] <=> ipc[t] \in {"finished", "gone"}
    /\ exited > 0 => \E c \in Cpus : vpc[c] \in {"counted", "gone"}

ReportsOK ==
    /\ failed <=> outcome = "failed"
    /\ outcome # "failed" => firstReport = outcome
    /\ \A c \in Cpus : vpc[c] \in {"ended", "marked", "counted", "gone"} =>
                           outcome # "none" \/ ~running

MainOK ==
    /\ mpc \in {"spawn", "announce", "check", "wait"} => running /\ ~failure
    /\ mpc = "install" => running \/ failure
    /\ mpc \in AfterWait => failure \/ outcome # "none" \/ first # "none"
    /\ mpc # "spawn" => spawned = N \/ failure

JoinOK ==
    /\ next <= spawned /\ (mpc \in AfterVcpus => next = spawned)
    /\ \A c \in Cpus : c < next => c \in left \/ vpc[c] = "gone"
    /\ mpc \in AfterIo => \A t \in Io : t \in left \/ ipc[t] = "gone"
    /\ result # "none" => mpc \in WithResult
    /\ mpc \in {"record", "claim", "returned"} => result # "none"
    /\ slot = "free" => mpc = "returned" /\ left = {}

SignalOK ==
    /\ \A a \in Callers : asking[a] \in {"none", "api"}
    /\ FirstSignalIsFound
    /\ first = "none" =>
          signal = IF apc["signals"] = "first" THEN asking["signals"] ELSE "none"
    /\ \A a \in Askers : apc[a] = "first" => asking[a] # "none"

StartsOK ==
    /\ startedIds \in Seq(Cpus) /\ recorded \in Seq(Cpus)
    /\ Len(recorded) <= Len(startedIds)
    /\ \A i \in 1 .. Len(recorded) : recorded[i] = startedIds[i]
    /\ stopRecord = NoRecord => announced = Len(recorded)
    /\ stopRecord # NoRecord =>
          /\ mpc \in {"claim", "returned"}
          /\ \A i \in Len(recorded) + 1 .. Len(startedIds) : startedIds[i] \in left

Inv ==
    /\ TypeOK /\ ThreadsOK /\ ReportsOK /\ MainOK /\ JoinOK
    /\ OkMeansClean /\ ResultIsCaused /\ NewsWakesTheLoop
    /\ SignalOK /\ StartsOK

\* Zenon proves what follows by logic alone; the leaves that need arithmetic or
\* functions name SMT.
USE Zenon

LEMMA InitInv ==
  ASSUME ConstantsAssumption, Init
  PROVE  Inv
<1> USE DEF Init, ConstantsAssumption, Cpus, Askers, NoRecord
<1>1. TypeOK
  BY SMTT(30) DEF TypeOK
<1>2. ThreadsOK /\ ReportsOK /\ MainOK /\ JoinOK /\ StartsOK
  BY SMTT(30) DEF ThreadsOK, ReportsOK, MainOK, JoinOK, StartsOK, AfterWait, AfterVcpus, AfterIo,
     WithResult
<1>3. OkMeansClean /\ ResultIsCaused /\ NewsWakesTheLoop /\ SignalOK
  BY DEF OkMeansClean, ResultIsCaused, NewsWakesTheLoop, News, SignalOK, FirstSignalIsFound
<1> QED BY <1>1, <1>2, <1>3 DEF Inv

\* The starts recorded so far and the rest are all of them.
LEMMA RestOf ==
  ASSUME NEW S, NEW r \in Seq(S), NEW s \in Seq(S), Len(r) <= Len(s),
         \A i \in 1 .. Len(r) : r[i] = s[i]
  PROVE  r \o SubSeq(s, Len(r) + 1, Len(s)) = s
<1> DEFINE q == SubSeq(s, Len(r) + 1, Len(s))
<1>1. /\ q \in Seq(S) /\ Len(q) = Len(s) - Len(r)
      /\ \A i \in 1 .. Len(s) - Len(r) : q[i] = s[Len(r) + i]
  BY SMTT(30)
<1> HIDE DEF q
<1>2. /\ r \o q \in Seq(S) /\ Len(r \o q) = Len(s)
      /\ \A i \in 1 .. Len(s) : (r \o q)[i] = s[i]
  BY <1>1, SMTT(30)
<1> QED BY <1>1, <1>2, SMTT(30) DEF q

\* What each part of the invariant depends on.
LEMMA Frame ==
  /\ TypeOK /\ UNCHANGED <<outcome, vpc, ipc, exitFlag, finished, apc, asking, wakes,
     exited, spawned, next>> => TypeOK'
  /\ ThreadsOK /\ UNCHANGED <<exitFlag, vpc, spawned, finished, ipc, exited>> => ThreadsOK'
  /\ ReportsOK /\ UNCHANGED <<failed, outcome, firstReport, vpc, running>> => ReportsOK'
  /\ MainOK /\ UNCHANGED <<mpc, running, failure, outcome, first, spawned>> => MainOK'
  /\ JoinOK /\ UNCHANGED <<next, spawned, mpc, left, vpc, ipc, result, slot>> => JoinOK'
  /\ OkMeansClean /\ UNCHANGED <<result, failed, vpc, ipc>> => OkMeansClean'
  /\ ResultIsCaused /\ UNCHANGED <<result, firstReport, first>> => ResultIsCaused'
  /\ NewsWakesTheLoop /\ UNCHANGED <<mpc, exited, first, wakes, vpc, ipc, apc>> =>
     NewsWakesTheLoop'
  /\ SignalOK /\ UNCHANGED <<asking, first, signal, apc>> => SignalOK'
  /\ StartsOK /\ UNCHANGED <<startedIds, recorded, stopRecord, announced, mpc, left>> =>
     StartsOK'
<1>1. TypeOK /\ UNCHANGED <<outcome, vpc, ipc, exitFlag, finished, apc, asking, wakes,
      exited, spawned, next>> => TypeOK'
  BY DEF TypeOK
<1>2. ThreadsOK /\ UNCHANGED <<exitFlag, vpc, spawned, finished, ipc, exited>> => ThreadsOK'
  BY DEF ThreadsOK
<1>3. ReportsOK /\ UNCHANGED <<failed, outcome, firstReport, vpc, running>> => ReportsOK'
  BY SMTT(30) DEF ReportsOK
<1>4. MainOK /\ UNCHANGED <<mpc, running, failure, outcome, first, spawned>> => MainOK'
  BY SMTT(30) DEF MainOK
<1>5. JoinOK /\ UNCHANGED <<next, spawned, mpc, left, vpc, ipc, result, slot>> => JoinOK'
  BY DEF JoinOK
<1>6. OkMeansClean /\ UNCHANGED <<result, failed, vpc, ipc>> => OkMeansClean'
  BY SMTT(30) DEF OkMeansClean
<1>7. ResultIsCaused /\ UNCHANGED <<result, firstReport, first>> => ResultIsCaused'
  BY DEF ResultIsCaused
<1>8. NewsWakesTheLoop /\ UNCHANGED <<mpc, exited, first, wakes, vpc, ipc, apc>> =>
      NewsWakesTheLoop'
  BY DEF NewsWakesTheLoop, News
<1>9. SignalOK /\ UNCHANGED <<asking, first, signal, apc>> => SignalOK'
  BY DEF SignalOK, FirstSignalIsFound
<1>10. StartsOK /\ UNCHANGED <<startedIds, recorded, stopRecord, announced, mpc, left>> =>
       StartsOK'
  BY DEF StartsOK
<1> QED BY <1>1, <1>2, <1>3, <1>4, <1>5, <1>6, <1>7, <1>8, <1>9, <1>10

LEMMA VcpuInv ==
  ASSUME ConstantsAssumption, Inv, NEW c \in Cpus,
         \/ MarkStarted(c) \/ LoopStops(c) \/ VcpuExits(c)
         \/ \E o \in {"off", "reset", "failed"} : LoopBreaks(c, o)
  PROVE  Inv'
<1> USE DEF ConstantsAssumption, Cpus, Askers, VcpuSet
<1>1. CASE MarkStarted(c)
  <2>1. MainOK' /\ ResultIsCaused' /\ SignalOK'
    BY <1>1, Frame DEF Inv, MarkStarted, Wake, vcpus, handle, askers, main
  <2>2. TypeOK'
    BY <1>1, SMTT(30) DEF Inv, TypeOK, MarkStarted, Wake, vcpus, io, askers, main
  <2>3. ThreadsOK'
    BY <1>1, ZenonT(30) DEF Inv, ThreadsOK, TypeOK, MarkStarted, Wake, vcpus, io, askers, main
  <2>4. ReportsOK'
    BY <1>1 DEF Inv, ReportsOK, TypeOK, MarkStarted, Wake, vcpus, io, askers, main
  <2>5. JoinOK'
    BY <1>1, SMTT(30) DEF Inv, JoinOK, TypeOK, ThreadsOK, AfterVcpus, AfterIo, WithResult,
       MarkStarted, Wake, vcpus, io, askers, main
  <2>6. OkMeansClean'
    BY <1>1 DEF Inv, OkMeansClean, TypeOK, MarkStarted, Wake, vcpus, io, askers, main
  <2>7. NewsWakesTheLoop'
    BY <1>1, SMTT(30) DEF Inv, NewsWakesTheLoop, TypeOK, News, MarkStarted, Wake, vcpus, io,
       handle, askers, main
  <2>8. StartsOK'
    <3>1. startedIds \in Seq(Cpus) /\ startedIds' = Append(startedIds, c)
      BY <1>1 DEF Inv, StartsOK, MarkStarted
    <3>2. /\ startedIds' \in Seq(Cpus) /\ Len(startedIds') = Len(startedIds) + 1
          /\ \A i \in 1 .. Len(startedIds) : startedIds'[i] = startedIds[i]
          /\ startedIds'[Len(startedIds) + 1] = c
      BY <3>1, SMTT(30)
    <3>3. ~(c >= spawned) /\ vpc[c] # "gone"
      BY <1>1 DEF Inv, ThreadsOK, MarkStarted
    <3>4. mpc \in {"claim", "returned"} => c \in left
      BY <3>3, SMTT(30) DEF Inv, TypeOK, JoinOK, AfterVcpus
    <3>5. UNCHANGED <<recorded, stopRecord, announced, mpc, left>>
      BY <1>1 DEF MarkStarted, main, ledger
    <3> HIDE DEF Cpus
    <3>6. /\ recorded \in Seq(Cpus) /\ Len(recorded) <= Len(startedIds)
          /\ \A i \in 1 .. Len(recorded) : recorded[i] = startedIds[i]
          /\ stopRecord = NoRecord => announced = Len(recorded)
          /\ stopRecord # NoRecord => mpc \in {"claim", "returned"}
      BY DEF Inv, StartsOK
    <3>7. ASSUME stopRecord # NoRecord, NEW i \in Len(recorded) + 1 .. Len(startedIds')
          PROVE  startedIds'[i] \in left
      <4>1. i \in Len(recorded) + 1 .. Len(startedIds) \/ i = Len(startedIds) + 1
        BY <3>1, <3>2, <3>6, <3>7, SMTT(30)
      <4>2. i \in 1 .. Len(startedIds) \/ i = Len(startedIds) + 1
        BY <3>1, <3>6, <4>1, SMTT(30)
      <4> QED BY <3>2, <3>4, <3>6, <3>7, <4>1, <4>2 DEF Inv, StartsOK
    <3>8. /\ Len(recorded) <= Len(startedIds')
          /\ \A i \in 1 .. Len(recorded) : recorded[i] = startedIds'[i]
      BY <3>1, <3>2, <3>6, SMTT(30)
    <3> QED BY <3>2, <3>5, <3>6, <3>7, <3>8 DEF StartsOK
  <2> QED BY <2>1, <2>2, <2>3, <2>4, <2>5, <2>6, <2>7, <2>8 DEF Inv
<1>2. CASE LoopStops(c)
  <2>1. MainOK' /\ ResultIsCaused' /\ SignalOK' /\ StartsOK'
    BY <1>2, Frame DEF Inv, LoopStops, vcpus, handle, askers, main, ledger
  <2>2. TypeOK'
    BY <1>2 DEF Inv, TypeOK, LoopStops, vcpus, io, askers, main
  <2>3. ThreadsOK' /\ ReportsOK' /\ JoinOK' /\ OkMeansClean' /\ NewsWakesTheLoop'
    BY <1>2, SMTT(30) DEF Inv, ThreadsOK, ReportsOK, JoinOK, OkMeansClean, NewsWakesTheLoop,
       TypeOK, AfterVcpus, AfterIo, WithResult, News, LoopStops, vcpus, io, handle, askers, main
  <2> QED BY <2>1, <2>2, <2>3 DEF Inv
<1>3. ASSUME NEW o \in {"off", "reset", "failed"}, LoopBreaks(c, o)
      PROVE  Inv'
  <2>1. SignalOK' /\ StartsOK'
    BY <1>3, Frame DEF Inv, LoopBreaks, Report, handle, askers, main, ledger
  <2>2. TypeOK'
    BY <1>3 DEF Inv, TypeOK, LoopBreaks, Report, io, askers, main
  <2>3. ThreadsOK'
    BY <1>3, SMTT(30) DEF Inv, ThreadsOK, TypeOK, LoopBreaks, Report, io, askers, main
  <2>4. ReportsOK'
    BY <1>3 DEF Inv, ReportsOK, TypeOK, LoopBreaks, Report, io, askers, main
  <2>5. MainOK'
    BY <1>3 DEF Inv, MainOK, AfterWait, LoopBreaks, Report, handle, main
  <2>6. JoinOK'
    BY <1>3 DEF Inv, JoinOK, TypeOK, AfterVcpus, AfterIo, WithResult, LoopBreaks, Report, io,
       askers, main
  <2>7. OkMeansClean'
    BY <1>3 DEF Inv, OkMeansClean, TypeOK, LoopBreaks, Report, io, askers, main
  <2>8. ResultIsCaused'
    BY <1>3 DEF Inv, ResultIsCaused, TypeOK, OkMeansClean, LoopBreaks, Report, io, handle,
       askers, main
  <2>9. NewsWakesTheLoop'
    BY <1>3 DEF Inv, NewsWakesTheLoop, TypeOK, News, LoopBreaks, Report, io, handle, askers, main
  <2> QED BY <2>1, <2>2, <2>3, <2>4, <2>5, <2>6, <2>7, <2>8, <2>9 DEF Inv
<1>4. CASE ExitMark(c)
  <2>1. MainOK' /\ ResultIsCaused' /\ SignalOK' /\ StartsOK'
    BY <1>4, Frame DEF Inv, ExitMark, vcpus, handle, askers, main, ledger
  <2>2. TypeOK'
    BY <1>4 DEF Inv, TypeOK, ExitMark, vcpus, io, askers, main
  <2>3. ThreadsOK' /\ ReportsOK' /\ JoinOK' /\ OkMeansClean' /\ NewsWakesTheLoop'
    BY <1>4, SMTT(30) DEF Inv, ThreadsOK, ReportsOK, JoinOK, OkMeansClean, NewsWakesTheLoop,
       TypeOK, AfterVcpus, AfterIo, WithResult, News, ExitMark, vcpus, io, handle, askers, main
  <2> QED BY <2>1, <2>2, <2>3 DEF Inv
<1>5. CASE ExitCount(c)
  <2>1. MainOK' /\ ResultIsCaused' /\ SignalOK' /\ StartsOK'
    BY <1>5, Frame DEF Inv, ExitCount, vcpus, handle, askers, main, ledger
  <2>2. TypeOK'
    BY <1>5, SMTT(30) DEF Inv, TypeOK, ExitCount, vcpus, io, askers, main
  <2>3. ThreadsOK' /\ ReportsOK' /\ JoinOK' /\ OkMeansClean' /\ NewsWakesTheLoop'
    BY <1>5, SMTT(30) DEF Inv, ThreadsOK, ReportsOK, JoinOK, OkMeansClean, NewsWakesTheLoop,
       TypeOK, AfterVcpus, AfterIo, WithResult, News, ExitCount, vcpus, io, handle, askers, main
  <2> QED BY <2>1, <2>2, <2>3 DEF Inv
<1>6. CASE ExitWake(c)
  <2>1. MainOK' /\ ResultIsCaused' /\ SignalOK' /\ StartsOK'
    BY <1>6, Frame DEF Inv, ExitWake, Wake, vcpus, handle, askers, main, ledger
  <2>2. TypeOK'
    BY <1>6, SMTT(30) DEF Inv, TypeOK, ExitWake, Wake, vcpus, io, askers, main
  <2>3. ThreadsOK' /\ ReportsOK' /\ JoinOK' /\ OkMeansClean' /\ NewsWakesTheLoop'
    BY <1>6, SMTT(30) DEF Inv, ThreadsOK, ReportsOK, JoinOK, OkMeansClean, NewsWakesTheLoop,
       TypeOK, AfterVcpus, AfterIo, WithResult, News, ExitWake, Wake, vcpus, io, handle, askers,
       main
  <2> QED BY <2>1, <2>2, <2>3 DEF Inv
<1> QED BY <1>1, <1>2, <1>3, <1>4, <1>5, <1>6 DEF VcpuExits

LEMMA IoInv ==
  ASSUME ConstantsAssumption, Inv, NEW t \in Io, IoReturns(t) \/ IoPanics(t) \/ IoEnds(t)
  PROVE  Inv'
<1> USE DEF ConstantsAssumption, Cpus, Askers, IoSet
<1>1. CASE IoReturns(t)
  <2>1. ReportsOK' /\ MainOK' /\ ResultIsCaused' /\ SignalOK' /\ StartsOK'
    BY <1>1, Frame DEF Inv, IoReturns, vcpus, exits, handle, askers, main, ledger
  <2>2. TypeOK'
    BY <1>1 DEF Inv, TypeOK, IoReturns, vcpus, exits, askers, main
  <2>3. ThreadsOK' /\ JoinOK' /\ OkMeansClean' /\ NewsWakesTheLoop'
    BY <1>1, SMTT(30) DEF Inv, ThreadsOK, JoinOK, OkMeansClean, NewsWakesTheLoop, TypeOK,
       AfterVcpus, AfterIo, WithResult, News, IoReturns, vcpus, exits, handle, askers, main
  <2> QED BY <2>1, <2>2, <2>3 DEF Inv
<1>2. CASE IoPanics(t)
  <2>1. SignalOK' /\ StartsOK'
    BY <1>2, Frame DEF Inv, IoPanics, Report, handle, askers, main, ledger
  <2>2. TypeOK'
    BY <1>2 DEF Inv, TypeOK, IoPanics, Report, exits, askers, main
  <2>3. ThreadsOK'
    BY <1>2, SMTT(30) DEF Inv, ThreadsOK, TypeOK, IoPanics, Report, exits, askers, main
  <2>4. ReportsOK'
    BY <1>2 DEF Inv, ReportsOK, IoPanics, Report, exits
  <2>5. MainOK'
    BY <1>2 DEF Inv, MainOK, AfterWait, IoPanics, Report, handle, main
  <2>6. JoinOK'
    BY <1>2 DEF Inv, JoinOK, TypeOK, AfterVcpus, AfterIo, WithResult, IoPanics, Report, exits,
       askers, main
  <2>7. OkMeansClean'
    BY <1>2 DEF Inv, OkMeansClean, TypeOK, IoPanics, Report, exits, askers, main
  <2>8. ResultIsCaused'
    BY <1>2 DEF Inv, ResultIsCaused, TypeOK, OkMeansClean, IoPanics, Report, exits, handle,
       askers, main
  <2>9. NewsWakesTheLoop'
    BY <1>2 DEF Inv, NewsWakesTheLoop, TypeOK, News, IoPanics, Report, exits, handle, askers,
       main
  <2> QED BY <2>1, <2>2, <2>3, <2>4, <2>5, <2>6, <2>7, <2>8, <2>9 DEF Inv
<1>3. CASE IoAsks(t)
  <2>1. ReportsOK' /\ StartsOK'
    BY <1>3, Frame DEF Inv, IoAsks, vcpus, exits, main, ledger
  <2>2. TypeOK'
    BY <1>3 DEF Inv, TypeOK, IoAsks, vcpus, exits, askers, main
  <2>3. ThreadsOK' /\ MainOK' /\ JoinOK' /\ OkMeansClean' /\ ResultIsCaused' /\
        NewsWakesTheLoop' /\ SignalOK'
    BY <1>3, SMTT(30) DEF Inv, ThreadsOK, MainOK, JoinOK, OkMeansClean, ResultIsCaused,
       NewsWakesTheLoop, SignalOK, TypeOK, AfterWait, AfterVcpus, AfterIo, WithResult, News,
       FirstSignalIsFound, IoAsks, vcpus, exits, askers, main
  <2> QED BY <2>1, <2>2, <2>3 DEF Inv
<1>4. CASE IoWakes(t)
  <2>1. ReportsOK' /\ MainOK' /\ ResultIsCaused' /\ SignalOK' /\ StartsOK'
    BY <1>4, Frame DEF Inv, IoWakes, Wake, vcpus, exits, handle, askers, main, ledger
  <2>2. TypeOK'
    BY <1>4, SMTT(30) DEF Inv, TypeOK, IoWakes, Wake, vcpus, exits, askers, main
  <2>3. ThreadsOK' /\ JoinOK' /\ OkMeansClean' /\ NewsWakesTheLoop'
    BY <1>4, SMTT(30) DEF Inv, ThreadsOK, JoinOK, OkMeansClean, NewsWakesTheLoop, TypeOK,
       AfterVcpus, AfterIo, WithResult, News, IoWakes, Wake, vcpus, exits, handle, askers, main
  <2> QED BY <2>1, <2>2, <2>3 DEF Inv
<1>5. CASE IoFinishes(t)
  <2>1. ReportsOK' /\ MainOK' /\ ResultIsCaused' /\ SignalOK' /\ StartsOK'
    BY <1>5, Frame DEF Inv, IoFinishes, vcpus, exits, handle, askers, main, ledger
  <2>2. TypeOK'
    BY <1>5 DEF Inv, TypeOK, IoFinishes, vcpus, exits, askers, main
  <2>3. ThreadsOK' /\ JoinOK' /\ OkMeansClean' /\ NewsWakesTheLoop'
    BY <1>5, SMTT(30) DEF Inv, ThreadsOK, JoinOK, OkMeansClean, NewsWakesTheLoop, TypeOK,
       AfterVcpus, AfterIo, WithResult, News, IoFinishes, vcpus, exits, handle, askers, main
  <2> QED BY <2>1, <2>2, <2>3 DEF Inv
<1>6. CASE IoNotes(t)
  <2>1. ReportsOK' /\ MainOK' /\ ResultIsCaused' /\ SignalOK' /\ StartsOK'
    BY <1>6, Frame DEF Inv, IoNotes, vcpus, exits, handle, askers, main, ledger
  <2>2. TypeOK'
    BY <1>6 DEF Inv, TypeOK, IoNotes, vcpus, exits, askers, main
  <2>3. ThreadsOK' /\ JoinOK' /\ OkMeansClean' /\ NewsWakesTheLoop'
    BY <1>6, SMTT(30) DEF Inv, ThreadsOK, JoinOK, OkMeansClean, NewsWakesTheLoop, TypeOK,
       AfterVcpus, AfterIo, WithResult, News, IoNotes, vcpus, exits, handle, askers, main
  <2> QED BY <2>1, <2>2, <2>3 DEF Inv
<1> QED BY <1>1, <1>2, <1>3, <1>4, <1>5, <1>6 DEF IoEnds

LEMMA AskerInv ==
  ASSUME ConstantsAssumption, Inv, NEW a \in Askers,
         \/ a \in Callers /\ Ask(a, "api")
         \/ a = "signals" /\ \E s \in Signals : Ask(a, s)
         \/ AskOn(a)
  PROVE  Inv'
<1> USE DEF ConstantsAssumption, Cpus, Askers, AskerSet
<1>1. CASE a \in Callers /\ Ask(a, "api")
  <2>1. ThreadsOK' /\ ReportsOK' /\ MainOK' /\ JoinOK' /\ OkMeansClean' /\ ResultIsCaused'
        /\ StartsOK'
    BY <1>1, Frame DEF Inv, Ask, vcpus, exits, io, main, ledger
  <2>2. TypeOK'
    BY <1>1 DEF Inv, TypeOK, Ask, vcpus, exits, io, main
  <2>3. NewsWakesTheLoop' /\ SignalOK'
    BY <1>1 DEF Inv, NewsWakesTheLoop, SignalOK, TypeOK, News, FirstSignalIsFound, Ask, vcpus,
       exits, io, main
  <2> QED BY <2>1, <2>2, <2>3 DEF Inv
<1>2. ASSUME a = "signals", NEW s \in Signals, Ask(a, s)
      PROVE  Inv'
  <2>1. ThreadsOK' /\ ReportsOK' /\ MainOK' /\ JoinOK' /\ OkMeansClean' /\ ResultIsCaused'
        /\ StartsOK'
    BY <1>2, Frame DEF Inv, Ask, vcpus, exits, io, main, ledger
  <2>2. TypeOK'
    BY <1>2 DEF Inv, TypeOK, Ask, vcpus, exits, io, main
  <2>3. NewsWakesTheLoop' /\ SignalOK'
    BY <1>2 DEF Inv, NewsWakesTheLoop, SignalOK, TypeOK, News, FirstSignalIsFound, Ask, vcpus,
       exits, io, main
  <2> QED BY <2>1, <2>2, <2>3 DEF Inv
<1>3. CASE AskFirst(a)
  <2>1. ThreadsOK' /\ ReportsOK' /\ JoinOK' /\ OkMeansClean' /\ StartsOK'
    BY <1>3, Frame DEF Inv, AskFirst, vcpus, exits, io, main, ledger
  <2>2. TypeOK'
    BY <1>3 DEF Inv, TypeOK, AskFirst, vcpus, exits, io, main
  <2>3. MainOK' /\ ResultIsCaused' /\ NewsWakesTheLoop' /\ SignalOK'
    BY <1>3 DEF Inv, MainOK, ResultIsCaused, NewsWakesTheLoop, SignalOK, TypeOK, AfterWait, News,
       FirstSignalIsFound, AskFirst, vcpus, exits, io, main
  <2> QED BY <2>1, <2>2, <2>3 DEF Inv
<1>4. CASE AskWake(a)
  <2>1. ThreadsOK' /\ ReportsOK' /\ MainOK' /\ JoinOK' /\ OkMeansClean' /\ ResultIsCaused'
        /\ StartsOK'
    BY <1>4, Frame DEF Inv, AskWake, Wake, vcpus, exits, io, handle, main, ledger
  <2>2. TypeOK'
    BY <1>4, SMTT(30) DEF Inv, TypeOK, AskWake, Wake, vcpus, exits, io, main
  <2>3. NewsWakesTheLoop' /\ SignalOK'
    BY <1>4, SMTT(30) DEF Inv, NewsWakesTheLoop, SignalOK, TypeOK, News, FirstSignalIsFound,
       AskWake, Wake, vcpus, exits, io, handle, main
  <2> QED BY <2>1, <2>2, <2>3 DEF Inv
<1> QED BY <1>1, <1>2, <1>3, <1>4 DEF AskOn

LEMMA MainInv ==
  ASSUME ConstantsAssumption, Inv, MainStep \/ DeadlinePasses \/ MainFault
  PROVE  Inv'
<1> USE DEF ConstantsAssumption, Cpus, MainSet
<1>1. CASE Spawn
  <2>1. ResultIsCaused' /\ SignalOK'
    BY <1>1, Frame DEF Inv, Spawn, vcpus, handle, askers
  <2>2. TypeOK'
    BY <1>1, SMTT(30) DEF Inv, TypeOK, Spawn, vcpus, io, askers
  <2>3. ThreadsOK' /\ ReportsOK' /\ MainOK' /\ JoinOK' /\ OkMeansClean' /\ NewsWakesTheLoop'
        /\ StartsOK'
    BY <1>1, SMTT(30) DEF Inv, ThreadsOK, ReportsOK, MainOK, JoinOK, OkMeansClean,
       NewsWakesTheLoop, StartsOK, TypeOK, AfterWait, AfterVcpus, AfterIo, WithResult, News,
       Spawn, vcpus, io, handle, askers, ledger
  <2> QED BY <2>1, <2>2, <2>3 DEF Inv
<1>2. CASE SpawnFails
  <2>1. TypeOK' /\ ThreadsOK' /\ OkMeansClean' /\ ResultIsCaused' /\ SignalOK'
    BY <1>2, Frame DEF Inv, SpawnFails, exits, io, handle, askers
  <2>2. ReportsOK' /\ MainOK' /\ JoinOK' /\ NewsWakesTheLoop' /\ StartsOK'
    BY <1>2 DEF Inv, ReportsOK, MainOK, JoinOK, NewsWakesTheLoop, StartsOK, AfterWait,
       AfterVcpus, AfterIo, WithResult, News, SpawnFails, exits, io, handle, askers, ledger
  <2> QED BY <2>1, <2>2 DEF Inv
<1>3. ASSUME NEW fails \in BOOLEAN, Install(fails)
      PROVE  Inv'
  <2>1. TypeOK' /\ ThreadsOK' /\ ReportsOK' /\ OkMeansClean' /\ ResultIsCaused' /\ SignalOK'
    BY <1>3, Frame DEF Inv, Install, vcpus, exits, io, handle, askers
  <2>2. MainOK' /\ JoinOK' /\ NewsWakesTheLoop' /\ StartsOK'
    BY <1>3 DEF Inv, MainOK, JoinOK, NewsWakesTheLoop, StartsOK, AfterWait, AfterVcpus, AfterIo,
       WithResult, News, Install, vcpus, exits, io, handle, askers, ledger
  <2> QED BY <2>1, <2>2 DEF Inv
<1>4. CASE Announce
  <2>1. TypeOK' /\ ThreadsOK' /\ ReportsOK' /\ OkMeansClean' /\ ResultIsCaused' /\ SignalOK'
    BY <1>4, Frame DEF Inv, Announce, vcpus, exits, io, handle, askers
  <2>2. MainOK' /\ JoinOK' /\ NewsWakesTheLoop'
    BY <1>4 DEF Inv, MainOK, JoinOK, NewsWakesTheLoop, AfterWait, AfterVcpus, AfterIo,
       WithResult, News, Announce, vcpus, exits, io, handle, askers
  <2>3. StartsOK'
    <3>1. stopRecord = NoRecord /\ UNCHANGED <<startedIds, stopRecord, left>>
      BY <1>4 DEF Inv, StartsOK, Announce
    <3>2. recorded' = startedIds /\ announced' = Len(startedIds)
      BY <1>4, <3>1, RestOf DEF Inv, StartsOK, Announce
    <3> QED BY <3>1, <3>2, SMTT(30) DEF Inv, StartsOK
  <2> QED BY <2>1, <2>2, <2>3 DEF Inv
<1>5. CASE Check
  <2>1. TypeOK' /\ ThreadsOK' /\ ReportsOK' /\ OkMeansClean' /\ ResultIsCaused' /\ SignalOK'
    BY <1>5, Frame DEF Inv, Check, vcpus, exits, io, handle, askers
  <2>2. MainOK' /\ JoinOK' /\ NewsWakesTheLoop' /\ StartsOK'
    BY <1>5 DEF Inv, MainOK, JoinOK, NewsWakesTheLoop, StartsOK, TypeOK, ThreadsOK, ReportsOK,
       AfterWait, AfterVcpus, AfterIo, WithResult, News, Check, vcpus, exits, io, handle, askers,
       ledger
  <2> QED BY <2>1, <2>2 DEF Inv
<1>6. CASE Wait
  <2>1. ThreadsOK' /\ ReportsOK' /\ OkMeansClean' /\ ResultIsCaused' /\ SignalOK'
    BY <1>6, Frame DEF Inv, Wait, Drain, vcpus, exits, io, handle, askers
  <2>2. TypeOK'
    BY <1>6, SMTT(30) DEF Inv, TypeOK, Wait, Drain, vcpus, exits, io, askers
  <2>3. MainOK' /\ JoinOK' /\ NewsWakesTheLoop' /\ StartsOK'
    BY <1>6 DEF Inv, MainOK, JoinOK, NewsWakesTheLoop, StartsOK, TypeOK, AfterWait, AfterVcpus,
       AfterIo, WithResult, News, Wait, Drain, vcpus, exits, io, handle, askers, ledger
  <2> QED BY <2>1, <2>2, <2>3 DEF Inv
<1>7. CASE WaitFails
  <2>1. TypeOK' /\ ThreadsOK' /\ ReportsOK' /\ OkMeansClean' /\ ResultIsCaused' /\ SignalOK'
    BY <1>7, Frame DEF Inv, WaitFails, vcpus, exits, io, handle, askers
  <2>2. MainOK' /\ JoinOK' /\ NewsWakesTheLoop' /\ StartsOK'
    BY <1>7 DEF Inv, MainOK, JoinOK, NewsWakesTheLoop, StartsOK, AfterWait, AfterVcpus, AfterIo,
       WithResult, News, WaitFails, vcpus, exits, io, handle, askers, ledger
  <2> QED BY <2>1, <2>2 DEF Inv
<1>8. CASE Stop
  <2>1. TypeOK' /\ ThreadsOK' /\ OkMeansClean' /\ ResultIsCaused' /\ SignalOK'
    BY <1>8, Frame DEF Inv, Stop, exits, io, handle, askers
  <2>2. ReportsOK' /\ MainOK' /\ JoinOK' /\ NewsWakesTheLoop' /\ StartsOK'
    BY <1>8 DEF Inv, ReportsOK, MainOK, JoinOK, NewsWakesTheLoop, StartsOK, AfterWait,
       AfterVcpus, AfterIo, WithResult, News, Stop, exits, io, handle, askers, ledger
  <2> QED BY <2>1, <2>2 DEF Inv
<1>9. CASE DeadlinePasses
  <2>1. TypeOK' /\ ThreadsOK' /\ ReportsOK' /\ MainOK' /\ JoinOK' /\ OkMeansClean' /\
        ResultIsCaused' /\ NewsWakesTheLoop' /\ SignalOK' /\ StartsOK'
    BY <1>9, Frame DEF Inv, DeadlinePasses, vcpus, exits, io, handle, askers, ledger
  <2> QED BY <2>1 DEF Inv
<1>10. CASE CheckExits
  <2>1. TypeOK' /\ ThreadsOK' /\ ReportsOK' /\ OkMeansClean' /\ ResultIsCaused' /\ SignalOK'
    BY <1>10, Frame DEF Inv, CheckExits, vcpus, exits, io, handle, askers
  <2>2. MainOK' /\ JoinOK' /\ NewsWakesTheLoop' /\ StartsOK'
    BY <1>10 DEF Inv, MainOK, JoinOK, NewsWakesTheLoop, StartsOK, AfterWait, AfterVcpus, AfterIo,
       WithResult, News, CheckExits, vcpus, exits, io, handle, askers, ledger
  <2> QED BY <2>1, <2>2 DEF Inv
<1>11. CASE WaitExits
  <2>1. ThreadsOK' /\ ReportsOK' /\ OkMeansClean' /\ ResultIsCaused' /\ SignalOK'
    BY <1>11, Frame DEF Inv, WaitExits, Drain, vcpus, exits, io, handle, askers
  <2>2. TypeOK'
    BY <1>11, SMTT(30) DEF Inv, TypeOK, WaitExits, Drain, vcpus, exits, io, askers
  <2>3. MainOK' /\ JoinOK' /\ NewsWakesTheLoop' /\ StartsOK'
    BY <1>11 DEF Inv, MainOK, JoinOK, NewsWakesTheLoop, StartsOK, TypeOK, AfterWait, AfterVcpus,
       AfterIo, WithResult, News, WaitExits, Drain, vcpus, exits, io, handle, askers, ledger
  <2> QED BY <2>1, <2>2, <2>3 DEF Inv
<1>12. CASE WaitExitsFails
  <2>1. TypeOK' /\ ThreadsOK' /\ ReportsOK' /\ OkMeansClean' /\ ResultIsCaused' /\ SignalOK'
    BY <1>12, Frame DEF Inv, WaitExitsFails, vcpus, exits, io, handle, askers
  <2>2. MainOK' /\ JoinOK' /\ NewsWakesTheLoop' /\ StartsOK'
    BY <1>12 DEF Inv, MainOK, JoinOK, NewsWakesTheLoop, StartsOK, AfterWait, AfterVcpus, AfterIo,
       WithResult, News, WaitExitsFails, vcpus, exits, io, handle, askers, ledger
  <2> QED BY <2>1, <2>2 DEF Inv
<1>13. CASE Join
  <2>1. ThreadsOK' /\ ReportsOK' /\ MainOK' /\ OkMeansClean' /\ ResultIsCaused' /\
        NewsWakesTheLoop' /\ SignalOK'
    BY <1>13, Frame DEF Inv, Join, vcpus, exits, io, handle, askers
  <2>2. TypeOK'
    BY <1>13, SMTT(30) DEF Inv, TypeOK, Join, vcpus, exits, io, askers
  <2>3. JoinOK'
    <3>1. /\ mpc = "join" /\ next < spawned /\ next' = next + 1
          /\ UNCHANGED <<spawned, mpc, vpc, ipc, result, slot>>
      BY <1>13 DEF Join, exits, io
    <3>2. next \in Cpus /\ left \subseteq left' /\ (next \in left' \/ vpc[next] = "gone")
      BY <1>13, <3>1, SMTT(30) DEF Inv, TypeOK, Join
    <3>3. slot # "free" /\ result = "none"
      BY <3>1 DEF Inv, JoinOK, WithResult
    <3>4. \A c \in Cpus : c < next' => c \in left' \/ vpc'[c] = "gone"
      BY <3>1, <3>2, SMTT(30) DEF Inv, TypeOK, JoinOK
    <3>5. next' <= spawned'
      BY <3>1, SMTT(30) DEF Inv, TypeOK
    <3> QED BY <3>1, <3>3, <3>4, <3>5 DEF Inv, JoinOK, AfterVcpus, AfterIo
  <2>4. StartsOK'
    BY <1>13 DEF Inv, StartsOK, Join, ledger
  <2> QED BY <2>1, <2>2, <2>3, <2>4 DEF Inv
<1>14. CASE StopIo
  <2>1. TypeOK' /\ ThreadsOK' /\ ReportsOK' /\ OkMeansClean' /\ ResultIsCaused' /\ SignalOK'
    BY <1>14, Frame DEF Inv, StopIo, vcpus, exits, handle, askers
  <2>2. MainOK' /\ JoinOK' /\ NewsWakesTheLoop' /\ StartsOK'
    BY <1>14 DEF Inv, MainOK, JoinOK, NewsWakesTheLoop, StartsOK, AfterWait, AfterVcpus, AfterIo,
       WithResult, News, StopIo, vcpus, exits, handle, askers, ledger
  <2> QED BY <2>1, <2>2 DEF Inv
<1>15. CASE WaitIo
  <2>1. TypeOK' /\ ThreadsOK' /\ ReportsOK' /\ OkMeansClean' /\ ResultIsCaused' /\ SignalOK'
    BY <1>15, Frame DEF Inv, WaitIo, vcpus, exits, io, handle, askers
  <2>2. MainOK' /\ JoinOK' /\ NewsWakesTheLoop' /\ StartsOK'
    BY <1>15 DEF Inv, MainOK, JoinOK, NewsWakesTheLoop, StartsOK, AfterWait, AfterVcpus, AfterIo,
       WithResult, News, WaitIo, vcpus, exits, io, handle, askers, ledger
  <2> QED BY <2>1, <2>2 DEF Inv
<1>16. CASE JoinIo
  <2>1. TypeOK' /\ ThreadsOK' /\ ReportsOK' /\ OkMeansClean' /\ ResultIsCaused' /\ SignalOK'
    BY <1>16, Frame DEF Inv, JoinIo, vcpus, exits, io, handle, askers
  <2>2. MainOK' /\ JoinOK' /\ NewsWakesTheLoop' /\ StartsOK'
    BY <1>16 DEF Inv, MainOK, JoinOK, NewsWakesTheLoop, StartsOK, TypeOK, ThreadsOK, AfterWait,
       AfterVcpus, AfterIo, WithResult, News, JoinIo, vcpus, exits, io, handle, askers, ledger
  <2> QED BY <2>1, <2>2 DEF Inv
<1>17. CASE Conclude
  <2>1. TypeOK' /\ ThreadsOK' /\ ReportsOK' /\ SignalOK'
    BY <1>17, Frame DEF Inv, Conclude, vcpus, exits, io, handle, askers
  <2>2. MainOK' /\ JoinOK' /\ OkMeansClean' /\ ResultIsCaused' /\ NewsWakesTheLoop' /\
        StartsOK'
    BY <1>17, SMTT(30) DEF Inv, MainOK, JoinOK, OkMeansClean, ResultIsCaused, NewsWakesTheLoop,
       StartsOK, TypeOK, ReportsOK, AfterWait, AfterVcpus, AfterIo, WithResult, News, Conclude,
       vcpus, exits, io, handle, askers, ledger
  <2> QED BY <2>1, <2>2 DEF Inv
<1>18. CASE RecordStop
  <2>1. TypeOK' /\ ThreadsOK' /\ ReportsOK' /\ OkMeansClean' /\ ResultIsCaused' /\ SignalOK'
    BY <1>18, Frame DEF Inv, RecordStop, NoRecord, vcpus, exits, io, handle, askers
  <2>2. MainOK' /\ JoinOK' /\ NewsWakesTheLoop'
    BY <1>18 DEF Inv, MainOK, JoinOK, NewsWakesTheLoop, AfterWait, AfterVcpus, AfterIo,
       WithResult, News, RecordStop, NoRecord, vcpus, exits, io, handle, askers
  <2>3. StartsOK'
    <3>1. stopRecord = NoRecord /\ mpc' = "claim" /\ UNCHANGED <<startedIds, left>>
      BY <1>18 DEF Inv, StartsOK, RecordStop
    <3>2. recorded' = startedIds
      BY <1>18, <3>1, RestOf DEF Inv, StartsOK, RecordStop
    <3>3. stopRecord' # NoRecord
      BY <1>18 DEF Inv, JoinOK, RecordStop, NoRecord
    <3>4. startedIds \in Seq(Cpus) /\ Len(startedIds) + 1 .. Len(startedIds) = {}
      BY SMTT(30) DEF Inv, StartsOK
    <3> QED BY <3>1, <3>2, <3>3, <3>4, SMTT(30) DEF StartsOK
  <2> QED BY <2>1, <2>2, <2>3 DEF Inv
<1>19. CASE DropClaim
  <2>1. TypeOK' /\ ThreadsOK' /\ ReportsOK' /\ OkMeansClean' /\ ResultIsCaused' /\ SignalOK'
    BY <1>19, Frame DEF Inv, DropClaim, vcpus, exits, io, handle, askers
  <2>2. MainOK' /\ JoinOK' /\ NewsWakesTheLoop' /\ StartsOK'
    BY <1>19 DEF Inv, MainOK, JoinOK, NewsWakesTheLoop, StartsOK, AfterWait, AfterVcpus, AfterIo,
       WithResult, News, DropClaim, vcpus, exits, io, handle, askers, ledger
  <2> QED BY <2>1, <2>2 DEF Inv
<1>20. CASE MainPanics
  <2>1. TypeOK' /\ ThreadsOK' /\ OkMeansClean' /\ ResultIsCaused' /\ SignalOK'
    BY <1>20, Frame DEF Inv, MainPanics, exits, handle, askers
  <2>2. ReportsOK' /\ MainOK' /\ JoinOK' /\ NewsWakesTheLoop' /\ StartsOK'
    BY <1>20 DEF Inv, ReportsOK, MainOK, JoinOK, NewsWakesTheLoop, StartsOK, AfterWait,
       AfterVcpus, AfterIo, WithResult, News, MainPanics, exits, handle, askers, ledger
  <2> QED BY <2>1, <2>2 DEF Inv
<1> QED BY <1>1, <1>2, <1>3, <1>4, <1>5, <1>6, <1>7, <1>8, <1>9, <1>10, <1>11, <1>12, <1>13,
           <1>14, <1>15, <1>16, <1>17, <1>18, <1>19, <1>20 DEF MainStep, MainFault

LEMMA NextInv ==
  ASSUME ConstantsAssumption, Inv, [Next]_vars
  PROVE  Inv'
<1>1. ASSUME NEW c \in Cpus,
             \/ MarkStarted(c) \/ LoopStops(c) \/ VcpuExits(c)
             \/ \E o \in {"off", "reset", "failed"} : LoopBreaks(c, o)
      PROVE  Inv'
  BY <1>1, VcpuInv
<1>2. ASSUME NEW t \in Io, IoReturns(t) \/ IoPanics(t) \/ IoEnds(t)
      PROVE  Inv'
  BY <1>2, IoInv
<1>3. ASSUME NEW a \in Askers,
             \/ a \in Callers /\ Ask(a, "api")
             \/ a = "signals" /\ \E s \in Signals : Ask(a, s)
             \/ AskOn(a)
      PROVE  Inv'
  BY <1>3, AskerInv
<1>4. CASE MainStep \/ DeadlinePasses \/ MainFault
  BY <1>4, MainInv
<1>5. CASE UNCHANGED vars
  BY <1>5, Frame DEF Inv, vars, vcpus, exits, io, handle, askers, main, ledger
<1>6. Callers \subseteq Askers /\ "signals" \in Askers
  BY DEF Askers
<1> QED BY <1>1, <1>2, <1>3, <1>4, <1>5, <1>6 DEF Next

\* What a run reports is what happened, for every number of vCPUs, I/O threads
\* and stop requests: the result and its cause, the threads that are gone, the
\* starts on record, the signal found, the wake that news leaves (run_to_stop).
THEOREM RunEndsHonestly ==
  ASSUME ConstantsAssumption
  PROVE  Spec => [](/\ OkMeansClean /\ ResultIsCaused /\ FreeMeansNothingLeft
                    /\ NewsWakesTheLoop /\ FirstSignalIsFound /\ StartsAreRecorded)
<1>1. Inv => FreeMeansNothingLeft
  BY SMTT(30) DEF Inv, TypeOK, ThreadsOK, JoinOK, FreeMeansNothingLeft, AfterVcpus, AfterIo, Cpus
<1>2. Inv => StartsAreRecorded
  <2> SUFFICES ASSUME Inv PROVE StartsAreRecorded
    OBVIOUS
  <2> HIDE DEF Cpus
  <2>1. /\ startedIds \in Seq(Cpus) /\ recorded \in Seq(Cpus) /\ Len(recorded) <= Len(startedIds)
        /\ \A i \in 1 .. Len(recorded) : recorded[i] = startedIds[i]
    BY DEF Inv, StartsOK
  <2>2. recorded = SubSeq(startedIds, 1, Len(recorded))
    BY <2>1, SMTT(30)
  <2> QED BY <2>1, <2>2 DEF Inv, StartsOK, StartsAreRecorded
<1>3. Inv => OkMeansClean /\ ResultIsCaused /\ NewsWakesTheLoop /\ FirstSignalIsFound
  BY DEF Inv, SignalOK
<1> QED BY <1>1, <1>2, <1>3, InitInv, NextInv, PTL DEF Spec
=============================================================================
