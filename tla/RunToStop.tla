----------------------------- MODULE RunToStop ------------------------------
(***************************************************************************)
(* A run from the spawn of its vCPU threads to its end: run_guest,         *)
(* run_to_stop (run/supervisor.rs), the exit guards and outcome of the     *)
(* vCPUs (hypervisor/vcpus.rs), the I/O threads (io_threads.rs), the stop  *)
(* handle and its pipe (run/stop.rs) and the claim on the process          *)
(* (RunSlot).                                                              *)
(*                                                                         *)
(* How a vCPU runs the guest and how Vcpus::stop reaches it are the module *)
(* Vcpus, and the ledger is the module Ledger.  Here a vCPU in its loop    *)
(* may end at any time, or never, and a record is added in one step.  The  *)
(* binary is built to unwind from a panic.                                 *)
(***************************************************************************)
EXTENDS Integers, Sequences, FiniteSets

CONSTANTS N,               \* the number of vCPUs
          Io,              \* the I/O threads, the console reader included
          Callers,         \* the threads of the host that request a stop
          Signals,         \* the stop signals
          PipeSize,        \* the wakes the pipe holds
          DrainSize,       \* the wakes one read of it drains
          MaxRequests      \* a bound on the stop requests of each thread

\* The names are told apart, and the pipe holds a wake.
ConstantsAssumption ==
    /\ N \in Nat \ {0} /\ PipeSize \in Nat \ {0} /\ DrainSize \in Nat \ {0}
    /\ "signals" \notin Callers /\ Signals \cap {"none", "api"} = {}

Cpus == 0 .. N - 1

\* What asks for a stop: a thread that calls StopHandle::request_stop, or the
\* one stop-signal thread, which passes on the first signal after each call of
\* stop_on_signals.
Askers == Callers \cup {"signals"}

VARIABLES
    \* Vcpus.
    running,               \* the running flag
    outcome,               \* the report kept: "none", "off", "reset", "failed"
    startedIds,            \* the vCPUs that entered their loop, in order
    exited,                \* the number of vCPU threads that have exited
    exitFlag,              \* the exit flag of each vCPU thread
    vpc,                   \* where each vCPU thread is
    \* The I/O threads.
    ioStop,                \* whether the stop source was asked to stop
    finished,              \* the finish flag of each
    noted,                 \* the finish count
    ipc,                   \* where each is
    \* The stop handle.
    first, signal,         \* what asked first, and the first stop signal
    wakes,                 \* the wakes in the pipe
    apc, asks,             \* where each asker is, and its requests so far
    asking,                \* what each asker passes on
    \* The thread that called boot.
    mpc,                   \* where it is
    spawned,               \* the vCPU threads spawned
    failure,               \* whether it met a failure of its own
    announced,             \* the vCPUs it has recorded as started
    expired,               \* whether the deadline of its wait has passed
    next,                  \* the next thread it joins
    left,                  \* the threads it has left running
    result,                \* how the run ended
    slot,                  \* the RunSlot
    \* The ledger.
    recorded,              \* the vmm.vcpu_started records
    stopRecord,            \* the vmm.stop record's reason and signal
    \* What the properties refer to.
    firstReport,           \* the first report, "none" before it
    failed                 \* whether a thread failed

vcpus  == <<running, outcome, firstReport, failed>>
exits  == <<exited, exitFlag, vpc>>
io     == <<ioStop, finished, noted, ipc>>
handle == <<first, signal>>
askers == <<apc, asks, asking>>
main   == <<mpc, spawned, failure, announced, expired, next, left, result,
            slot>>
ledger == <<recorded, stopRecord>>
vars   == <<vcpus, startedIds, exits, io, handle, wakes, askers, main, ledger>>

NoRecord == [reason |-> "none", signal |-> "none"]

Init ==
    /\ running = TRUE /\ outcome = "none"
    /\ firstReport = "none" /\ failed = FALSE
    /\ startedIds = <<>> /\ exited = 0
    /\ exitFlag = [c \in Cpus |-> FALSE] /\ vpc = [c \in Cpus |-> "none"]
    /\ ioStop = FALSE /\ noted = 0
    /\ finished = [t \in Io |-> FALSE] /\ ipc = [t \in Io |-> "body"]
    /\ first = "none" /\ signal = "none" /\ wakes = 0
    /\ apc = [a \in Askers |-> "idle"] /\ asks = [a \in Askers |-> 0]
    /\ asking = [a \in Askers |-> "none"]
    /\ mpc = "spawn" /\ spawned = 0 /\ failure = FALSE /\ announced = 0
    /\ expired = FALSE /\ next = 0 /\ left = {} /\ result = "none"
    /\ slot = "held"
    /\ recorded = <<>> /\ stopRecord = NoRecord

\* Waker::wake, whose write to a full pipe is dropped.
Wake == wakes' = IF wakes < PipeSize THEN wakes + 1 ELSE wakes

\* Mutant of Report: a failure does not replace a stop.
ReportFirstWins(o) ==
    /\ outcome' = IF outcome = "none"
                  THEN o ELSE outcome
    /\ firstReport' = IF firstReport = "none" THEN o ELSE firstReport
    /\ failed' = (failed \/ o = "failed")
    /\ running' = running

\* Vcpus::report of `o`: the first is kept, but a failure replaces a
\* stop.
Report(o) ==
    /\ outcome' = IF outcome = "none" \/ (outcome # "failed" /\ o = "failed")
                  THEN o ELSE outcome
    /\ firstReport' = IF firstReport = "none" THEN o ELSE firstReport
    /\ failed' = (failed \/ o = "failed")
    /\ running' = running

-----------------------------------------------------------------------------
(* A vCPU thread. *)

VcpuSet(c, from, to) == vpc[c] = from /\ vpc' = [vpc EXCEPT ![c] = to]

\* Vcpus::mark_started lists the vCPU and wakes the loop.  One that reads the
\* list before the wake only wakes once more than it needs to.
MarkStarted(c) ==
    /\ VcpuSet(c, "new", "loop")
    /\ startedIds' = Append(startedIds, c)
    /\ Wake
    /\ UNCHANGED <<vcpus, exited, exitFlag, io, handle, askers, main, ledger>>

\* The loop ends as it reads the flag.
LoopStops(c) ==
    /\ VcpuSet(c, "loop", "ended") /\ ~running
    /\ UNCHANGED <<vcpus, startedIds, exited, exitFlag, io, handle, wakes,
                   askers, main, ledger>>

\* The guest asks for `o`, or the vCPU fails.  A panic, which is reported as a
\* failure, may also come before the loop.
LoopBreaks(c, o) ==
    /\ vpc[c] = "loop" \/ (vpc[c] = "new" /\ o = "failed")
    /\ vpc' = [vpc EXCEPT ![c] = "ended"]
    /\ Report(o)
    /\ UNCHANGED <<startedIds, exited, exitFlag, io, handle, wakes, askers,
                   main, ledger>>

\* The drop of ExitGuard marks the exit, counts it and wakes the loop.
ExitMark(c) ==
    /\ VcpuSet(c, "ended", "marked")
    /\ exitFlag' = [exitFlag EXCEPT ![c] = TRUE]
    /\ UNCHANGED <<vcpus, startedIds, exited, io, handle, wakes, askers, main,
                   ledger>>

ExitCount(c) ==
    /\ VcpuSet(c, "marked", "counted")
    /\ exited' = exited + 1
    /\ UNCHANGED <<vcpus, startedIds, exitFlag, io, handle, wakes, askers,
                   main, ledger>>

ExitWake(c) ==
    /\ VcpuSet(c, "counted", "gone")
    /\ Wake
    /\ UNCHANGED <<vcpus, startedIds, exited, exitFlag, io, handle, askers,
                   main, ledger>>

VcpuExits(c) == ExitMark(c) \/ ExitCount(c) \/ ExitWake(c)

-----------------------------------------------------------------------------
(* An I/O thread. *)

IoSet(t, from, to) == ipc[t] = from /\ ipc' = [ipc EXCEPT ![t] = to]

\* Its body returns, at the stop or by itself.
IoReturns(t) ==
    /\ IoSet(t, "body", "ended")
    /\ UNCHANGED <<vcpus, startedIds, exits, ioStop, finished, noted, handle,
                   wakes, askers, main, ledger>>

\* Its body panics: the drop of StopOnPanic reports the failure and asks for
\* the stop.
IoPanics(t) ==
    /\ IoSet(t, "body", "ask")
    /\ Report("failed")
    /\ UNCHANGED <<startedIds, exits, ioStop, finished, noted, handle, wakes,
                   askers, main, ledger>>

IoAsks(t) ==
    /\ IoSet(t, "ask", "wake")
    /\ first' = IF first = "none" THEN "api" ELSE first
    /\ UNCHANGED <<vcpus, startedIds, exits, ioStop, finished, noted, signal,
                   wakes, askers, main, ledger>>

IoWakes(t) ==
    /\ IoSet(t, "wake", "ended")
    /\ Wake
    /\ UNCHANGED <<vcpus, startedIds, exits, ioStop, finished, noted, handle,
                   askers, main, ledger>>

\* The drop of FinishGuard, which comes after that of StopOnPanic.
IoFinishes(t) ==
    /\ IoSet(t, "ended", "finished")
    /\ finished' = [finished EXCEPT ![t] = TRUE]
    /\ UNCHANGED <<vcpus, startedIds, exits, ioStop, noted, handle, wakes,
                   askers, main, ledger>>

IoNotes(t) ==
    /\ IoSet(t, "finished", "gone")
    /\ noted' = noted + 1
    /\ UNCHANGED <<vcpus, startedIds, exits, ioStop, finished, handle, wakes,
                   askers, main, ledger>>

IoEnds(t) == IoAsks(t) \/ IoWakes(t) \/ IoFinishes(t) \/ IoNotes(t)

-----------------------------------------------------------------------------
(* StopHandle::request. *)

AskerSet(a, from, to) == apc[a] = from /\ apc' = [apc EXCEPT ![a] = to]

\* A request by `by`.  A signal is recorded before the request.
Ask(a, by) ==
    /\ AskerSet(a, "idle", "first") /\ asks[a] < MaxRequests
    /\ asks' = [asks EXCEPT ![a] = @ + 1]
    /\ asking' = [asking EXCEPT ![a] = by]
    /\ signal' = IF by # "api" /\ signal = "none" THEN by ELSE signal
    /\ UNCHANGED <<vcpus, startedIds, exits, io, first, wakes, main, ledger>>

AskFirst(a) ==
    /\ AskerSet(a, "first", "wake")
    /\ first' = IF first = "none" THEN asking[a] ELSE first
    /\ UNCHANGED <<vcpus, startedIds, exits, io, signal, wakes, asks, asking,
                   main, ledger>>

AskWake(a) ==
    /\ AskerSet(a, "wake", "idle")
    /\ asking' = [asking EXCEPT ![a] = "none"]
    /\ Wake
    /\ UNCHANGED <<vcpus, startedIds, exits, io, handle, asks, main, ledger>>

AskOn(a) == AskFirst(a) \/ AskWake(a)

-----------------------------------------------------------------------------
(* The thread that called boot. *)

MainSet(from, to) == mpc = from /\ mpc' = to

\* Vcpus::spawn spawns the next vCPU thread.
Spawn ==
    /\ mpc = "spawn" /\ spawned < N
    /\ spawned' = spawned + 1
    /\ vpc' = [vpc EXCEPT ![spawned] = "new"]
    /\ mpc' = IF spawned' = N THEN "install" ELSE "spawn"
    /\ UNCHANGED <<vcpus, startedIds, exited, exitFlag, io, handle, wakes,
                   askers, failure, announced, expired, next, left, result,
                   slot, ledger>>

\* A spawn that fails stops the vCPUs and spawns no more.
SpawnFails ==
    /\ MainSet("spawn", "install")
    /\ failure' = TRUE /\ running' = FALSE
    /\ UNCHANGED <<outcome, firstReport, failed, startedIds, exits, io, handle,
                   wakes, askers, spawned, announced, expired, next, left,
                   result, slot, ledger>>

\* run_guest installs the calling thread's filter and enters run_to_stop, which
\* waits unless it has a failure.
Install(fails) ==
    /\ mpc = "install"
    /\ failure' = (failure \/ fails)
    /\ mpc' = IF failure' THEN "stop" ELSE "announce"
    /\ UNCHANGED <<vcpus, startedIds, exits, io, handle, wakes, askers,
                   spawned, announced, expired, next, left, result, slot,
                   ledger>>

\* on_wake in run_to_stop records the vCPUs started since the last time.
Announce ==
    /\ MainSet("announce", "check")
    /\ recorded' = recorded \o SubSeq(startedIds, announced + 1, Len(startedIds))
    /\ announced' = Len(startedIds)
    /\ UNCHANGED <<vcpus, startedIds, exits, io, handle, wakes, askers,
                   spawned, failure, expired, next, left, result, slot,
                   stopRecord>>

\* Mutant of Check: an exit does not end the wait.
CheckRequestOnly ==
    /\ mpc = "check"
    /\ mpc' = IF first # "none" THEN "stop" ELSE "wait"
    /\ UNCHANGED <<vcpus, startedIds, exits, io, handle, wakes, askers,
                   spawned, failure, announced, expired, next, left, result,
                   slot, ledger>>

\* Vcpus::wait_for_stop checks for an exit or a request.
Check ==
    /\ mpc = "check"
    /\ mpc' = IF exited > 0 \/ first # "none" THEN "stop" ELSE "wait"
    /\ UNCHANGED <<vcpus, startedIds, exits, io, handle, wakes, askers,
                   spawned, failure, announced, expired, next, left, result,
                   slot, ledger>>

\* Waker::wait drains what one read takes.
Drain == wakes' = IF wakes > DrainSize THEN wakes - DrainSize ELSE 0

Wait ==
    /\ MainSet("wait", "announce") /\ wakes > 0
    /\ Drain
    /\ UNCHANGED <<vcpus, startedIds, exits, io, handle, askers, spawned,
                   failure, announced, expired, next, left, result, slot,
                   ledger>>

\* The poll fails.
WaitFails ==
    /\ MainSet("wait", "stop")
    /\ failure' = TRUE
    /\ UNCHANGED <<vcpus, startedIds, exits, io, handle, wakes, askers,
                   spawned, announced, expired, next, left, result, slot,
                   ledger>>

\* Vcpus::stop.
Stop ==
    /\ MainSet("stop", "exits")
    /\ running' = FALSE
    /\ UNCHANGED <<outcome, firstReport, failed, startedIds, exits, io, handle,
                   wakes, askers, spawned, failure, announced, expired, next,
                   left, result, slot, ledger>>

\* The deadline of the wait for the vCPU threads, or the I/O threads, passes.
DeadlinePasses ==
    /\ mpc \in {"exits", "waitexits", "waitio"} /\ ~expired
    /\ expired' = TRUE
    /\ UNCHANGED <<vcpus, startedIds, exits, io, handle, wakes, askers, mpc,
                   spawned, failure, announced, next, left, result, slot,
                   ledger>>

\* Mutant of CheckExits: the wait has no deadline.
CheckExitsForever ==
    /\ mpc = "exits"
    /\ mpc' = IF exited >= spawned THEN "join" ELSE "waitexits"
    /\ expired' = (expired /\ mpc' # "join")
    /\ UNCHANGED <<vcpus, startedIds, exits, io, handle, wakes, askers,
                   spawned, failure, announced, next, left, result, slot,
                   ledger>>

\* Vcpus::wait_for_exits.
CheckExits ==
    /\ mpc = "exits"
    /\ mpc' = IF exited >= spawned \/ expired THEN "join" ELSE "waitexits"
    /\ expired' = (expired /\ mpc' # "join")
    /\ UNCHANGED <<vcpus, startedIds, exits, io, handle, wakes, askers,
                   spawned, failure, announced, next, left, result, slot,
                   ledger>>

WaitExits ==
    /\ MainSet("waitexits", "exits")
    /\ \/ wakes > 0 /\ Drain
       \/ wakes = 0 /\ expired /\ UNCHANGED wakes
    /\ UNCHANGED <<vcpus, startedIds, exits, io, handle, askers, spawned,
                   failure, announced, expired, next, left, result, slot,
                   ledger>>

\* Its poll fails, and the threads are joined at once.
WaitExitsFails ==
    /\ MainSet("waitexits", "join")
    /\ expired' = FALSE
    /\ UNCHANGED <<vcpus, startedIds, exits, io, handle, wakes, askers,
                   spawned, failure, announced, next, left, result, slot,
                   ledger>>

\* join_timeout joins the next vCPU thread if it has marked its exit, and the
\* join lasts until the thread is gone.  Otherwise it leaves it running.
Join ==
    /\ mpc = "join" /\ next < spawned
    /\ exitFlag[next] => vpc[next] = "gone"
    /\ left' = IF exitFlag[next] THEN left ELSE left \cup {next}
    /\ next' = next + 1
    /\ UNCHANGED <<vcpus, startedIds, exits, io, handle, wakes, askers, mpc,
                   spawned, failure, announced, expired, result, slot, ledger>>

\* IoThreads::stop requests the stop.
StopIo ==
    /\ MainSet("join", "waitio") /\ next = spawned
    /\ ioStop' = TRUE
    /\ UNCHANGED <<vcpus, startedIds, exits, finished, noted, ipc, handle,
                   wakes, askers, spawned, failure, announced, expired, next,
                   left, result, slot, ledger>>

\* It waits for all to finish, or for its deadline.
WaitIo ==
    /\ MainSet("waitio", "joinio")
    /\ noted >= Cardinality(Io) \/ expired
    /\ expired' = FALSE
    /\ UNCHANGED <<vcpus, startedIds, exits, io, handle, wakes, askers,
                   spawned, failure, announced, next, left, result, slot,
                   ledger>>

\* IoThread::try_join of every thread.
JoinIo ==
    /\ MainSet("joinio", "outcome")
    /\ \A t \in Io : finished[t] => ipc[t] = "gone"
    /\ left' = left \cup {t \in Io : ~finished[t]}
    /\ UNCHANGED <<vcpus, startedIds, exits, io, handle, wakes, askers,
                   spawned, failure, announced, expired, next, result, slot,
                   ledger>>

\* Mutant of Conclude: a request wins over a report.
ConcludeRequestFirst ==
    /\ MainSet("outcome", "record")
    /\ result' = IF failure \/ left # {} THEN "failed"
                 ELSE IF first # "none" THEN "requested"
                 ELSE IF outcome # "none" THEN outcome ELSE "off"
    /\ UNCHANGED <<vcpus, startedIds, exits, io, handle, wakes, askers,
                   spawned, failure, announced, expired, next, left, slot,
                   ledger>>

\* Vcpus::outcome, and what run_to_stop makes of it.
Conclude ==
    /\ MainSet("outcome", "record")
    /\ result' = IF failure \/ left # {} THEN "failed"
                 ELSE IF outcome # "none" THEN outcome
                 ELSE IF first # "none" THEN "requested" ELSE "off"
    /\ UNCHANGED <<vcpus, startedIds, exits, io, handle, wakes, askers,
                   spawned, failure, announced, expired, next, left, slot,
                   ledger>>

\* The last batch: the starts not recorded yet and the vmm.stop record, which
\* names the signal only if it asked first and the run stopped for it.
RecordStop ==
    /\ MainSet("record", "claim")
    /\ recorded' = recorded \o SubSeq(startedIds, announced + 1, Len(startedIds))
    /\ stopRecord' = [reason |-> result,
                      signal |-> IF result = "requested" /\ first \in Signals
                                 THEN first ELSE "none"]
    /\ UNCHANGED <<vcpus, startedIds, exits, io, handle, wakes, askers,
                   spawned, failure, announced, expired, next, left, result,
                   slot>>

\* Mutant of DropClaim: the claim is dropped with a thread left running.
DropClaimFrees ==
    /\ MainSet("claim", "returned")
    /\ slot' = "free"
    /\ UNCHANGED <<vcpus, startedIds, exits, io, handle, wakes, askers,
                   spawned, failure, announced, expired, next, left, result,
                   ledger>>

\* boot keeps the claim if a thread was left running, and drops it.
DropClaim ==
    /\ MainSet("claim", "returned")
    /\ slot' = IF left = {} THEN "free" ELSE "kept"
    /\ UNCHANGED <<vcpus, startedIds, exits, io, handle, wakes, askers,
                   spawned, failure, announced, expired, next, left, result,
                   ledger>>

\* A panic in run_to_stop: StopOnUnwind stops the vCPUs, the drop of StopPlan
\* the I/O threads, and the claim is kept.  The unwind is one step.
MainPanics ==
    /\ mpc \in {"announce", "check", "wait", "stop", "exits", "waitexits",
                "join", "waitio", "joinio", "outcome", "record"}
    /\ mpc' = "panicked"
    /\ running' = FALSE /\ ioStop' = TRUE /\ slot' = "kept"
    /\ UNCHANGED <<outcome, firstReport, failed, startedIds, exits, finished,
                   noted, ipc, handle, wakes, askers, spawned, failure,
                   announced, expired, next, left, result, ledger>>

MainStep ==
    \/ Spawn \/ Install(FALSE) \/ Announce \/ Check \/ Wait \/ Stop
    \/ CheckExits \/ WaitExits \/ Join \/ StopIo \/ WaitIo \/ JoinIo
    \/ Conclude \/ RecordStop \/ DropClaim

MainFault ==
    SpawnFails \/ Install(TRUE) \/ WaitFails \/ WaitExitsFails \/ MainPanics

Next ==
    \/ \E c \in Cpus :
          \/ MarkStarted(c) \/ LoopStops(c) \/ VcpuExits(c)
          \/ \E o \in {"off", "reset", "failed"} : LoopBreaks(c, o)
    \/ \E t \in Io : IoReturns(t) \/ IoPanics(t) \/ IoEnds(t)
    \/ \E a \in Callers : Ask(a, "api")
    \/ \E s \in Signals : Ask("signals", s)
    \/ \E a \in Askers : AskOn(a)
    \/ MainStep
    \/ DeadlinePasses
    \/ MainFault

Spec == Init /\ [][Next]_vars

(***************************************************************************)
(* Fairness: the scheduler runs the thread that called boot, time passes,  *)
(* and a thread that has begun to end, or to ask for a stop, goes on.      *)
(* Nothing makes a vCPU leave its loop or an I/O thread its body: a plugin *)
(* or a host call can hold either for ever.                                *)
(***************************************************************************)
Fairness ==
    /\ WF_vars(MainStep) /\ WF_vars(DeadlinePasses)
    /\ \A c \in Cpus : WF_vars(VcpuExits(c))
    /\ \A t \in Io : WF_vars(IoEnds(t))
    /\ \A a \in Askers : WF_vars(AskOn(a))

-----------------------------------------------------------------------------
(* Properties. *)

\* What the loop waits for.
News == exited > 0 \/ first # "none"

(***************************************************************************)
(* The loop does not sleep on news: while it waits with no deadline for an *)
(* exit or a request that has come, a wake is in the pipe or the thread    *)
(* that brought the news is about to write one (Vcpus::wait_for_stop:      *)
(* "one that lands after the check leaves a wake pending").                *)
(***************************************************************************)
NewsWakesTheLoop ==
    mpc = "wait" /\ News =>
        \/ wakes > 0
        \/ \E c \in Cpus : vpc[c] = "counted"
        \/ \E t \in Io : ipc[t] = "wake"
        \/ \E a \in Askers : apc[a] = "wake"

(***************************************************************************)
(* A run that ends well ended cleanly: every vCPU and I/O thread is gone   *)
(* and none of them failed, so no thread's failure is lost ("Every failure *)
(* is reported", Vcpus::outcome).                                          *)
(***************************************************************************)
OkMeansClean ==
    result \in {"off", "reset", "requested"} =>
        /\ ~failed
        /\ \A c \in Cpus : vpc[c] = "gone"
        /\ \A t \in Io : ipc[t] = "gone"

(***************************************************************************)
(* A run's result has the cause it names: a guest stop is the first one a  *)
(* vCPU reported, and a run is a requested stop only if no vCPU reported   *)
(* one (Vcpus::outcome).                                                   *)
(***************************************************************************)
ResultIsCaused ==
    /\ result \in {"off", "reset"} => firstReport = result
    /\ result = "requested" => firstReport = "none" /\ first # "none"

(***************************************************************************)
(* The process takes another run only once nothing of this one is left     *)
(* (RunClaim, boot).                                                       *)
(***************************************************************************)
FreeMeansNothingLeft ==
    slot = "free" => /\ \A c \in Cpus : vpc[c] \in {"none", "gone"}
                     /\ \A t \in Io : ipc[t] = "gone"

(***************************************************************************)
(* The ledger lists each vCPU that starts once, in the order they start.   *)
(* Once the stop is recorded, only a vCPU that was left running can be     *)
(* missing (run_to_stop).                                                  *)
(***************************************************************************)
StartsAreRecorded ==
    /\ Len(recorded) <= Len(startedIds) /\ recorded = SubSeq(startedIds, 1, Len(recorded))
    /\ stopRecord # NoRecord =>
          \A i \in Len(recorded) + 1 .. Len(startedIds) : startedIds[i] \in left

(***************************************************************************)
(* A signal that asked first is the stop signal a binary ends by: "whoever *)
(* sees the request also finds the signal that made it"                    *)
(* (StopHandle::request).                                                  *)
(***************************************************************************)
FirstSignalIsFound == first \in Signals => signal = first

\* The run is over.
Over == mpc \in {"returned", "panicked"}
=============================================================================
