----------------------------- MODULE PanicAbort -----------------------------
(***************************************************************************)
(* A panic in a binary built with `panic = "abort"` (run/panic.rs,         *)
(* CurrentRun in run/supervisor.rs): the hook of the thread that panicked  *)
(* stops the vCPUs, prints, writes the `vmm.stop` record of the run in     *)
(* progress, and then the abort ends the process.  The thread that called  *)
(* boot meanwhile starts, runs or tears down the run.                      *)
(*                                                                         *)
(* The writer of the ledger is one step that writes what is buffered; its  *)
(* failures are in Ledger.tla.  A deadline may pass at any time.  A thread *)
(* holds the slot across a step only in enter: the other sections under    *)
(* its lock are one step each.                                             *)
(***************************************************************************)
EXTENDS Naturals, Sequences, FiniteSets, TLC

CONSTANTS Vcpus,           \* the vCPU threads
          Others,          \* the other threads of the process, but main
          MaxPanics,       \* a bound on the threads that panic
          MaxCaptures      \* a bound on the records a vCPU offers

Main    == "main"
Threads == Vcpus \cup Others \cup {Main}

VARIABLES
    aborting,              \* ABORTING
    slot,                  \* who holds CURRENT_RUN's lock, or "free"
    current,               \* whether the run is the current one
    lines, closed,         \* the ledger's records, and whether it is closed
    written,               \* how many of the records are in the file
    running, outcome,      \* Vcpus::running and Vcpus::outcome
    vpc,                   \* each vCPU thread
    mpc,                   \* where main is in boot
    result,                \* what main read of the outcome
    ppc,                   \* where each thread is in the hook
    found,                 \* whether its record_failure found the run current
    half, past,            \* whether half its wait, or all of it, has passed
    ended,                 \* how the process ended
    lost,                  \* captured records offered once the ledger is closed
    hasty,                 \* whether the ledger was closed with a vCPU left
    told,                  \* whether a hook reported its failure before main read
    early                  \* whether a hook started while the run was in progress

ledger == <<lines, closed, written>>
vcpus  == <<running, outcome, vpc>>
hook   == <<ppc, found, half, past>>
vars == <<aborting, slot, current, ledger, vcpus, mpc, result, hook, ended,
          lost, hasty, told, early>>

Start      == [kind |-> "start", reason |-> ""]
Capture    == [kind |-> "capture", reason |-> ""]
StopOf(r)  == [kind |-> "stop", reason |-> r]

Init ==
    /\ aborting = FALSE
    /\ slot = "free"
    /\ current = FALSE
    /\ lines = <<>> /\ closed = FALSE /\ written = 0
    /\ running = TRUE /\ outcome = "none"
    /\ vpc = [v \in Vcpus |-> "unspawned"]
    /\ mpc = "start" /\ result = "none"
    /\ ppc = [t \in Threads |-> "no"]
    /\ found = [t \in Threads |-> FALSE]
    /\ half = [t \in Threads |-> FALSE]
    /\ past = [t \in Threads |-> FALSE]
    /\ ended = "no" /\ lost = 0 /\ hasty = FALSE /\ told = FALSE /\ early = FALSE

-----------------------------------------------------------------------------
(* The ledger. *)

\* submit: nothing is added to a closed ledger.
Add(r) == IF closed THEN lines ELSE Append(lines, r)

\* A pass takes all that is queued.
Gathered == Len(lines)

WriterWrites ==
    /\ ended = "no" /\ written < Len(lines)
    /\ written' = Gathered
    /\ UNCHANGED <<aborting, slot, current, lines, closed, vcpus, mpc, result,
                   hook, ended, lost, hasty, told, early>>

-----------------------------------------------------------------------------
(* The vCPU threads.  One that runs leaves the guest, handles its exit and *)
(* may offer a captured record before it reads `running` again.            *)

Loops(v) ==
    /\ vpc[v] = "loop"
    /\ vpc' = [vpc EXCEPT ![v] = IF running THEN "exit" ELSE "exited"]
    /\ UNCHANGED <<lines, lost, outcome>>

Captures(v) ==
    /\ vpc[v] = "exit"
    /\ Cardinality({i \in 1..Len(lines) : lines[i] = Capture}) + lost < MaxCaptures
    /\ vpc' = [vpc EXCEPT ![v] = "loop"]
    /\ lines' = Add(Capture)
    /\ lost' = lost + (IF closed THEN 1 ELSE 0)
    /\ UNCHANGED outcome

NoCapture(v) ==
    /\ vpc[v] = "exit"
    /\ vpc' = [vpc EXCEPT ![v] = "loop"]
    /\ UNCHANGED <<lines, lost, outcome>>

\* The guest powers off: the vCPU reports a stop, unless there is an outcome.
PowersOff(v) ==
    /\ vpc[v] = "exit"
    /\ vpc' = [vpc EXCEPT ![v] = "exited"]
    /\ outcome' = IF outcome = "none" THEN "stopped" ELSE outcome
    /\ UNCHANGED <<lines, lost>>

VcpuStep(v) ==
    /\ ended = "no" /\ ppc[v] = "no"
    /\ Loops(v) \/ Captures(v) \/ NoCapture(v) \/ PowersOff(v)
    /\ UNCHANGED <<aborting, slot, current, closed, written, running, mpc,
                   result, hook, ended, hasty, told, early>>

-----------------------------------------------------------------------------
(* Main: boot from record_start to the end of the process. *)

EnterLocks ==
    /\ mpc = "start" /\ slot = "free"
    /\ slot' = Main
    /\ mpc' = "f"
    /\ UNCHANGED <<current, lines, vcpus, closed, result, ended, hasty>>

\* `f` adds vmm.start, and the run becomes current as the slot is released.
EnterRuns ==
    /\ mpc = "f"
    /\ lines' = Add(Start)
    /\ current' = TRUE /\ slot' = "free"
    /\ mpc' = "spawn"
    /\ UNCHANGED <<vcpus, closed, result, ended, hasty>>

Spawn ==
    /\ mpc = "spawn"
    /\ \/ \E v \in Vcpus : /\ vpc[v] = "unspawned"
                           /\ vpc' = [vpc EXCEPT ![v] = "loop"]
                           /\ mpc' = mpc
       \/ /\ \A v \in Vcpus : vpc[v] # "unspawned"
          /\ mpc' = "wait" /\ vpc' = vpc
    /\ UNCHANGED <<slot, current, lines, closed, running, outcome, result,
                   ended, hasty>>

\* wait_for_stop ends when a vCPU has exited or a stop was requested; then stop.
StopsRun ==
    /\ mpc = "wait"
    /\ running' = FALSE
    /\ outcome' = IF outcome = "none" THEN "stopped" ELSE outcome
    /\ mpc' = "join"
    /\ UNCHANGED <<slot, current, lines, closed, vpc, result, ended, hasty>>

AllExited == \A v \in Vcpus : vpc[v] = "exited"

\* join_timeout ends, and main reads the outcome.
ReadsOutcome ==
    /\ mpc = "join"
    /\ result' = IF AllExited THEN outcome ELSE "failed"
    /\ mpc' = "close"
    /\ UNCHANGED <<slot, current, lines, closed, vcpus, ended, hasty>>

ClosesWithStop ==
    /\ mpc = "close"
    /\ lines' = Add(StopOf(result))
    /\ closed' = TRUE
    /\ hasty' = (hasty \/ (~closed /\ ~AllExited))
    /\ mpc' = "closing"
    /\ UNCHANGED <<slot, current, vcpus, result, ended>>

\* The wait for the writer ends, with the record or at its deadline.
ClosingEnds ==
    /\ mpc = "closing"
    /\ mpc' = "leave"
    /\ UNCHANGED <<slot, current, lines, closed, vcpus, result, ended, hasty>>

EnterGuardDrops ==
    /\ mpc = "leave" /\ slot = "free"
    /\ current' = FALSE
    /\ mpc' = "finish"
    /\ UNCHANGED <<slot, lines, closed, vcpus, result, ended, hasty>>

\* Mutant of ParksFor: the process exits whatever the hooks do.
ParksForNone(a) == FALSE

\* wait_for_panic_abort.
ParksFor(a) == a

Finishes ==
    /\ mpc = "finish"
    /\ IF ParksFor(aborting)
       THEN mpc' = "parked" ELSE mpc' = "exiting"
    /\ UNCHANGED <<slot, current, lines, closed, vcpus, result, ended, hasty>>

Exits ==
    /\ mpc = "exiting"
    /\ ended' = "exit"
    /\ UNCHANGED <<slot, current, lines, closed, vcpus, mpc, result, hasty>>

MainStep ==
    /\ ended = "no" /\ ppc[Main] = "no"
    /\ EnterLocks \/ EnterRuns \/ Spawn \/ StopsRun \/ ReadsOutcome
          \/ ClosesWithStop \/ ClosingEnds \/ EnterGuardDrops \/ Finishes \/ Exits
    /\ UNCHANGED <<aborting, written, hook, lost, told, early>>

-----------------------------------------------------------------------------
(* The hook of a thread that panicked. *)

\* A thread panics where it runs: a vCPU thread once it is spawned, main
\* until it has parked.
CanPanic(t) ==
    /\ ppc[t] = "no"
    /\ t \in Vcpus => vpc[t] \notin {"unspawned", "exited"}
    /\ t = Main => mpc # "parked"

Panics(t) ==
    /\ CanPanic(t)
    /\ Cardinality({u \in Threads : ppc[u] # "no"}) < MaxPanics
    /\ aborting' = TRUE
    /\ ppc' = [ppc EXCEPT ![t] = "report"]
    /\ UNCHANGED <<current, lines, closed, running, outcome, found, hasty,
                   told, ended>>

\* Mutant of FailureReplaces: a failure does not replace a stop.
FailureReplacesNone(o) == o = "none"

\* stop_without_blocking: a failure replaces no outcome, or a stop.
FailureReplaces(o) == o \in {"none", "stopped"}

\* The outcome is left alone when another thread has its lock.
StopWithoutBlocking ==
    /\ running' = FALSE
    /\ \/ /\ outcome' = IF FailureReplaces(outcome) THEN "failed" ELSE outcome
          /\ told' = (told \/ result = "none")
       \/ UNCHANGED <<outcome, told>>

\* Mutant of StopVcpus: the hook leaves the vCPUs to record_failure.
StopVcpusLate(t) ==
    /\ ppc[t] = "report"
    /\ ppc' = [ppc EXCEPT ![t] = "print"]
    /\ UNCHANGED <<aborting, current, lines, closed, running, outcome, found,
                   hasty, told, ended>>

\* stop_vcpus stops them unless another thread holds the slot.
StopVcpus(t) ==
    /\ ppc[t] = "report"
    /\ ppc' = [ppc EXCEPT ![t] = "print"]
    /\ IF slot = "free" /\ current
       THEN StopWithoutBlocking
       ELSE UNCHANGED <<running, outcome, told>>
    /\ UNCHANGED <<aborting, current, lines, closed, found, hasty, ended>>

\* The report is printed, which a stderr that blocks can hold up.
PrintsReport(t) ==
    /\ ppc[t] = "print"
    /\ ppc' = [ppc EXCEPT ![t] = "slot"]
    /\ UNCHANGED <<aborting, current, lines, closed, running, outcome, found,
                   hasty, told, ended>>

\* record_failure takes the slot; with no run current it is done.
TakesSlot(t) ==
    /\ ppc[t] = "slot" /\ slot = "free"
    /\ found' = [found EXCEPT ![t] = current]
    /\ IF current
       THEN ppc' = [ppc EXCEPT ![t] = "exits"] /\ StopWithoutBlocking
       ELSE /\ ppc' = [ppc EXCEPT ![t] = "abort"]
            /\ UNCHANGED <<running, outcome, told>>
    /\ UNCHANGED <<aborting, current, lines, closed, hasty, ended>>

\* The slot is still held at the deadline.
GivesUpSlot(t) == past[t]

NoSlot(t) ==
    /\ ppc[t] = "slot" /\ slot # "free" /\ GivesUpSlot(t)
    /\ ppc' = [ppc EXCEPT ![t] = "abort"]
    /\ UNCHANGED <<aborting, current, lines, closed, running, outcome, found,
                   hasty, told, ended>>

\* wait_for_exits_until: every thread spawned but the caller's own has exited.
Exited(t) == \A v \in Vcpus \ {t} : vpc[v] \in {"unspawned", "exited"}

ExitsEnd(t) ==
    /\ ppc[t] = "exits"
    /\ Exited(t) \/ half[t]
    /\ ppc' = [ppc EXCEPT ![t] = "close"]
    /\ UNCHANGED <<aborting, current, lines, closed, running, outcome, found,
                   hasty, told, ended>>

ClosesWithFailure(t) ==
    /\ ppc[t] = "close"
    /\ lines' = Add(StopOf("failed"))
    /\ closed' = TRUE
    /\ hasty' = (hasty \/ (~closed /\ half[t]))
    /\ ppc' = [ppc EXCEPT ![t] = "writes"]
    /\ UNCHANGED <<aborting, current, running, outcome, found, told, ended>>

\* Mutant of WritesEnd: a ledger already closed is not waited for.
WritesEndClosed(t) ==
    \/ written = Len(lines) \/ past[t]
    \/ \E u \in Threads \ {t} : ppc[u] = "writes"

\* The wait for the record, this thread's or the one that closed the ledger.
WritesEnd(t) == written = Len(lines) \/ past[t]

WaitsForWrites(t) ==
    /\ ppc[t] = "writes" /\ WritesEnd(t)
    /\ ppc' = [ppc EXCEPT ![t] = "abort"]
    /\ UNCHANGED <<aborting, current, lines, closed, running, outcome, found,
                   hasty, told, ended>>

Aborts(t) ==
    /\ ppc[t] = "abort"
    /\ ended' = "abort"
    /\ UNCHANGED <<aborting, current, lines, closed, running, outcome, ppc,
                   found, hasty, told>>

Prints(t) ==
    /\ ended = "no"
    /\ PrintsReport(t)
    /\ UNCHANGED <<slot, written, vpc, mpc, result, half, past, lost, early>>

HookStep(t) ==
    /\ ended = "no"
    /\ StopVcpus(t) \/ TakesSlot(t) \/ NoSlot(t) \/ ExitsEnd(t)
          \/ ClosesWithFailure(t) \/ WaitsForWrites(t) \/ Aborts(t)
    /\ UNCHANGED <<slot, written, vpc, mpc, result, half, past, lost, early>>

PanicStep(t) ==
    /\ ended = "no"
    /\ Panics(t)
    /\ early' = (early \/ mpc \notin {"finish", "exiting"})
    /\ UNCHANGED <<slot, written, vpc, mpc, result, half, past, lost>>

\* Half, then all, of the STOP_TIMEOUT of record_failure passes.
TimePasses(t) ==
    /\ ended = "no"
    /\ ppc[t] \in {"slot", "exits", "close", "writes"} /\ ~past[t]
    /\ half' = [half EXCEPT ![t] = TRUE]
    /\ past' = [past EXCEPT ![t] = half[t]]
    /\ UNCHANGED <<aborting, slot, current, ledger, vcpus, mpc, result, ppc,
                   found, ended, lost, hasty, told, early>>

Ended == ended # "no" /\ UNCHANGED vars

Next ==
    \/ WriterWrites \/ MainStep \/ Ended
    \/ \E v \in Vcpus : VcpuStep(v)
    \/ \E t \in Threads : PanicStep(t) \/ HookStep(t) \/ Prints(t) \/ TimePasses(t)

Spec == Init /\ [][Next]_vars

\* A hook goes on, and time passes, whatever the other threads do.  A stderr
\* that blocks is allowed for: the print is fair only in FairSpec.
HookFairness ==
    \A t \in Threads : WF_vars(HookStep(t)) /\ WF_vars(TimePasses(t))
BlockedSpec == Spec /\ HookFairness
FairSpec == BlockedSpec /\ \A t \in Threads : WF_vars(Prints(t))

-----------------------------------------------------------------------------
(* Properties. *)

\* The run's vmm.stop record is one, the last, and follows its vmm.start,
\* however panics and the teardown race to write it.
OneStopAfterStart ==
    \A i \in 1..Len(lines) : lines[i].kind = "stop" =>
        /\ i = Len(lines)
        /\ \E j \in 1..i : lines[j].kind = "start"

\* A panic that found the run current ends the process only once a vmm.stop
\* record is in the file, its own or the one of the thread that was first,
\* unless its own time is over.
AbortAfterRecord ==
    \A t \in Threads :
        (ppc[t] = "abort" /\ found[t] /\ ~past[t]) =>
            \E i \in 1..written : lines[i].kind = "stop"

\* The record says the run failed when a hook stopped the run before the
\* teardown read its outcome, also when the guest had just powered off.
RecordsTheFailure ==
    (\E i \in 1..Len(lines) : lines[i] = StopOf("stopped")) =>
        ~told

\* The closed ledger drops no captured record, unless it was closed with a
\* vCPU that had not exited when its time was over.
CapturesAreKept == lost > 0 => hasty

\* A panic ends the process, also on the thread that holds the slot, on
\* several threads at once, and with vCPUs and writes that never return.
ProcessOver == ended # "no"

\* The guest of the current run stops though the report cannot be printed.
Reports == current /\ \E t \in Threads : ppc[t] = "report"
GuestStopped == ~running

\* The process ends by the abort, so its parent sees that, once a hook has
\* started while the run was in progress: main does not exit first.
HookKeepsAbort == ended = "exit" => ~early
=============================================================================
