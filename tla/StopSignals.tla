---------------------------- MODULE StopSignals ----------------------------
(***************************************************************************)
(* The stop signals (signal.rs): a binary asks for them with               *)
(* stop_on_signals, the next boot installs the handlers and starts the     *)
(* thread that receives them, and StopOnSignals::finish ends the process.  *)
(*                                                                         *)
(* signal-hook keeps one flag a signal, so a signal sent again before the  *)
(* thread receives it is the same one.  The binary makes up to MaxTargets  *)
(* runs, each with a handle of its own, and a run can fail to stop.  Only  *)
(* the order of STOP_TIMEOUT and the signals matters: the age of the first *)
(* signal is "recent" or "old".  With Prompt it gets old only while no     *)
(* signal is pending, as the thread wakes in far less than STOP_TIMEOUT.   *)
(***************************************************************************)
EXTENDS Naturals, FiniteSets

CONSTANTS Signals,         \* STOP_SIGNALS
          MaxTargets,      \* a bound on the handles the binary makes
          Prompt           \* whether the thread receives a signal before time passes

VARIABLES
    action,                \* each signal's action: "default", "ignored", "hook"
    target,                \* the handle of the latest stop_on_signals, 0 for none
    first,                 \* the age of the first signal for the target
    thread,                \* whether the thread has started
    registered,            \* the signals registered so far
    pending,               \* the signals the thread has yet to receive
    signal,                \* the signal recorded in each handle
    mpc,                   \* where the binary is
    ended,                 \* how the process ended
    by,                    \* the signal it ended by
    asked,                 \* the age of the first signal that asked the target
    late                   \* the signals sent once `asked` is old

state == <<target, first, thread, registered>>
vars == <<action, state, pending, signal, mpc, ended, by, asked, late>>

Targets == 1..MaxTargets
None == "none"

\* The process starts with some signals ignored, as nohup leaves SIGHUP.
Init ==
    /\ action \in [Signals -> {"default", "ignored"}]
    /\ target = 0 /\ first = None /\ thread = FALSE /\ registered = {}
    /\ pending = {}
    /\ signal = [t \in Targets |-> None]
    /\ mpc = "idle" /\ ended = "no" /\ by = None
    /\ asked = None /\ late = {}

-----------------------------------------------------------------------------
(* The binary. *)

\* register passes over the signals registered or ignored, and with no thread
\* does nothing.
Eligible == {s \in Signals \ registered : action[s] # "ignored"}

\* It registers `some` of the eligible signals, all unless one fails.
Registers(some) ==
    /\ registered' = registered \cup some
    /\ action' = [s \in Signals |-> IF s \in some THEN "hook" ELSE action[s]]

\* stop_on_signals starts a new target without a first signal.
FirstFor(f) == None

\* stop_on_signals(&handle) with a new handle, before the run that takes it.
StopOnSignals ==
    /\ mpc \in {"idle", "done"} /\ target < MaxTargets
    /\ target' = target + 1
    /\ first' = FirstFor(first)
    /\ asked' = None /\ late' = {}
    /\ \E some \in SUBSET (IF thread THEN Eligible ELSE {}) :
          Registers(some)
    /\ mpc' = "ready"
    /\ UNCHANGED <<thread, pending, signal, ended, by>>

\* start_stop_signal_thread, as boot starts the run.
StartThread ==
    /\ mpc = "ready"
    /\ thread' = TRUE
    /\ \E some \in SUBSET Eligible :
          /\ Registers(some)
          /\ mpc' = IF some = Eligible THEN "run" ELSE "done"
    /\ UNCHANGED <<target, first, pending, signal, ended, by, asked, late>>

\* The signals registered when the thread cannot be started.
AtSpawnFailure == IF thread THEN Eligible ELSE {}

SpawnFails ==
    /\ mpc = "ready" /\ ~thread
    /\ Registers(AtSpawnFailure)
    /\ mpc' = "done"
    /\ UNCHANGED <<target, first, thread, pending, signal, ended, by, asked,
                   late>>

\* The run stops, by its guest or a request, or never does.
RunEnds ==
    /\ mpc = "run"
    /\ mpc' \in {"done", "stuck"}
    /\ UNCHANGED <<action, state, pending, signal, ended, by, asked, late>>

\* A binary that wants the stop on an ignored signal gives it its default.
Unignores(s) ==
    /\ action[s] = "ignored"
    /\ action' = [action EXCEPT ![s] = "default"]
    /\ UNCHANGED <<state, pending, signal, mpc, ended, by, asked, late>>

\* Mutant of FinishBy: the process exits with a status whatever asked.
FinishByNone(t) == None

\* StopOnSignals::finish ends by the signal of its handle.
FinishBy(t) == signal[t]

Finish ==
    /\ mpc = "done"
    /\ by' = FinishBy(target)
    /\ ended' = IF by' = None THEN "exited" ELSE "finished"
    /\ UNCHANGED <<action, state, pending, signal, mpc, asked, late>>

Binary ==
    /\ ended = "no"
    /\ \/ StopOnSignals \/ StartThread \/ SpawnFails \/ RunEnds \/ Finish
       \/ \E s \in Signals : Unignores(s)

-----------------------------------------------------------------------------
(* The signals. *)

Send(s) ==
    /\ ended = "no"
    /\ pending' = IF action[s] = "hook" THEN pending \cup {s} ELSE pending
    /\ ended' = IF action[s] = "default" THEN "action" ELSE ended
    /\ by' = IF action[s] = "default" THEN s ELSE by
    /\ late' = IF asked = "old" THEN late \cup {s} ELSE late
    /\ UNCHANGED <<action, state, signal, mpc, asked>>

\* Mutant of Escalates: a second signal ends the process at any time.
EscalatesSoon(f) == f # None

\* Mutant of Escalates: no further signal ends the process.
EscalatesNever(f) == FALSE

\* The second signal comes STOP_TIMEOUT or more after the first.
Escalates(f) == f = "old"

\* receive_stop_signals: the first signal asks the target to stop.
Receive(s) ==
    /\ ended = "no" /\ thread /\ s \in pending
    /\ pending' = pending \ {s}
    /\ IF first = None
       THEN /\ first' = "recent" /\ asked' = "recent"
            /\ signal' = [signal EXCEPT ![target] = IF @ = None THEN s ELSE @]
            /\ UNCHANGED <<ended, by, action>>
       ELSE IF Escalates(first)
       THEN /\ action' = [action EXCEPT ![s] = "default"]
            /\ ended' = "escalated" /\ by' = s
            /\ UNCHANGED <<first, asked, signal>>
       ELSE UNCHANGED <<first, asked, signal, ended, by, action>>
    /\ UNCHANGED <<target, thread, registered, mpc, late>>

\* STOP_TIMEOUT passes since the first signal.
TimePasses ==
    /\ ended = "no" /\ (Prompt => pending = {})
    /\ first = "recent" \/ asked = "recent"
    /\ first' = IF first = "recent" THEN "old" ELSE first
    /\ asked' = IF asked = "recent" THEN "old" ELSE asked
    /\ UNCHANGED <<action, target, thread, registered, pending, signal, mpc,
                   ended, by, late>>

Ended == ended # "no" /\ UNCHANGED vars

Next ==
    \/ Binary \/ TimePasses \/ Ended
    \/ \E s \in Signals : Send(s) \/ Receive(s)

Spec == Init /\ [][Next]_vars

\* The thread receives what is pending.
FairSpec == Spec /\ \A s \in Signals : WF_vars(Receive(s))

\* Time passes, and someone goes on sending each signal until the process ends.
SendsAnew(s) == Send(s) /\ pending' # pending
SendingSpec ==
    FairSpec /\ WF_vars(TimePasses) /\ \A s \in Signals : WF_vars(SendsAnew(s))

-----------------------------------------------------------------------------
(* Properties. *)

\* A second signal ends the process only when it was sent once STOP_TIMEOUT
\* had passed since the first one asked the present target.  A copy sent
\* sooner, or the first signal of a new run, does not.
EscalatesOnlyLate == ended = "escalated" => by \in late

\* A handler is installed only with the thread that acts on its signal, also
\* when the thread cannot be started, so no signal is swallowed.
HandlersHaveThread == \A s \in Signals : action[s] = "hook" => thread

\* A binary that finishes its run ends by the signal that asked for the stop.
FinishesBySignal == ended = "exited" => asked = None

\* A stop that does not complete can still be ended: while a registered
\* signal goes on being sent, the process ends, though the run is stuck.
Listens == thread /\ registered # {}
ProcessOver == ended # "no"
=============================================================================
