------------------------------- MODULE RawTerm -------------------------------
(***************************************************************************)
(* The raw mode of the operator's terminal for the length of a run, and    *)
(* the signal handlers that restore it when a signal ends the process      *)
(* (terminal/raw.rs).  One thread boots, runs and returns; handlers run on *)
(* any thread, at any point of that.                                       *)
(*                                                                         *)
(* A "fatal" signal had its default action; a "fault" goes first to the    *)
(* handler the process had for it, which may recover from it.              *)
(***************************************************************************)
EXTENDS Naturals, FiniteSets

CONSTANTS Threads,       \* threads a signal can be delivered to
          DuringEnable,  \* whether signals arrive while raw mode is being set
          Concurrent,    \* whether a signal arrives while another is handled
          MaxSignals     \* bound on the signals

Signals == {"fatal", "fault"}
\* What the process had for a fault: nothing; std's handler, which sets the
\* default action; one that recovers; one that recovers, installed to run once.
Previous == {"none", "std", "recovers", "once"}

VARIABLES tty,      \* the terminal's settings: "orig", "raw" or "later"
          saved,    \* SAVED: "null" or the settings
          main,     \* where boot is
          previous, used,  \* PREVIOUS_SEGV, and PREVIOUS_SEGV_USED
          action,   \* [Signals -> "ours" or "default"]
          handler,  \* [Threads -> [pc, signal, spent, saved, late]]
          sent, ran, alive

vars == <<tty, saved, main, previous, used, action, handler, sent, ran, alive>>

Idle == [pc |-> "idle", signal |-> "fatal", spent |-> FALSE, saved |-> "null", late |-> FALSE]
Init ==
    /\ tty = "orig" /\ saved = "null" /\ main = "start" /\ alive = TRUE
    /\ previous \in Previous /\ used = FALSE /\ action = [s \in Signals |-> "ours"]
    /\ handler = [t \in Threads |-> Idle] /\ sent = 0 /\ ran = 0

-----------------------------------------------------------------------------
(* boot's thread. *)

Main(from, to) == alive /\ main = from /\ main' = to
Handlers == <<previous, used, action, handler, sent, ran, alive>>

\* Mutants of DropOrder: withdrawn before the restore; never withdrawn.
DropOrderWithdrawFirst == <<"withdraw", "restore">>
\* enable: the settings are published before raw mode is set.
EnableOrder == <<"publish", "set">>
\* drop: the settings stay published through the restore.
DropOrder == <<"restore", "withdraw">>
Apply(step) ==
    /\ tty' = CASE step = "set" -> "raw" [] step = "restore" -> "orig" [] OTHER -> tty
    /\ saved' = CASE step = "publish" -> "orig" [] step = "withdraw" -> "null" [] OTHER -> saved
    /\ UNCHANGED Handlers

Enable1 == Main("start", "enabling") /\ Apply(EnableOrder[1])
Enable2 == Main("enabling", "running") /\ Apply(EnableOrder[2])
\* tcsetattr fails: the settings are withdrawn, and there is nothing to restore.
EnableFails == /\ Main("enabling", "unraw") /\ tty # "raw" /\ saved' = "null"
               /\ UNCHANGED <<tty, Handlers>>
Drop1 == Main("running", "dropping") /\ Apply(DropOrder[1])
Drop2 == Main("dropping", "returned") /\ Apply(DropOrder[2])
\* The caller changes the settings once boot has returned.
CallerChanges == /\ Main("returned", "changed") /\ tty' = "later" /\ UNCHANGED <<saved, Handlers>>

-----------------------------------------------------------------------------
(* on_fatal_signal, on thread t. *)

Settings == <<tty, saved, main, previous>>
To(t, pc) == handler' = [handler EXCEPT ![t].pc = pc]

Deliver(t, s) ==
    /\ alive /\ handler[t].pc = "idle" /\ sent < MaxSignals /\ sent' = sent + 1
    /\ DuringEnable \/ main \notin {"start", "enabling"}
    /\ Concurrent \/ \A u \in Threads : handler[u].pc = "idle"
    /\ IF action[s] = "default" THEN alive' = FALSE /\ handler' = handler
       ELSE /\ alive' = alive
            /\ handler' = [handler EXCEPT ![t] = [Idle EXCEPT !.pc = "enter", !.signal = s,
                                                             !.late = main \in {"returned", "changed"}]]
    /\ UNCHANGED <<Settings, used, action, ran>>

\* Mutant of CallsPrevious: the terminal is restored on every fault.
CallsPreviousNever(t) == FALSE
CallsPrevious(t) == handler[t].signal = "fault" /\ previous # "none" /\ ~used
\* Whether an action that runs once has run.
UsedAfter == used \/ previous = "once"

\* The flag is read, and then the previous handler chosen or passed over.
Enter(t) ==
    /\ alive /\ handler[t].pc = "enter"
    /\ To(t, IF CallsPrevious(t) THEN "mark" ELSE "load")
    /\ UNCHANGED <<Settings, used, action, sent, ran, alive>>
\* The flag is stored, behind the read, and before the call.
MarkUsed(t) ==
    /\ alive /\ handler[t].pc = "mark" /\ used' = UsedAfter /\ To(t, "previous")
    /\ UNCHANGED <<Settings, action, sent, ran, alive>>
\* The previous handler; std's sets the default action.
CallPrevious(t) ==
    /\ alive /\ handler[t].pc = "previous" /\ ran' = ran + 1
    /\ action' = IF previous = "std" THEN [action EXCEPT !["fault"] = "default"] ELSE action
    /\ To(t, "check") /\ UNCHANGED <<Settings, used, sent, alive>>

Recovered == action["fault"] # "default"
CheckRecovered(t) ==
    /\ alive /\ handler[t].pc = "check" /\ To(t, IF Recovered THEN "idle" ELSE "load")
    /\ UNCHANGED <<Settings, used, action, sent, ran, alive>>

\* restore_saved, then the default action; its signal ends the process.
Load(t) == /\ alive /\ handler[t].pc = "load"
           /\ handler' = [handler EXCEPT ![t].pc = "restore", ![t].saved = saved]
           /\ UNCHANGED <<Settings, used, action, sent, ran, alive>>
Restore(t) ==
    /\ alive /\ handler[t].pc = "restore" /\ To(t, "default")
    /\ tty' = IF handler[t].saved = "null" THEN tty ELSE handler[t].saved
    /\ UNCHANGED <<saved, main, previous, used, action, sent, ran, alive>>
\* The action the signal is raised under again.
DefaultSet == "default"
SetDefault(t) == /\ alive /\ handler[t].pc = "default" /\ To(t, "raise")
                 /\ action' = [action EXCEPT ![handler[t].signal] = DefaultSet]
                 /\ UNCHANGED <<Settings, used, sent, ran, alive>>
\* The raised signal, or the faulting instruction again.
Raise(t) == /\ alive /\ handler[t].pc = "raise"
            /\ alive' = (action[handler[t].signal] # "default") /\ To(t, "enter")
            /\ UNCHANGED <<Settings, used, action, sent, ran>>

Handle(t) == \/ Enter(t) \/ MarkUsed(t) \/ CallPrevious(t) \/ CheckRecovered(t)
             \/ Load(t) \/ Restore(t) \/ SetDefault(t) \/ Raise(t)
Boot == Enable1 \/ Enable2 \/ EnableFails \/ Drop1 \/ Drop2 \/ CallerChanges
Next == Boot \/ \E t \in Threads : Handle(t) \/ \E s \in Signals : Deliver(t, s)

Spec == Init /\ [][Next]_vars
FairSpec == Spec /\ WF_vars(Boot) /\ \A t \in Threads : WF_vars(Handle(t))

-----------------------------------------------------------------------------
(* Properties. *)

\* "Makes each of fatal_signals restore the terminal before it ends the process":
\* a process a handled signal ended left no terminal in raw mode.
RestoredAtEnd == ~alive => tty # "raw"

\* A fault the previous handler recovers from leaves the run and its raw mode.
RecoveredKeepsRaw ==
    main = "running" /\ previous = "recovers" /\ action["fatal"] = "ours"
        /\ (\A t \in Threads : handler[t].signal = "fault" \/ handler[t].pc = "idle")
      => tty = "raw"

\* "A handler installed with SA_RESETHAND runs once, as the system would run it".
OnceRunsOnce == previous = "once" => ran <= 1

=============================================================================
