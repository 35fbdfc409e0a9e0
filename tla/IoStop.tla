------------------------------- MODULE IoStop -------------------------------
(***************************************************************************)
(* The stop of the I/O threads (io_threads.rs, teardown.rs): the console   *)
(* reader, which can be blocked in a read the stop token does not reach    *)
(* (terminal/input.rs), threads that poll the token, and threads that park *)
(* on a condition variable only a stop action wakes.                       *)
(*                                                                         *)
(* The stop requests, runs its actions, signals the console until it has   *)
(* finished, waits for the count and joins what has finished.  A signal    *)
(* sent while the console is not inside its read is lost.                  *)
(***************************************************************************)
EXTENDS Naturals, FiniteSets, FiniteSetTheorems, TLAPS

CONSTANTS Pollers,   \* threads that poll the stop token
          Parked,    \* threads a stop action wakes
          Stuck,     \* threads among them whose body never returns
          MaxStdin   \* bound on what happens on stdin

Console == "console"
Threads == {Console} \cup Pollers \cup Parked

ASSUME ThreadsAssumption == IsFiniteSet(Pollers) /\ IsFiniteSet(Parked)

VARIABLES requested,  \* the stop the tokens report
          actions,    \* stop actions not yet run
          body,       \* [Threads -> where the thread is]
          finished,   \* [Threads -> BOOLEAN], the flag of its FinishGuard
          count,      \* the FinishCount
          failed,     \* Outcome::Failed was reported, and the run asked to stop
          stdin,      \* [ready, events]: readable, and how much has happened
          runner,     \* the thread in IoThreads::stop: [pc, seen]
          late,       \* the deadline has passed
          joined      \* what try_join joined

vars == <<requested, actions, body, finished, count, failed, stdin, runner, late, joined>>

Init ==
    /\ requested = FALSE /\ actions = Parked /\ late = FALSE /\ joined = {} /\ failed = FALSE
    /\ body = [t \in Threads |-> IF t \in Parked THEN "parked" ELSE "poll"]
    /\ finished = [t \in Threads |-> FALSE] /\ count = 0
    /\ stdin = [ready |-> FALSE, events |-> 0] /\ runner = [pc |-> "run", seen |-> 0]

Move(t, to) == body' = [body EXCEPT ![t] = to]
Shared == <<requested, actions, finished, count, failed, runner, late, joined>>

-----------------------------------------------------------------------------
(* The console reader. *)

\* A byte arrives, or another reader of the terminal takes it.
Stdin == /\ stdin.events < MaxStdin
         /\ stdin' = [ready |-> ~stdin.ready, events |-> stdin.events + 1]
         /\ UNCHANGED <<body, Shared>>

\* StopToken::wait: the stop is reported before the descriptor.
ConsoleWait ==
    /\ body[Console] = "poll" /\ (requested \/ stdin.ready)
    /\ Move(Console, IF requested THEN "end" ELSE "read")
    /\ UNCHANGED <<stdin, Shared>>
\* A stdin that reports an error ends the reader.
ConsoleFails == /\ body[Console] \in {"poll", "read"} /\ Move(Console, "end")
                /\ UNCHANGED <<stdin, Shared>>
\* The read blocks when the byte is gone; from then on a signal ends it.
ReadBlocks == /\ body[Console] = "read" /\ ~stdin.ready /\ Move(Console, "reading")
              /\ UNCHANGED <<stdin, Shared>>
\* The byte goes to the guest's UART, or the request key to the plugin, whose
\* on_request may block for good.
ReadByte == /\ body[Console] \in {"read", "reading"} /\ stdin.ready
            /\ Move(Console, IF Console \in Stuck THEN "plugin" ELSE "poll")
            /\ stdin' = [stdin EXCEPT !.ready = FALSE] /\ UNCHANGED Shared

\* The kick signal: EINTR ends the read, and the loop sees the stop at its top.
Kicked(pc) == IF pc = "reading" THEN "poll" ELSE pc

-----------------------------------------------------------------------------
(* Every thread's end: its body returns or panics, then its guards drop. *)

BodyReturns(t) ==
    /\ t \notin Stuck /\ body[t] = "poll" /\ t # Console /\ requested /\ Move(t, "end")
    /\ UNCHANGED <<stdin, Shared>>
BodyPanics(t) == /\ body[t] \in {"poll", "read"} /\ Move(t, "panic") /\ UNCHANGED <<stdin, Shared>>
\* What StopOnPanic leaves of a panic.
Reported == TRUE
StopOnPanic(t) == /\ body[t] = "panic" /\ failed' = Reported /\ Move(t, "end")
                  /\ UNCHANGED <<requested, actions, finished, count, stdin, runner, late, joined>>

\* Mutant of DropOrder: the guard notes before it sets its flag.
DropOrderNoteFirst == <<"note", "flag">>
\* FinishGuard's drop: the flag, then the note.
DropOrder == <<"flag", "note">>
GuardStep(t, i) ==
    /\ finished' = [finished EXCEPT ![t] = @ \/ DropOrder[i] = "flag"]
    /\ count' = IF DropOrder[i] = "note" THEN count + 1 ELSE count
GuardFlags(t) == /\ body[t] = "end" /\ GuardStep(t, 1) /\ Move(t, "flagged")
                 /\ UNCHANGED <<requested, actions, failed, stdin, runner, late, joined>>
GuardNotes(t) == /\ body[t] = "flagged" /\ GuardStep(t, 2) /\ Move(t, "done")
                 /\ UNCHANGED <<requested, actions, failed, stdin, runner, late, joined>>

-----------------------------------------------------------------------------
(* IoThreads::stop. *)

Rest == <<requested, actions, finished, count, failed, stdin, late, joined>>

\* StopPlan::run, also from its drop when the stopping thread unwinds: request,
\* then the actions not yet run.
Request(next) ==
    /\ runner.pc = "run" /\ requested' = TRUE /\ runner' = [runner EXCEPT !.pc = next]
    /\ UNCHANGED <<actions, body, finished, count, failed, stdin, late, joined>>
\* Mutant of RunsActions: an unwind drops the plan without running it.
RunsActionsStopOnly == runner.pc = "actions"
RunsActions == runner.pc \in {"actions", "unwind"}
RunAction(t) ==
    /\ requested /\ t \in actions /\ RunsActions
    /\ actions' = actions \ {t} /\ Move(t, IF body[t] = "parked" THEN "poll" ELSE body[t])
    /\ UNCHANGED <<requested, finished, count, failed, stdin, runner, late, joined>>
ActionsRun ==
    /\ runner.pc = "actions" /\ actions = {} /\ runner' = [runner EXCEPT !.pc = "count"]
    /\ UNCHANGED <<body, Rest>>

\* kick_until_finished: the count, the flag and the deadline, a kick, a wait of a
\* millisecond that a note ends.
ReadCount == /\ runner.pc = "count" /\ runner' = [pc |-> "check", seen |-> count]
             /\ UNCHANGED <<body, Rest>>
\* The kicks stop at the deadline.
GivesUp == late
Check == /\ runner.pc = "check"
         /\ runner' = [runner EXCEPT !.pc = IF finished[Console] \/ GivesUp THEN "wait" ELSE "kick"]
         /\ UNCHANGED <<body, Rest>>
Kick == /\ runner.pc = "kick" /\ runner' = [runner EXCEPT !.pc = "step"]
        /\ Move(Console, Kicked(body[Console])) /\ UNCHANGED Rest
\* The wait ends with a note or with its millisecond.
StepEnds == TRUE
Step == /\ runner.pc = "step" /\ StepEnds /\ runner' = [runner EXCEPT !.pc = "count"]
        /\ UNCHANGED <<body, Rest>>

AllCount == Cardinality(Threads)
Wait == /\ runner.pc = "wait" /\ (count >= AllCount \/ late)
        /\ runner' = [runner EXCEPT !.pc = "join"] /\ UNCHANGED <<body, Rest>>
Join == /\ runner.pc = "join" /\ joined' = {t \in Threads : finished[t]}
        /\ runner' = [runner EXCEPT !.pc = "returned"]
        /\ UNCHANGED <<requested, actions, body, finished, count, failed, stdin, late>>

\* STOP_TIMEOUT after the actions have run.
Deadline == /\ runner.pc \in {"count", "check", "kick", "step", "wait", "join"} /\ ~late /\ late' = TRUE
            /\ UNCHANGED <<requested, actions, body, finished, count, failed, stdin, runner, joined>>

ConsoleStep == ConsoleWait \/ ReadBlocks \/ ReadByte
ThreadStep(t) == BodyReturns(t) \/ StopOnPanic(t) \/ GuardFlags(t) \/ GuardNotes(t)
RunnerStep == \/ Request("actions") \/ (\E t \in Parked : RunAction(t)) \/ ActionsRun
              \/ ReadCount \/ Check \/ Kick \/ Step \/ Wait \/ Join
Next == \/ Stdin \/ ConsoleStep \/ ConsoleFails \/ RunnerStep \/ Request("unwind") \/ Deadline
        \/ \E t \in Threads : ThreadStep(t) \/ BodyPanics(t)

Spec == Init /\ [][Next]_vars
\* Every thread runs; nothing is assumed of stdin, of panics or of the deadline.
FairSpec == Spec /\ WF_vars(ConsoleStep) /\ (\A t \in Threads : WF_vars(ThreadStep(t)))
                 /\ WF_vars(RunnerStep)
                 /\ (\A t \in Parked : WF_vars(RunAction(t)))
\* The deadline does come.
TimedSpec == FairSpec /\ WF_vars(Deadline)

-----------------------------------------------------------------------------
(* Properties. *)

\* A thread is reported as left running only when the deadline passed while it
\* ran: one that finished in time is joined, although flag and count are two
\* steps of its guard.
ReportedOnlyLate == runner.pc = "returned" /\ joined # Threads => late

-----------------------------------------------------------------------------
(* The inductive invariant of the proofs. *)

TypeOK == /\ body \in [Threads -> {"parked", "poll", "read", "reading", "plugin", "end", "panic",
                                   "flagged", "done"}]
          /\ finished \in [Threads -> BOOLEAN] /\ count \in Nat /\ late \in BOOLEAN
          /\ runner \in [pc : {"run", "actions", "unwind", "count", "check", "kick", "step", "wait",
                              "join", "returned"}, seen : Nat]

\* The count is of guards that have dropped, and their flags were set before.
Done == {t \in Threads : body[t] = "done"}
Counted == /\ count = Cardinality(Done)
           /\ \A t \in Threads : body[t] \in {"flagged", "done"} => finished[t]

\* Past the wait, in time, every thread has finished.
WaitedForAll == /\ runner.pc \in {"join", "returned"} /\ ~late => \A t \in Threads : finished[t]
                /\ ReportedOnlyLate
Inv == TypeOK /\ Counted /\ WaitedForAll

(***************************************************************************)
(* For any finite sets of I/O threads: the stop leaves a thread running    *)
(* only when its deadline has passed.                                      *)
(***************************************************************************)

\* Zenon proves what follows by logic alone; the leaves that need arithmetic or
\* functions name SMT.
USE Zenon

LEMMA FiniteThreads == IsFiniteSet(Threads) /\ Cardinality(Threads) \in Nat
<1>1. IsFiniteSet(Pollers \cup {Console})
    BY ThreadsAssumption, FS_AddElement
<1>2. IsFiniteSet((Pollers \cup {Console}) \cup Parked)
    BY <1>1, ThreadsAssumption, FS_Union
<1>3. Threads = (Pollers \cup {Console}) \cup Parked
    BY DEF Threads
<1> QED BY <1>2, <1>3, FS_CardinalityType

LEMMA InitInv == Init => Inv
<1> SUFFICES ASSUME Init PROVE Inv
    OBVIOUS
<1>1. TypeOK
    <2>1. body \in [Threads -> {"parked", "poll"}]
        BY DEF Init
    <2>2. finished \in [Threads -> BOOLEAN]
        BY DEF Init
    <2> QED BY <2>1, <2>2 DEF Init, TypeOK
<1>2. Done = {}
    BY DEF Init, Done
<1>3. Counted
    BY <1>2, FS_EmptySet DEF Init, Counted
<1>4. WaitedForAll
    BY DEF Init, WaitedForAll, ReportedOnlyLate
<1> QED BY <1>1, <1>3, <1>4 DEF Inv

-----------------------------------------------------------------------------
\* A step of a thread's body, or of an action or a signal that moves it: it is
\* not one of its guard.
Moves(t, to) ==
    /\ body' = [body EXCEPT ![t] = to]
    /\ body[t] \notin {"flagged", "done"} => to \in {"parked", "poll", "read", "reading", "plugin", "end", "panic"}
    /\ body[t] \in {"flagged", "done"} => to = body[t]
    /\ UNCHANGED <<finished, count, late, joined>>
    /\ runner' \in [pc : {"run", "actions", "unwind", "count", "check", "kick", "step", "wait",
                          "join", "returned"}, seen : Nat]
    /\ runner'.pc \in {"join", "returned"} => runner'.pc = runner.pc

LEMMA MovesInv == ASSUME Inv, NEW t \in Threads, NEW to, Moves(t, to) PROVE Inv'
<1> USE DEF Inv, Moves
<1>1. TypeOK'
    BY DEF TypeOK
<1>2. \A u \in Threads : /\ body'[u] = "done" <=> body[u] = "done"
                         /\ body'[u] = "flagged" <=> body[u] = "flagged"
    BY DEF TypeOK
<1>3. Done' = Done
    BY <1>2 DEF Done
<1>4. Counted'
    BY <1>2, <1>3 DEF Counted
<1>5. WaitedForAll'
    BY DEF WaitedForAll, ReportedOnlyLate
<1> QED BY <1>1, <1>4, <1>5

LEMMA GuardFlagsInv == ASSUME Inv, NEW t \in Threads, GuardFlags(t) PROVE Inv'
<1> USE DEF Inv, GuardFlags, GuardStep, Move
<1>1. DropOrder[1] = "flag"
    BY DEF DropOrder
<1>2. finished' = [finished EXCEPT ![t] = TRUE] /\ count' = count
    BY <1>1 DEF TypeOK
<1>3. TypeOK'
    BY <1>2 DEF TypeOK
<1>4. /\ \A u \in Threads \ {t} : body'[u] = body[u] /\ finished'[u] = finished[u]
      /\ finished'[t] = TRUE /\ body[t] = "end" /\ body'[t] = "flagged"
    BY <1>2 DEF TypeOK
<1>5. Done' = Done
    BY <1>4 DEF Done
<1>6. Counted'
    BY <1>2, <1>4, <1>5 DEF Counted
<1>7. WaitedForAll'
    BY <1>4 DEF WaitedForAll, ReportedOnlyLate
<1> QED BY <1>3, <1>6, <1>7

LEMMA GuardNotesInv == ASSUME Inv, NEW t \in Threads, GuardNotes(t) PROVE Inv'
<1> USE DEF Inv, GuardNotes, GuardStep, Move
<1>1. DropOrder[2] = "note"
    BY DEF DropOrder
<1>2. finished' = [finished EXCEPT ![t] = finished[t]] /\ count' = count + 1
    BY <1>1 DEF TypeOK
<1>3. finished' = finished
    BY <1>2 DEF TypeOK
<1>4. TypeOK'
    BY <1>2, <1>3, SMTT(30) DEF TypeOK
<1>5. /\ \A u \in Threads \ {t} : body'[u] = body[u]
      /\ body[t] = "flagged" /\ body'[t] = "done"
    BY DEF TypeOK
<1>6. Done' = Done \cup {t} /\ t \notin Done
    BY <1>5 DEF Done
<1>7. IsFiniteSet(Done)
    BY FiniteThreads, FS_Subset DEF Done
<1>8. Cardinality(Done') = Cardinality(Done) + 1
    BY <1>6, <1>7, FS_AddElement
<1>9. Counted'
    BY <1>2, <1>3, <1>5, <1>8 DEF Counted
<1>10. WaitedForAll'
    BY <1>3 DEF WaitedForAll, ReportedOnlyLate
<1> QED BY <1>4, <1>9, <1>10

-----------------------------------------------------------------------------
\* The wait ends with the count, and then every guard has dropped, or late.
LEMMA WaitInv == ASSUME Inv, Wait PROVE Inv'
<1> USE DEF Inv, Wait, Rest
<1>1. TypeOK'
    BY DEF TypeOK
<1>2. Done' = Done
    BY DEF Done
<1>3. Counted'
    BY <1>2 DEF Counted
<1>4. ASSUME ~late PROVE \A t \in Threads : finished[t]
    <2>1. count >= Cardinality(Threads)
        BY <1>4 DEF AllCount
    <2>2. Done \in SUBSET Threads
        BY DEF Done
    <2>3. Cardinality(Done) <= Cardinality(Threads) /\ Cardinality(Done) \in Nat
        BY <2>2, FiniteThreads, FS_Subset, FS_CardinalityType
    <2>4. Cardinality(Done) = Cardinality(Threads)
        BY <2>1, <2>3, FiniteThreads, SMTT(30) DEF Counted
    <2>5. Done = Threads
        BY <2>2, <2>4, FiniteThreads, FS_Subset
    <2> QED BY <2>5 DEF Counted, Done
<1>5. WaitedForAll'
    BY <1>4 DEF WaitedForAll, ReportedOnlyLate, TypeOK
<1> QED BY <1>1, <1>3, <1>5

LEMMA JoinInv == ASSUME Inv, Join PROVE Inv'
<1> USE DEF Inv, Join
<1>1. TypeOK'
    BY DEF TypeOK
<1>2. Counted'
    BY DEF Counted, Done
<1>3. ~late => joined' = Threads
    BY DEF WaitedForAll
<1>4. WaitedForAll'
    BY <1>3 DEF WaitedForAll, ReportedOnlyLate, TypeOK
<1> QED BY <1>1, <1>2, <1>4

\* The runner's other steps, the deadline and stdin move no thread.
LEMMA OtherInv ==
    ASSUME Inv, UNCHANGED <<body, finished, count, joined>>, late' \in BOOLEAN, late => late',
           runner' \in [pc : {"run", "actions", "unwind", "count", "check", "kick", "step", "wait",
                              "join", "returned"}, seen : Nat],
           runner'.pc \in {"join", "returned"} => runner'.pc = runner.pc
    PROVE  Inv'
<1> USE DEF Inv
<1>1. TypeOK'
    BY DEF TypeOK
<1>2. Counted'
    BY DEF Counted, Done
<1>3. WaitedForAll'
    BY DEF WaitedForAll, ReportedOnlyLate
<1> QED BY <1>1, <1>2, <1>3

LEMMA InvInductive == Inv /\ [Next]_vars => Inv'
<1> SUFFICES ASSUME Inv, [Next]_vars PROVE Inv'
    OBVIOUS
<1>1. TypeOK
    BY DEF Inv
<1>2. ASSUME ConsoleWait \/ ReadBlocks \/ ReadByte \/ ConsoleFails PROVE Inv'
    <2>1. Console \in Threads
        BY DEF Threads
    <2>2. \E to : Moves(Console, to)
        BY <1>1, <1>2, <2>1 DEF Moves, Move, Shared, ConsoleWait, ReadBlocks, ReadByte,
           ConsoleFails, TypeOK
    <2> QED BY <2>1, <2>2, MovesInv
<1>3. ASSUME NEW t \in Threads, BodyReturns(t) \/ BodyPanics(t) \/ StopOnPanic(t) PROVE Inv'
    <2>1. \E to : Moves(t, to)
        BY <1>1, <1>3 DEF Moves, Move, Shared, BodyReturns, BodyPanics, StopOnPanic, TypeOK
    <2> QED BY <2>1, MovesInv
<1>4. ASSUME NEW t \in Parked, RunAction(t) PROVE Inv'
    <2>1. t \in Threads
        BY DEF Threads
    <2>2. Moves(t, IF body[t] = "parked" THEN "poll" ELSE body[t])
        BY <1>1, <1>4, <2>1 DEF Moves, Move, RunAction, TypeOK
    <2> QED BY <2>1, <2>2, MovesInv
<1>5. ASSUME Kick PROVE Inv'
    <2>1. Console \in Threads
        BY DEF Threads
    <2>2. Moves(Console, Kicked(body[Console]))
        BY <1>1, <1>5, <2>1 DEF Moves, Move, Kick, Kicked, Rest, TypeOK
    <2> QED BY <2>1, <2>2, MovesInv
<1>6. ASSUME Request("actions") \/ Request("unwind") \/ ActionsRun \/ ReadCount \/ Check \/ Step
             \/ Deadline \/ Stdin \/ UNCHANGED vars
      PROVE  Inv'
    <2>1. UNCHANGED <<body, finished, count, joined>> /\ late' \in BOOLEAN /\ (late => late')
        BY <1>1, <1>6 DEF Request, ActionsRun, ReadCount, Check, Step, Deadline, Stdin, vars,
           Rest, Shared, TypeOK
    <2>2. /\ runner' \in [pc : {"run", "actions", "unwind", "count", "check", "kick", "step", "wait",
                                "join", "returned"}, seen : Nat]
          /\ runner'.pc \in {"join", "returned"} => runner'.pc = runner.pc
        BY <1>1, <1>6, SMTT(30) DEF Request, ActionsRun, ReadCount, Check, Step, Deadline, Stdin,
           vars, Rest, Shared, TypeOK
    <2> QED BY <2>1, <2>2, OtherInv
<1> QED BY <1>2, <1>3, <1>4, <1>5, <1>6, GuardFlagsInv, GuardNotesInv, WaitInv, JoinInv DEF Next,
           ConsoleStep, RunnerStep, ThreadStep

\* IoThreads::stop: a thread that finished in time is joined, for any number of
\* threads and wherever each was when the stop came.
THEOREM StopJoinsWhatFinished == Spec => []ReportedOnlyLate
<1>1. Spec => []Inv
    BY InitInv, InvInductive, PTL DEF Spec
<1>2. Inv => ReportedOnlyLate
    BY DEF Inv, WaitedForAll
<1> QED BY <1>1, <1>2, PTL

=============================================================================
