--------------------------- MODULE BuiltinPlugins ---------------------------
(***************************************************************************)
(* The plugins that ship with the VMM, run as one Chain: a MemoryDump,     *)
(* which parks the vCPUs and writes guest RAM to a file slice by slice,    *)
(* and then an IoTrace, whose sinks buffer a line per device event and     *)
(* whose hook at the boot vCPU's safe point flushes them.  (builtin.rs,    *)
(* guest.rs, input.rs)                                                     *)
(*                                                                         *)
(* The hook runs on the boot vCPU between guest entries, so it waits for a *)
(* kick when the guest idles.  Four kinds of thread meet here: the boot    *)
(* vCPU, the other vCPUs, the threads that ask for a dump (the timer and   *)
(* the console), and the threads a device's sink is called on.  The steps  *)
(* of the quiesce itself are in module Vcpus; here a vCPU parks at its     *)
(* checkpoint in one step.                                                 *)
(***************************************************************************)
EXTENDS Naturals, Sequences, TLAPS

CONSTANTS Others,       \* the vCPUs other than the boot vCPU
          Slices,       \* the slices of guest RAM, 1..Slices, in file order
          Sinks,        \* the threads that call the trace's sink
          IoWrites,     \* whether an I/O thread writes guest RAM
          MaxWrites,    \* bound on writes to guest RAM
          MaxLines,     \* bound on lines traced
          MaxRequests   \* bound on dumps asked for at the console

ASSUME SlicesAssumption == Slices \in Nat \ {0}

VARIABLES boot,       \* where the boot vCPU's thread is
          vcpu,       \* where each other vCPU is
          running,    \* Vcpus.running
          requested,  \* Quiesce.requested
          kicked,     \* the boot vCPU's immediate_exit byte
          pending,    \* MemoryDump.pending
          timer,      \* the steps left to the dump timer
          console,    \* the steps left to the console thread's request
          requests,   \* dumps asked for at the console so far
          ram,        \* the contents of each slice, as a count of its writes
          moment,     \* RAM as it was when the pause was won
          image,      \* the slices written to the dump file so far
          lines,      \* trace lines written to the buffer
          flushed,    \* trace lines that have reached the file
          dirty,      \* IoTrace.dirty
          sink        \* the steps left to each thread in the sink

guest == <<boot, vcpu, running, requested, kicked>>
askers == <<pending, timer, console, requests>>
dump == <<ram, moment, image>>
trace == <<lines, flushed, dirty, sink>>
vars == <<guest, askers, dump, trace>>

Slice == 1..Slices
-----------------------------------------------------------------------------
(* The order of the steps of each thread, which is what the code's comments are about. *)

\* A trigger sets the flag and then kicks the boot vCPU.
RequestSteps == <<"flag", "kick">>

\* Mutant of SinkSteps: the trace is marked dirty before its line is written.
FlagThenLine == <<"flag", "line">>

\* The sink writes its line to the buffer and then marks the trace dirty.
SinkSteps == <<"line", "flag">>

Init == /\ boot = "attach"
        /\ vcpu = [v \in Others |-> "out"]
        /\ running = TRUE /\ requested = FALSE /\ kicked = FALSE
        /\ pending = FALSE /\ timer = <<>> /\ console = <<>> /\ requests = 0
        /\ ram = [s \in Slice |-> 0] /\ moment = ram /\ image = <<>>
        /\ lines = 0 /\ flushed = 0 /\ dirty = FALSE
        /\ sink = [t \in Sinks |-> <<>>]

-----------------------------------------------------------------------------
(* The boot. *)

\* Chain::on_attach: the dump maps its view of RAM and queues the timer, the trace connects its
\* sinks.  The queued thread starts once the attach is over.
Attach(withTimer) ==
    /\ boot = "attach"
    /\ boot' = "start"
    /\ timer' = IF withTimer THEN <<"sleep">> \o RequestSteps ELSE <<>>
    /\ UNCHANGED <<vcpu, running, requested, kicked, pending, console, requests, dump, trace>>

\* A plugin that refuses the guest fails the boot, and the threads it queued never start.
AttachFails ==
    /\ boot = "attach"
    /\ boot' = "ended" /\ running' = FALSE
    /\ vcpu' = [v \in Others |-> "ended"]
    /\ UNCHANGED <<requested, kicked, askers, dump, trace>>

\* The threads of the run exist from here until the boot vCPU has left its loop.
Up == boot \notin {"attach", "ended"}

-----------------------------------------------------------------------------
(* The boot vCPU. *)

BootGoes(from, to) == boot = from /\ boot' = to

\* The boot vCPU enters itself in the kicker's table.
Register == /\ BootGoes("start", "clear")
            /\ UNCHANGED <<vcpu, running, requested, kicked, askers, dump, trace>>

ClearExit == /\ BootGoes("clear", "check")
             /\ kicked' = FALSE
             /\ UNCHANGED <<vcpu, running, requested, askers, dump, trace>>

\* The loop ends when the VM has stopped, and otherwise passes the safe point.
CheckRunning == /\ BootGoes("check", IF running THEN "dump" ELSE "ended")
                /\ UNCHANGED <<vcpu, running, requested, kicked, askers, dump, trace>>

\* MemoryDump::on_safepoint takes a pending request.
TakeRequest == /\ BootGoes("dump", IF pending THEN "pause" ELSE "trace")
               /\ pending' = FALSE
               /\ UNCHANGED <<vcpu, running, requested, kicked, timer, console, requests, dump,
                              trace>>

\* Cpu::pause asks the other vCPUs to park.
PauseRequest == /\ BootGoes("pause", "wait")
                /\ requested' = TRUE
                /\ UNCHANGED <<vcpu, running, kicked, askers, dump, trace>>

\* Mutant of AllParked: the pause does not wait for the vCPUs that are in the guest.
AskedToPark == TRUE

AllParked == \A v \in Others : vcpu[v] \in {"parked", "ended"}

\* Every other vCPU is parked, and the image begins.
PauseWon == /\ BootGoes("wait", "write")
            /\ running /\ AllParked
            /\ moment' = ram /\ image' = <<>>
            /\ UNCHANGED <<vcpu, running, requested, kicked, askers, ram, trace>>

\* The vCPUs did not park in time, or the VM stopped: the pause is released and the request is
\* dropped.
PauseLost == /\ BootGoes("wait", "trace")
             /\ requested' = FALSE
             /\ UNCHANGED <<vcpu, running, kicked, askers, dump, trace>>

\* write_dump writes the next slice straight from its view of RAM.
WriteSlice == /\ boot = "write"
              /\ image' = Append(image, ram[Len(image) + 1])
              /\ boot' = IF Len(image) + 1 = Slices THEN "resume" ELSE "write"
              /\ UNCHANGED <<vcpu, running, requested, kicked, askers, ram, moment, trace>>

\* Mutant of AfterFailure: the error leaves the hook at once.
EarlyReturn == "trace"

\* A write that fails still owes the resume.
AfterFailure == "resume"

WriteFails == /\ BootGoes("write", AfterFailure)
              /\ image' = <<>>
              /\ UNCHANGED <<vcpu, running, requested, kicked, askers, ram, moment, trace>>

Resume == /\ BootGoes("resume", "trace")
          /\ requested' = FALSE
          /\ UNCHANGED <<vcpu, running, kicked, askers, dump, trace>>

\* IoTrace::on_safepoint takes the mark, and flushes the buffer only when it was set.
TraceHook == /\ BootGoes("trace", IF dirty THEN "flush" ELSE "enter")
             /\ dirty' = FALSE
             /\ UNCHANGED <<vcpu, running, requested, kicked, askers, dump, lines, flushed, sink>>

Flush == /\ BootGoes("flush", "enter")
         /\ flushed' = lines
         /\ UNCHANGED <<vcpu, running, requested, kicked, askers, dump, lines, dirty, sink>>

\* KVM_RUN: a kick that landed since the byte was cleared ends the run at once.
EnterGuest == /\ BootGoes("enter", IF kicked THEN "clear" ELSE "guest")
              /\ UNCHANGED <<vcpu, running, requested, kicked, askers, dump, trace>>

Kicked == /\ kicked
          /\ BootGoes("guest", "clear")
          /\ UNCHANGED <<vcpu, running, requested, kicked, askers, dump, trace>>

\* The guest leaves on its own, which an idle guest never does.
GuestExit == /\ BootGoes("guest", "clear")
             /\ UNCHANGED <<vcpu, running, requested, kicked, askers, dump, trace>>

-----------------------------------------------------------------------------
(* The other vCPUs. *)

VcpuGoes(v, from, to) == vcpu[v] = from /\ vcpu' = [vcpu EXCEPT ![v] = to]

\* Between guest entries a vCPU leaves its loop after a stop and parks while a pause is in effect.
PassCheckpoint(v) ==
    /\ boot # "attach"
    /\ VcpuGoes(v, "out", IF ~running THEN "ended" ELSE IF requested THEN "parked" ELSE "guest")
    /\ UNCHANGED <<boot, running, requested, kicked, askers, dump, trace>>

\* An exit of its own, the pause's kick or the stop's.
LeaveGuest(v) == /\ VcpuGoes(v, "guest", "out")
                 /\ UNCHANGED <<boot, running, requested, kicked, askers, dump, trace>>

Unpark(v) == /\ ~requested
             /\ VcpuGoes(v, "parked", "out")
             /\ UNCHANGED <<boot, running, requested, kicked, askers, dump, trace>>

\* The stop kicks every vCPU and releases a pause that is in effect.
Stop == /\ Up /\ running
        /\ running' = FALSE /\ requested' = FALSE /\ kicked' = TRUE
        /\ UNCHANGED <<boot, vcpu, askers, dump, trace>>

-----------------------------------------------------------------------------
(* The threads that ask for a dump. *)

\* One step of a trigger: the flag, or the kick, which reaches a vCPU that is in the table.
AskStep(step) == /\ pending' = (pending \/ step = "flag")
                 /\ kicked' = (kicked \/ (step = "kick" /\ boot \notin {"start", "ended"}))

\* The dump timer: a stop before it fires ends it.
TimerStep == /\ timer # <<>>
             /\ LET stopped == Head(timer) = "sleep" /\ ~running
                IN timer' = IF stopped THEN <<>> ELSE Tail(timer)
             /\ AskStep(Head(timer))
             /\ UNCHANGED <<boot, vcpu, running, requested, console, requests, dump, trace>>

\* The console thread reads the interrupt key, which is on_request and the backend's kick.
PressKey == /\ Up /\ running /\ console = <<>> /\ requests < MaxRequests
            /\ console' = RequestSteps /\ requests' = requests + 1
            /\ UNCHANGED <<guest, pending, timer, dump, trace>>

ConsoleStep == /\ console # <<>>
               /\ console' = Tail(console)
               /\ AskStep(Head(console))
               /\ UNCHANGED <<boot, vcpu, running, requested, timer, requests, dump, trace>>

-----------------------------------------------------------------------------
(* Guest RAM and the devices. *)

\* Code in the guest writes a slice, and so does an I/O thread for a device.
Write(s) == /\ \/ boot = "guest"
               \/ \E v \in Others : vcpu[v] = "guest"
               \/ IoWrites /\ Up
            /\ ram[s] < MaxWrites
            /\ ram' = [ram EXCEPT ![s] = @ + 1]
            /\ UNCHANGED <<guest, askers, moment, image, trace>>

\* A device calls the trace's sink on thread t.
CallSink(t) == /\ Up /\ sink[t] = <<>> /\ lines < MaxLines
               /\ sink' = [sink EXCEPT ![t] = SinkSteps]
               /\ UNCHANGED <<guest, askers, dump, lines, flushed, dirty>>

SinkStep(t) == /\ sink[t] # <<>>
               /\ sink' = [sink EXCEPT ![t] = Tail(@)]
               /\ lines' = IF Head(sink[t]) = "line" THEN lines + 1 ELSE lines
               /\ dirty' = (dirty \/ Head(sink[t]) = "flag")
               /\ UNCHANGED <<guest, askers, dump, flushed>>

\* The run is over and every thread has ended.
Finished == /\ boot = "ended" /\ timer = <<>> /\ console = <<>>
            /\ \A v \in Others : vcpu[v] = "ended"
            /\ UNCHANGED vars

BootStep == \/ Register \/ ClearExit \/ CheckRunning \/ TakeRequest \/ PauseRequest
            \/ PauseWon \/ PauseLost \/ WriteSlice \/ WriteFails \/ Resume
            \/ TraceHook \/ Flush \/ EnterGuest \/ Kicked

Next == \/ \E withTimer \in BOOLEAN : Attach(withTimer)
        \/ AttachFails \/ BootStep \/ GuestExit
        \/ \E v \in Others : PassCheckpoint(v) \/ LeaveGuest(v) \/ Unpark(v)
        \/ Stop \/ TimerStep \/ PressKey \/ ConsoleStep
        \/ \E s \in Slice : Write(s)
        \/ \E t \in Sinks : CallSink(t) \/ SinkStep(t)
        \/ Finished

Spec == Init /\ [][Next]_vars

-----------------------------------------------------------------------------
\* A dump that was written whole is RAM as it was at one moment of the pause: no vCPU writes a
\* slice between the first and the last of the file, whatever stops or kicks race with it.
\* (MemoryDump::on_safepoint, write_dump)
DumpIsOneMoment ==
    (boot = "resume" /\ Len(image) = Slices) => \A s \in Slice : image[s] = moment[s]

\* A pause that was won is paid for before the hook is left, on the error path too, so no vCPU is
\* left parked while the boot vCPU runs the guest.  (MemoryDump::on_safepoint)
PauseIsPaid == requested => boot \in {"wait", "write", "resume"}

\* A line in the buffer is never forgotten: it is in the file, or the trace is marked dirty, or its
\* sink is about to mark it, or the hook is about to flush.  (TraceSink::on_block,
\* IoTrace::on_safepoint)
LineIsOwedAFlush ==
    lines > flushed => \/ dirty \/ boot = "flush"
                       \/ \E t \in Sinks : sink[t] = <<"flag">>

-----------------------------------------------------------------------------
(* The inductive invariants of the proofs. *)

TypeOK == /\ boot \in {"attach", "start", "clear", "check", "dump", "pause", "wait", "write",
                       "resume", "trace", "flush", "enter", "guest", "ended"}
          /\ vcpu \in [Others -> {"out", "guest", "parked", "ended"}]
          /\ running \in BOOLEAN /\ requested \in BOOLEAN
          /\ ram \in [Slice -> Nat] /\ moment \in [Slice -> Nat]
          /\ lines \in Nat /\ flushed \in Nat /\ dirty \in BOOLEAN
          /\ sink \in [Sinks -> {<<>>, <<"flag">>, SinkSteps}]

\* While the dump is written no vCPU is in the guest, and none can enter it: those that are not
\* parked have a stop before them.  So RAM is what it was, and so is each slice in the file.
Held == /\ image \in Seq(Nat)
        /\ boot \in {"wait", "write", "resume"} => (running => requested)
        /\ boot \in {"write", "resume"} =>
               /\ \A v \in Others : vcpu[v] # "guest"
               /\ ram = moment
               /\ boot = "write" => Len(image) < Slices
               /\ \A i \in 1..Len(image) : image[i] = moment[i]

\* What the trace and the pause owe.
Owed == TypeOK /\ PauseIsPaid /\ LineIsOwedAFlush

\* What the dump sees, when no I/O thread writes.
Quiet == TypeOK /\ Held

(***************************************************************************)
(* Proofs about BuiltinPlugins, for every number of vCPUs, of slices and of *)
(* threads in the sink.  Owed is inductive and gives what the pause and the *)
(* trace owe; Quiet is inductive when no I/O thread writes guest RAM, and   *)
(* gives that a dump is RAM of one moment.                                  *)
(***************************************************************************)

\* Zenon proves what follows by logic alone; the leaves that need arithmetic or
\* functions name SMT.
USE Zenon

\* The steps left to a thread in the sink are a tail of what it began with.
LEMMA SinkTails ==
    /\ SinkSteps # <<>> /\ <<"flag">> # <<>> /\ SinkSteps # <<"flag">>
    /\ Head(SinkSteps) = "line" /\ Tail(SinkSteps) = <<"flag">>
    /\ Head(<<"flag">>) = "flag" /\ Tail(<<"flag">>) = <<>>
  BY SMTT(30) DEF SinkSteps

\* The initial states have the types.
LEMMA InitTypes == Init => TypeOK
<1> SUFFICES ASSUME Init PROVE TypeOK
  OBVIOUS
<1>1. ram \in [Slice -> Nat] /\ moment \in [Slice -> Nat]
  BY DEF Init
<1>2. sink \in [Sinks -> {<<>>, <<"flag">>, SinkSteps}]
  BY DEF Init
<1>3. vcpu \in [Others -> {"out", "guest", "parked", "ended"}]
  BY DEF Init
<1>4. running \in BOOLEAN /\ requested \in BOOLEAN /\ dirty \in BOOLEAN
  BY DEF Init
<1> QED BY <1>1, <1>2, <1>3, <1>4 DEF Init, TypeOK

\* Every action keeps the types.
LEMMA TypeInvariant == TypeOK /\ [Next]_vars => TypeOK'
<1> SUFFICES ASSUME TypeOK, [Next]_vars PROVE TypeOK'
  OBVIOUS
<1> USE DEF TypeOK, BootGoes, VcpuGoes, guest, askers, dump, trace
<1>1. ASSUME NEW withTimer \in BOOLEAN, Attach(withTimer) PROVE TypeOK'
  BY <1>1 DEF Attach
<1>2. CASE AttachFails
  BY <1>2 DEF AttachFails
<1>3. CASE Register \/ ClearExit \/ CheckRunning \/ TakeRequest \/ PauseRequest
  BY <1>3 DEF Register, ClearExit, CheckRunning, TakeRequest, PauseRequest
<1>4. CASE PauseWon \/ PauseLost \/ WriteSlice \/ WriteFails \/ Resume
  BY <1>4 DEF PauseWon, PauseLost, WriteSlice, WriteFails, Resume, AfterFailure
<1>5. CASE TraceHook \/ Flush \/ EnterGuest \/ Kicked \/ GuestExit
  BY <1>5 DEF TraceHook, Flush, EnterGuest, Kicked, GuestExit
<1>6. ASSUME NEW v \in Others, PassCheckpoint(v) \/ LeaveGuest(v) \/ Unpark(v) PROVE TypeOK'
  BY <1>6, ZenonT(30) DEF PassCheckpoint, LeaveGuest, Unpark
<1>7. CASE Stop \/ TimerStep \/ PressKey \/ ConsoleStep
  BY <1>7, ZenonT(30) DEF Stop, TimerStep, PressKey, ConsoleStep
<1>8. ASSUME NEW s \in Slice, Write(s) PROVE TypeOK'
  BY <1>8, SMTT(30) DEF Write
<1>9. ASSUME NEW t \in Sinks, CallSink(t) \/ SinkStep(t) PROVE TypeOK'
  <2>1. CASE CallSink(t)
    BY <2>1 DEF CallSink
  <2>2. CASE SinkStep(t)
    <3>1. Tail(sink[t]) \in {<<>>, <<"flag">>, SinkSteps}
      BY <2>2, SinkTails DEF SinkStep
    <3>2. sink' \in [Sinks -> {<<>>, <<"flag">>, SinkSteps}]
      BY <2>2, <3>1 DEF SinkStep
    <3>3. lines' \in Nat
      BY <2>2, SMTT(30) DEF SinkStep
    <3>4. dirty' \in BOOLEAN
      BY <2>2 DEF SinkStep
    <3> QED BY <2>2, <3>2, <3>3, <3>4 DEF SinkStep
  <2> QED BY <1>9, <2>1, <2>2
<1>10. CASE UNCHANGED vars
  BY <1>10 DEF vars
<1> QED BY <1>1, <1>2, <1>3, <1>4, <1>5, <1>6, <1>7, <1>8, <1>9, <1>10 DEF Next, BootStep,
           Finished

\* A step of a thread in the sink leaves a mark or a sink that is about to set one.
LEMMA SinkOwes ==
  ASSUME TypeOK, LineIsOwedAFlush, NEW t \in Sinks, CallSink(t) \/ SinkStep(t)
  PROVE  LineIsOwedAFlush'
<1> USE DEF guest, LineIsOwedAFlush
<1>1. CASE CallSink(t)
  <2>1. /\ sink[t] = <<>> /\ lines' = lines /\ flushed' = flushed /\ dirty' = dirty
        /\ boot' = boot
        /\ \A u \in Sinks : u # t => sink'[u] = sink[u]
    BY <1>1 DEF CallSink, TypeOK
  <2> QED BY <2>1, SinkTails
<1>2. CASE SinkStep(t) /\ sink[t] = SinkSteps
  <2>1. sink'[t] = <<"flag">>
    BY <1>2, SinkTails DEF SinkStep, TypeOK
  <2> QED BY <2>1
<1>3. CASE SinkStep(t) /\ sink[t] = <<"flag">>
  BY <1>3, SinkTails DEF SinkStep
<1> QED BY <1>1, <1>2, <1>3 DEF SinkStep, TypeOK

\* Every action keeps what the pause and the trace owe.
LEMMA OwedInductive == Owed /\ [Next]_vars => Owed'
<1> SUFFICES ASSUME Owed, [Next]_vars PROVE PauseIsPaid' /\ LineIsOwedAFlush'
  BY TypeInvariant DEF Owed
<1> USE DEF Owed, PauseIsPaid, LineIsOwedAFlush, TypeOK, BootGoes, VcpuGoes, guest, askers, dump,
            trace
<1> DEFINE Goal == PauseIsPaid' /\ LineIsOwedAFlush'
<1>1. ASSUME NEW withTimer \in BOOLEAN, Attach(withTimer) PROVE Goal
  BY <1>1 DEF Attach
<1>2. CASE AttachFails
  BY <1>2 DEF AttachFails
<1>3. CASE Register \/ ClearExit \/ CheckRunning \/ TakeRequest \/ PauseRequest
  BY <1>3, SMTT(30) DEF Register, ClearExit, CheckRunning, TakeRequest, PauseRequest
<1>4. CASE PauseWon \/ PauseLost \/ WriteSlice \/ WriteFails \/ Resume
  BY <1>4 DEF PauseWon, PauseLost, WriteSlice, WriteFails, Resume, AfterFailure
<1>5. CASE TraceHook \/ Flush \/ EnterGuest \/ Kicked \/ GuestExit
  BY <1>5, SMTT(30) DEF TraceHook, Flush, EnterGuest, Kicked, GuestExit
<1>6. ASSUME NEW v \in Others, PassCheckpoint(v) \/ LeaveGuest(v) \/ Unpark(v) PROVE Goal
  BY <1>6, SMTT(30) DEF PassCheckpoint, LeaveGuest, Unpark
<1>7. CASE Stop \/ TimerStep \/ PressKey \/ ConsoleStep
  <2>1. boot' = boot /\ UNCHANGED trace
    BY <1>7 DEF Stop, TimerStep, PressKey, ConsoleStep
  <2>2. requested' => requested
    BY <1>7 DEF Stop, TimerStep, PressKey, ConsoleStep
  <2> QED BY <2>1, <2>2
<1>8. ASSUME NEW s \in Slice, Write(s) PROVE Goal
  BY <1>8 DEF Write
<1>9. ASSUME NEW t \in Sinks, CallSink(t) \/ SinkStep(t) PROVE Goal
  <2>1. LineIsOwedAFlush'
    BY <1>9, SinkOwes
  <2> QED BY <1>9, <2>1, SMTT(30) DEF CallSink, SinkStep
<1>10. CASE UNCHANGED vars
  BY <1>10 DEF vars
<1> QED BY <1>1, <1>2, <1>3, <1>4, <1>5, <1>6, <1>7, <1>8, <1>9, <1>10 DEF Next, BootStep,
           Finished

\* Whatever the safe points, the debts to the guest and to the trace are on the books.
LEMMA OwedAlways == Spec => []Owed
<1>1. Init => Owed
  <2>1. Init => TypeOK
    BY InitTypes
  <2>2. Init => PauseIsPaid
    BY DEF Init, PauseIsPaid
  <2>3. Init => LineIsOwedAFlush
    BY SMTT(30) DEF Init, LineIsOwedAFlush
  <2> QED BY <2>1, <2>2, <2>3 DEF Owed
<1> QED BY <1>1, OwedInductive, PTL DEF Spec

\* A pause is always paid for, for every number of vCPUs and threads.
\* (MemoryDump::on_safepoint)
THEOREM DebtsAreKept == Spec => []PauseIsPaid
<1>1. Owed => PauseIsPaid
  BY DEF Owed
<1> QED BY <1>1, OwedAlways, PTL

\* A traced line is always in the file or owed a flush, for every number of vCPUs and threads.
\* (IoTrace::on_safepoint, TraceSink)
THEOREM FlushIsOwed == Spec => []LineIsOwedAFlush
<1>1. Owed => LineIsOwedAFlush
  BY DEF Owed
<1> QED BY <1>1, OwedAlways, PTL

-----------------------------------------------------------------------------
\* The next slice of the file is RAM of the moment the pause was won.
LEMMA SliceIsHeld ==
  ASSUME TypeOK, Held, WriteSlice
  PROVE  Held'
<1>1. /\ boot = "write" /\ boot' \in {"write", "resume"}
      /\ boot' = "write" => Len(image) + 1 # Slices
      /\ image' = Append(image, ram[Len(image) + 1])
      /\ UNCHANGED <<vcpu, running, requested, ram, moment>>
  BY DEF WriteSlice
<1>2. /\ image \in Seq(Nat) /\ Len(image) \in Nat /\ Len(image) < Slices /\ ram = moment
      /\ \A i \in 1..Len(image) : image[i] = moment[i]
      /\ running => requested
      /\ \A v \in Others : vcpu[v] # "guest"
  BY <1>1, SMTT(30) DEF Held
<1>3. Len(image) + 1 \in Slice
  BY <1>2, SlicesAssumption, SMTT(30) DEF Slice
<1>4. image' \in Seq(Nat) /\ Len(image') = Len(image) + 1
  BY <1>1, <1>2, <1>3, SMTT(30) DEF TypeOK
<1>5. \A i \in 1..Len(image') : image'[i] = moment[i]
  <2> TAKE i \in 1..Len(image')
  <2>1. CASE i = Len(image) + 1
    BY <1>1, <1>2, <2>1, SMTT(30)
  <2>2. CASE i # Len(image) + 1
    BY <1>1, <1>2, <1>4, <2>2, SMTT(30)
  <2> QED BY <2>1, <2>2
<1>6. boot' = "write" => Len(image') < Slices
  BY <1>1, <1>2, <1>4, SlicesAssumption, SMTT(30)
<1> QED BY <1>1, <1>2, <1>4, <1>5, <1>6 DEF Held

\* Every action keeps the dump's invariant when no I/O thread writes guest RAM.
LEMMA QuietInductive == ~IoWrites /\ Quiet /\ [Next]_vars => Quiet'
<1> SUFFICES ASSUME ~IoWrites, Quiet, [Next]_vars PROVE Held'
  BY TypeInvariant DEF Quiet
<1> USE DEF Quiet, TypeOK, BootGoes, VcpuGoes, guest, askers, dump, trace
<1>1. ASSUME NEW withTimer \in BOOLEAN, Attach(withTimer) PROVE Held'
  BY <1>1 DEF Attach, Held
<1>2. CASE AttachFails
  BY <1>2 DEF AttachFails, Held
<1>3. CASE Register \/ ClearExit \/ CheckRunning \/ TakeRequest \/ PauseRequest
  BY <1>3 DEF Register, ClearExit, CheckRunning, TakeRequest, PauseRequest, Held
<1>4. CASE PauseWon
  BY <1>4, SlicesAssumption, SMTT(30) DEF PauseWon, AllParked, Held
<1>5. CASE PauseLost \/ Resume
  BY <1>5 DEF PauseLost, Resume, Held
<1>6. CASE WriteFails
  BY <1>6, SMTT(30) DEF WriteFails, AfterFailure, Held
<1>7. CASE WriteSlice
  BY <1>7, SliceIsHeld
<1>8. CASE TraceHook \/ Flush \/ EnterGuest \/ Kicked \/ GuestExit
  BY <1>8 DEF TraceHook, Flush, EnterGuest, Kicked, GuestExit, Held
<1>9. ASSUME NEW v \in Others, PassCheckpoint(v) \/ LeaveGuest(v) \/ Unpark(v) PROVE Held'
  BY <1>9, SMTT(30) DEF PassCheckpoint, LeaveGuest, Unpark, Held
<1>10. CASE Stop
  BY <1>10 DEF Stop, Held
<1>11. CASE TimerStep \/ PressKey \/ ConsoleStep
  <2>1. UNCHANGED <<boot, vcpu, running, requested, dump>>
    BY <1>11 DEF TimerStep, PressKey, ConsoleStep
  <2>2. UNCHANGED <<boot, vcpu, running, requested, image, ram, moment>>
    BY <2>1
  <2> QED BY <2>2 DEF Held
<1>12. ASSUME NEW s \in Slice, Write(s) PROVE Held'
  BY <1>12 DEF Write, Held
<1>13. ASSUME NEW t \in Sinks, CallSink(t) \/ SinkStep(t) PROVE Held'
  BY <1>13, SMTT(30) DEF CallSink, SinkStep, Held
<1>14. CASE UNCHANGED vars
  BY <1>14 DEF vars, Held
<1> QED BY <1>1, <1>2, <1>3, <1>4, <1>5, <1>6, <1>7, <1>8, <1>9, <1>10, <1>11, <1>12, <1>13,
           <1>14 DEF Next, BootStep, Finished

\* When no I/O thread writes guest RAM, a dump that was written whole is RAM of one moment, for
\* every number of vCPUs and slices and whatever stop races with it.  (MemoryDump::on_safepoint,
\* write_dump)
THEOREM DumpIsConsistent == ASSUME ~IoWrites PROVE Spec => []DumpIsOneMoment
<1>1. Init => Quiet
  <2>1. Init => TypeOK
    BY InitTypes
  <2>2. Init => Held
    BY SMTT(30) DEF Init, Held
  <2> QED BY <2>1, <2>2 DEF Quiet
<1>2. Quiet => DumpIsOneMoment
  BY SlicesAssumption DEF Quiet, Held, DumpIsOneMoment, Slice
<1>3. Quiet /\ [Next]_vars => Quiet'
  BY QuietInductive
<1> QED BY <1>1, <1>2, <1>3, PTL DEF Spec

=============================================================================
