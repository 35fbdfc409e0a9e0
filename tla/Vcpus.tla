------------------------------- MODULE Vcpus -------------------------------
(***************************************************************************)
(* The vCPU threads of one VM on a KVM backend: the run loop of each vCPU  *)
(* with its checkpoint (hypervisor/quiesce.rs), the kicks that end a       *)
(* KVM_RUN (hypervisor/kvm.rs), the pause a plugin makes from the boot     *)
(* vCPU, and the stop (hypervisor/vcpus.rs).                               *)
(*                                                                         *)
(* Each step is one access to shared state: an atomic, a section under a   *)
(* lock, a signal.  A deadline is a step that may come at any time.  When  *)
(* the stop comes, and what `boot` makes of it, is in RunToStop; here the  *)
(* thread that owns the stop may call it at any time, and again.           *)
(***************************************************************************)
EXTENDS Integers, FiniteSets

CONSTANTS N,               \* the number of vCPUs, `Vcpus::count`
          MaxHostKicks     \* a bound on the kicks the host sends vcpu0

ASSUME CountAssumption == N \in Nat \ {0}
ASSUME HostKicksAssumption == MaxHostKicks \in Nat

Cpus == 0 .. N - 1

VARIABLES
    \* The state `Vcpus` shares between the threads.
    running,               \* Vcpus::running
    requested,             \* Quiesce::requested
    parked,                \* Quiesce::parked
    started,               \* Vcpus::started
    \* The kick table and the round of kicks that holds its lock.
    registered,            \* the vCPUs with an entry in Kicker::threads
    exitByte,              \* kvm_run.immediate_exit of each vCPU
    kicker,                \* who holds the table's lock, or "free"
    kickTodo,              \* the vCPUs the round has still to kick
    kickStored,            \* whether the next one's byte is already stored
    hostKicks,             \* the kicks the host has sent, up to MaxHostKicks
    \* The threads.
    pc,                    \* where each vCPU thread is
    expired,               \* whether the deadline of the pause has passed
    stopper,               \* where the thread that owns the stop is
    stopSent,              \* whether the stop's round of kicks has ended
    severed                \* whether a stop hook has ended the connection to
                           \* the daemon a device waits on

quiesce == <<requested, parked>>
table   == <<registered, exitByte>>
round   == <<kicker, kickTodo, kickStored>>
stop    == <<stopper, stopSent, severed>>
vars    == <<running, quiesce, started, table, round, hostKicks, pc, expired,
             stop>>

\* All but `pc`, for the steps that only move one thread on.
rest == <<running, quiesce, started, table, round, hostKicks, expired, stop>>

Init ==
    /\ running = TRUE /\ requested = FALSE /\ parked = 0 /\ started = 0
    /\ registered = {} /\ exitByte = [c \in Cpus |-> 0]
    /\ kicker = "free" /\ kickTodo = {} /\ kickStored = FALSE
    /\ hostKicks = 0
    /\ pc = [c \in Cpus |-> "unborn"]
    /\ expired = FALSE
    /\ stopper = "idle" /\ stopSent = FALSE /\ severed = FALSE

Go(c, label) == pc' = [pc EXCEPT ![c] = label]

\* The lock on Quiesce::parked, which a vCPU holds from its increment until
\* it waits.  Every other section under the lock is one step.
QuiesceUnlocked == \A c \in Cpus : pc[c] # "parking"

\* Condvar::notify_all on Quiesce::cv: the parked vCPUs wake, and so does the
\* boot vCPU that waits in a pause.
NotifyAll ==
    [c \in Cpus |-> IF pc[c] = "parked" THEN "woken"
                    ELSE IF pc[c] = "blocked" THEN "await" ELSE pc[c]]

-----------------------------------------------------------------------------
(* The kick table.  A round of kicks holds the table's lock. *)

\* Kicker::kick_all and Kicker::kick take the lock and the registered threads
\* among `targets`.  A kick from the thread itself is dropped, so a pause
\* passes every vCPU but its own.
LockTable(who, targets) ==
    /\ kicker = "free"
    /\ kicker' = who
    /\ kickTodo' = registered \cap targets
    /\ kickStored' = FALSE

UnlockTable(who) ==
    /\ kicker = who /\ kickTodo = {}
    /\ kicker' = "free"
    /\ UNCHANGED <<kickTodo, kickStored>>

\* Mutant of KickStore: the kick is only the signal.
KickStoreSignalOnly(c) ==
    /\ c \in kickTodo /\ ~kickStored
    /\ \A d \in kickTodo : c <= d
    /\ exitByte' = exitByte
    /\ kickStored' = TRUE
    /\ UNCHANGED <<running, quiesce, started, registered, kicker, kickTodo,
                   hostKicks, pc, expired, stop>>

\* VcpuThread::kick, first the store of `immediate_exit`.
KickStore(c) ==
    /\ c \in kickTodo /\ ~kickStored
    /\ \A d \in kickTodo : c <= d
    /\ exitByte' = [exitByte EXCEPT ![c] = 1]
    /\ kickStored' = TRUE
    /\ UNCHANGED <<running, quiesce, started, registered, kicker, kickTodo,
                   hostKicks, pc, expired, stop>>

\* VcpuThread::kick, then the signal.  It ends a KVM_RUN in progress and is
\* lost on a thread that is not in one.
KickSignal(c) ==
    /\ c \in kickTodo /\ kickStored
    /\ \A d \in kickTodo : c <= d
    /\ kickTodo' = kickTodo \ {c}
    /\ kickStored' = FALSE
    /\ IF pc[c] = "guest" THEN Go(c, "interrupted") ELSE pc' = pc
    /\ UNCHANGED <<running, quiesce, started, table, kicker, hostKicks,
                   expired, stop>>

\* VmHandle::kick and the console's request key kick the boot vCPU from a
\* thread of their own.
HostKick ==
    /\ hostKicks < MaxHostKicks
    /\ LockTable("host", {0})
    /\ hostKicks' = hostKicks + 1
    /\ UNCHANGED <<running, quiesce, started, table, pc, expired, stop>>

HostKicked ==
    /\ UnlockTable("host")
    /\ UNCHANGED <<running, quiesce, started, table, hostKicks, pc, expired,
                   stop>>

-----------------------------------------------------------------------------
(* A vCPU thread. *)

\* Vcpus::spawn starts the threads in order.
Spawn(c) ==
    /\ pc[c] = "unborn" /\ \A d \in 0 .. c - 1 : pc[d] # "unborn"
    /\ Go(c, "register")
    /\ UNCHANGED rest

\* Kicker::register.
Register(c) ==
    /\ pc[c] = "register" /\ kicker = "free"
    /\ registered' = registered \cup {c}
    /\ Go(c, "count")
    /\ UNCHANGED <<running, quiesce, started, exitByte, round, hostKicks,
                   expired, stop>>

\* Vcpus::mark_started, before the first checkpoint.
MarkStarted(c) ==
    /\ pc[c] = "count"
    /\ started' = started + 1
    /\ Go(c, "clear")
    /\ UNCHANGED <<running, quiesce, table, round, hostKicks, expired, stop>>

\* The top of run_vcpu's loop clears the byte before it reads the flag.
ClearExit(c) ==
    /\ pc[c] = "clear"
    /\ exitByte' = [exitByte EXCEPT ![c] = 0]
    /\ Go(c, "check")
    /\ UNCHANGED <<running, quiesce, started, registered, round, hostKicks,
                   expired, stop>>

CheckRunning(c) ==
    /\ pc[c] = "check"
    /\ Go(c, IF running THEN "checkpoint" ELSE "deregister")
    /\ UNCHANGED rest

\* Where a vCPU goes on past its checkpoint: only the boot vCPU calls the
\* plugin (Guest::pass_safepoint).
AfterCheckpoint(c) == IF c = 0 THEN "safepoint" ELSE "enter"

\* Quiesce::checkpoint, the load on its fast path.
Checkpoint(c) ==
    /\ pc[c] = "checkpoint"
    /\ Go(c, IF requested THEN "park" ELSE AfterCheckpoint(c))
    /\ UNCHANGED rest

\* It takes the lock, counts itself and notifies the requester.
Park(c) ==
    /\ pc[c] = "park" /\ QuiesceUnlocked
    /\ parked' = parked + 1
    /\ pc' = [NotifyAll EXCEPT ![c] = "parking"]
    /\ UNCHANGED <<running, requested, started, table, round, hostKicks,
                   expired, stop>>

\* The `while` of the checkpoint, under the lock: it waits while the quiesce
\* is requested, and counts itself out once it is not.
CheckRequest(c) ==
    /\ IF requested
       THEN Go(c, "parked") /\ parked' = parked
       ELSE Go(c, AfterCheckpoint(c)) /\ parked' = parked - 1
    /\ UNCHANGED <<running, requested, started, table, round, hostKicks,
                   expired, stop>>

WaitParked(c) == pc[c] = "parking" /\ CheckRequest(c)

WakeParked(c) == pc[c] = "woken" /\ QuiesceUnlocked /\ CheckRequest(c)

\* KVM_RUN returns EINTR at once when the byte is set, and enters the guest
\* when it is not.
EnterGuest(c) ==
    /\ pc[c] = "enter"
    /\ Go(c, IF exitByte[c] = 1 THEN "interrupted" ELSE "guest")
    /\ UNCHANGED rest

\* A kicked run reaches handle_exit as VcpuExit::Intr, which goes round.
Interrupted(c) ==
    /\ pc[c] = "interrupted"
    /\ Go(c, "clear")
    /\ UNCHANGED rest

\* The guest exits on its own.
GuestExit(c) ==
    /\ pc[c] = "guest"
    /\ Go(c, "service")
    /\ UNCHANGED rest

\* The exit is serviced and the loop goes round, or the loop ends: the guest
\* stopped, the vCPU failed, or a panic unwinds it.  A device served by a
\* vhost-user daemon first waits for its answer, which no kick ends; on a
\* connection that has ended it does not wait.
Service(c) ==
    /\ pc[c] = "service"
    /\ \/ Go(c, "clear") \/ Go(c, "deregister")
       \/ ~severed /\ Go(c, "daemon")
    /\ UNCHANGED rest

\* The daemon answers.
DaemonAnswer(c) ==
    /\ pc[c] = "daemon"
    /\ Go(c, "service")
    /\ UNCHANGED rest

\* ShutdownFds::shutdown ends the read the vCPU waits in.
DaemonGone(c) ==
    /\ pc[c] = "daemon" /\ severed
    /\ Go(c, "service")
    /\ UNCHANGED rest

\* The drop of Registration, on a return and in an unwind.
Deregister(c) ==
    /\ pc[c] = "deregister" /\ kicker = "free"
    /\ registered' = registered \ {c}
    /\ Go(c, "gone")
    /\ UNCHANGED <<running, quiesce, started, exitByte, round, hostKicks,
                   expired, stop>>

VcpuStep(c) ==
    \/ Register(c) \/ MarkStarted(c) \/ ClearExit(c) \/ CheckRunning(c)
    \/ Checkpoint(c) \/ Park(c) \/ WaitParked(c) \/ WakeParked(c)
    \/ EnterGuest(c) \/ Interrupted(c) \/ Service(c) \/ DaemonGone(c)
    \/ Deregister(c)

-----------------------------------------------------------------------------
(* The plugin's hook on the boot vCPU, and the pause it may make. *)

\* Plugin::on_safepoint returns.
SafepointReturn ==
    /\ pc[0] = "safepoint"
    /\ Go(0, "enter")
    /\ UNCHANGED rest

\* Vcpus::pause raises the request before its kicks.  A plugin may pause again
\* inside a pause in effect.
PauseRequest ==
    /\ pc[0] \in {"safepoint", "held"}
    /\ requested' = TRUE
    /\ expired' = FALSE
    /\ Go(0, "kickOthers")
    /\ UNCHANGED <<running, parked, started, table, round, hostKicks, stop>>

PauseKick ==
    /\ pc[0] = "kickOthers"
    /\ LockTable("pause", Cpus \ {0})
    /\ Go(0, "kicking")
    /\ UNCHANGED <<running, quiesce, started, table, hostKicks, expired, stop>>

PauseKicked ==
    /\ pc[0] = "kicking"
    /\ UnlockTable("pause")
    /\ Go(0, "await")
    /\ UNCHANGED <<running, quiesce, started, table, hostKicks, expired, stop>>

\* The number of vCPUs a pause waits for, `others` in Vcpus::pause.
PauseTarget ==
    IF running /\ started > 0 THEN started - 1 ELSE 0

\* Mutant of PauseAwait: a wait that timed out counts as one that did not.
PauseAwaitIgnoresTimeout ==
    /\ pc[0] = "await" /\ QuiesceUnlocked
    /\ \/ parked >= PauseTarget /\ Go(0, "confirm")
       \/ parked < PauseTarget /\ expired /\ Go(0, "confirm")
       \/ parked < PauseTarget /\ ~expired /\ Go(0, "blocked")
    /\ UNCHANGED rest

\* A turn of the wait in Quiesce::wait_for_within, under the lock a vCPU parks
\* under.  The deadline counts only once the condition has failed again.
PauseAwait ==
    /\ pc[0] = "await" /\ QuiesceUnlocked
    /\ \/ parked >= PauseTarget /\ Go(0, "confirm")
       \/ parked < PauseTarget /\ expired /\ Go(0, "release")
       \/ parked < PauseTarget /\ ~expired /\ Go(0, "blocked")
    /\ UNCHANGED rest

\* PARK_TIMEOUT passes.
PauseExpires ==
    /\ pc[0] \in {"await", "blocked"} /\ ~expired
    /\ expired' = TRUE
    /\ Go(0, "await")
    /\ UNCHANGED <<running, quiesce, started, table, round, hostKicks, stop>>

\* Mutant of PauseConfirm: the running flag is not read again.
PauseConfirmUnchecked ==
    /\ pc[0] = "confirm"
    /\ Go(0, "held")
    /\ UNCHANGED rest

\* The pause holds only if the VM still runs once the wait has ended.
PauseConfirm ==
    /\ pc[0] = "confirm"
    /\ Go(0, IF running THEN "held" ELSE "release")
    /\ UNCHANGED rest

\* Quiesce::release, from Vcpus::resume or at the end of a failed pause.  The
\* notify takes the lock, so it falls on no vCPU between its check of the flag
\* and its wait.
PauseRelease ==
    /\ pc[0] \in {"held", "release"}
    /\ requested' = FALSE
    /\ Go(0, "notify")
    /\ UNCHANGED <<running, parked, started, table, round, hostKicks, expired,
                   stop>>

PauseNotify ==
    /\ pc[0] = "notify" /\ QuiesceUnlocked
    /\ pc' = [NotifyAll EXCEPT ![0] = "safepoint"]
    /\ UNCHANGED rest

\* The plugin panics in its hook, with or without a pause in effect.
PluginPanic ==
    /\ pc[0] \in {"safepoint", "held"}
    /\ Go(0, "deregister")
    /\ UNCHANGED rest

PauseStep ==
    \/ PauseKick \/ PauseKicked \/ PauseAwait \/ PauseConfirm
    \/ PauseRelease \/ PauseNotify

-----------------------------------------------------------------------------
(* Vcpus::stop, on the thread that owns the stop. *)

\* It swaps the flag.  Only the call that clears it kicks.
StopSwap ==
    /\ stopper = "idle"
    /\ running' = FALSE
    /\ stopper' = IF running THEN "kick" ELSE "hooks"
    /\ UNCHANGED <<quiesce, started, table, round, hostKicks, pc, expired,
                   stopSent, severed>>

StopKick ==
    /\ stopper = "kick"
    /\ LockTable("stop", Cpus)
    /\ stopper' = "kicking"
    /\ UNCHANGED <<running, quiesce, started, table, hostKicks, pc, expired,
                   stopSent, severed>>

StopKicked ==
    /\ stopper = "kicking"
    /\ UnlockTable("stop")
    /\ stopper' = "hooks"
    /\ stopSent' = TRUE
    /\ UNCHANGED <<running, quiesce, started, table, hostKicks, pc, expired,
                   severed>>

\* The stop hooks, vhost_user::shut_down on both KVM backends.
StopHooks ==
    /\ stopper = "hooks"
    /\ severed' = TRUE
    /\ stopper' = "release"
    /\ UNCHANGED <<running, quiesce, started, table, round, hostKicks, pc,
                   expired, stopSent>>

\* The release at the end of every stop.
StopRelease ==
    /\ stopper = "release"
    /\ requested' = FALSE
    /\ stopper' = "notify"
    /\ UNCHANGED <<running, parked, started, table, round, hostKicks, pc,
                   expired, stopSent, severed>>

StopNotify ==
    /\ stopper = "notify" /\ QuiesceUnlocked
    /\ pc' = NotifyAll
    /\ stopper' = "idle"
    /\ UNCHANGED <<running, quiesce, started, table, round, hostKicks, expired,
                   stopSent, severed>>

StopStep ==
    StopKick \/ StopKicked \/ StopHooks \/ StopRelease \/ StopNotify

-----------------------------------------------------------------------------

Next ==
    \/ \E c \in Cpus : \/ Spawn(c) \/ VcpuStep(c) \/ GuestExit(c)
                       \/ DaemonAnswer(c) \/ KickStore(c) \/ KickSignal(c)
    \/ HostKick \/ HostKicked
    \/ SafepointReturn \/ PauseRequest \/ PauseExpires \/ PauseStep
    \/ PluginPanic
    \/ StopSwap \/ StopStep

Spec == Init /\ [][Next]_vars

(***************************************************************************)
(* Fairness.  The scheduler runs every thread that can take a step, and    *)
(* time passes.  Nothing makes the guest exit on its own, nor the host ask *)
(* for a stop, nor a plugin pause.  A plugin returns from its hook in the  *)
(* end, as the contract of CpuHandle::is_stopping asks of it: the fairness *)
(* is strong for a plugin that pauses again and again in one call.         *)
(***************************************************************************)
Fairness ==
    /\ \A c \in Cpus : WF_vars(VcpuStep(c))
    /\ WF_vars(\E c \in Cpus : KickStore(c) \/ KickSignal(c))
    /\ WF_vars(HostKicked)
    /\ WF_vars(PauseStep) /\ WF_vars(PauseExpires)
    /\ SF_vars(SafepointReturn)
    /\ WF_vars(StopStep)

FairSpec == Spec /\ Fairness

-----------------------------------------------------------------------------
(* Properties. *)

VcpuLabels ==
    {"unborn", "register", "count", "clear", "check", "checkpoint", "park",
     "parking", "parked", "woken", "safepoint", "enter", "guest",
     "interrupted", "service", "daemon", "deregister", "gone", "kickOthers", "kicking",
     "await", "blocked", "confirm", "held", "release", "notify"}

\* The type of every variable.
TypeOK ==
    /\ running \in BOOLEAN /\ requested \in BOOLEAN
    /\ parked \in 0 .. N /\ started \in 0 .. N
    /\ registered \in SUBSET Cpus /\ exitByte \in [Cpus -> {0, 1}]
    /\ kicker \in {"free", "stop", "pause", "host"}
    /\ kickTodo \in SUBSET Cpus /\ kickStored \in BOOLEAN
    /\ hostKicks \in 0 .. MaxHostKicks
    /\ pc \in [Cpus -> VcpuLabels] /\ expired \in BOOLEAN
    /\ stopper \in {"idle", "kick", "kicking", "hooks", "release", "notify"}
    /\ stopSent \in BOOLEAN /\ severed \in BOOLEAN

\* Guest code runs, or a device acts on the guest's behalf.
TouchesGuest(c) == pc[c] \in {"guest", "service", "daemon"}

(***************************************************************************)
(* While the boot vCPU holds a pause, no vCPU touches the guest, not even  *)
(* one that starts during the pause or that a stop releases from its       *)
(* checkpoint (Vcpus::pause, Quiesce).                                     *)
(***************************************************************************)
PauseHoldsGuest ==
    pc[0] = "held" => \A c \in Cpus : ~TouchesGuest(c)

(***************************************************************************)
(* Once a stop's round of kicks is over, no vCPU executes guest code: "one *)
(* round of kicks is enough" (Vcpus::stop).                                *)
(***************************************************************************)
NoGuestAfterStop ==
    stopSent => \A c \in Cpus : pc[c] # "guest"

Barrier == INSTANCE SafePoint WITH
    Cpu <- Cpus,
    inGuest <- {c \in Cpus : pc[c] = "guest"},
    served <- {c \in Cpus : pc[c] \in {"service", "daemon"}},
    still <- pc[0] = "held",
    over <- stopSent

\* The vCPU threads implement the promise of SafePoint: a pause in effect and
\* a stop that has gone out each keep every vCPU out of the guest, and a pause
\* waits for the exits in service (Vcpus::pause, Vcpus::stop).
ImplementsSafePoint == Barrier!AbsSpec

-----------------------------------------------------------------------------
(* The inductive invariant behind the safety properties. *)

StartedSet == {c \in Cpus : pc[c] \notin {"unborn", "register", "count"}}
ParkedSet  == {c \in Cpus : pc[c] \in {"parking", "parked", "woken"}}

\* The labels of a pause, which the boot vCPU alone reaches, and those of them
\* at which it has raised the request and not lowered it.
Raised      == {"kickOthers", "kicking", "await", "blocked", "confirm", "held"}
PauseLabels == Raised \cup {"release", "notify"}

\* A vCPU that has read the flag as set and goes on to KVM_RUN.
Armed == {"checkpoint", "park", "parking", "parked", "woken", "safepoint",
          "enter"} \cup PauseLabels

\* Where a vCPU may be while a pause is held.
Quiet == {"unborn", "register", "count", "clear", "check", "checkpoint", "park",
          "parking", "parked", "woken", "deregister", "gone"}

\* The counters count the vCPUs they say they count.
CountsAgree ==
    started = Cardinality(StartedSet) /\ parked = Cardinality(ParkedSet)

\* The boot vCPU alone pauses, it never parks, and no request outlives its
\* call of the hook unless the hook panicked.
RolesOK ==
    /\ \A c \in Cpus \ {0} : pc[c] \notin PauseLabels \cup {"safepoint"}
    /\ pc[0] \notin {"park", "parking", "parked", "woken"}
    /\ requested => pc[0] \in Raised \cup {"release", "deregister", "gone"}
    /\ pc[0] \in Raised /\ ~requested => stopSent

\* The table lists the threads between their registration and its drop.
TableOK ==
    \A c \in Cpus : c \in registered <=> pc[c] \notin {"unborn", "register", "gone"}

\* The flag is clear from the stop's swap on.
StopOK ==
    /\ ~running <=> stopSent \/ stopper \in {"kick", "kicking"}
    /\ stopper \in {"hooks", "release", "notify"} => stopSent
    /\ stopper = "kicking" => kicker = "stop"

\* A vCPU the stop's round has passed is out of the guest, and its next
\* KVM_RUN returns at once.  So does that of a vCPU whose byte is stored.
Reached(c) ==
    /\ stopper = "kicking" /\ kickStored /\ c \in kickTodo
    /\ \A d \in kickTodo : c <= d

Covered(c) == stopSent \/ (stopper = "kicking" /\ c \notin kickTodo)

KicksOK ==
    \A c \in Cpus :
        /\ Covered(c) => pc[c] # "guest"
        /\ Covered(c) \/ Reached(c) => (pc[c] \in Armed => exitByte[c] = 1)

\* While a pause is held, every other vCPU has parked or has not come to its
\* first checkpoint, or runs into the stop.
HoldOK ==
    pc[0] = "held" \/ (pc[0] = "confirm" /\ running)
        => \A c \in Cpus \ {0} :
               pc[c] \in Quiet \/ (stopSent /\ pc[c] \in {"enter", "interrupted"})

Inv == TypeOK /\ CountsAgree /\ RolesOK /\ TableOK /\ StopOK /\ KicksOK /\ HoldOK
=============================================================================
