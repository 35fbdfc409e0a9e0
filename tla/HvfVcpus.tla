------------------------------ MODULE HvfVcpus ------------------------------
(***************************************************************************)
(* The vCPU threads of the Hypervisor.framework backend: run_cpu and       *)
(* service_psci (arch/aarch64/hvf/vcpu.rs), the kick and the CPU_ON        *)
(* mailboxes (arch/aarch64/hvf/kick.rs), under Vcpus::stop.  The quiesce   *)
(* they share with KVM is in Vcpus.tla.                                    *)
(*                                                                         *)
(* hv_vcpus_exit takes a list of handles.  It ends a run in progress, stays *)
(* pending for a vCPU outside its run, and fails for the whole list when   *)
(* one of its vCPUs is destroyed.                                          *)
(***************************************************************************)
EXTENDS Naturals, TLC

CONSTANTS N,               \* the number of vCPUs; vCPU 0 boots
          Entries,         \* entry points the guest gives CPU_ON
          MaxOns,          \* a bound on the CPU_ON calls
          MaxKicks         \* a bound on the kicks of other host threads and the
                           \* waits that end for no reason

Cpus == 0..(N - 1)
Secondaries == Cpus \ {0}
None == "none"

VARIABLES
    running,               \* Vcpus::running
    handles,               \* the vCPUs in the kick table
    vcpu,                  \* each vCPU: "none", "created" or "destroyed"
    pending,               \* whether a cancel is pending for it
    mbox,                  \* Secondary::mbox
    holder,                \* who holds its lock, or "free"
    pc,                    \* where each vCPU thread is
    entry,                 \* what each secondary started at
    call,                  \* the CPU_ON each vCPU is in: <<target, entry>>
    stopper,               \* where Vcpus::stop is
    todo,                  \* the secondaries it has still to wake
    ons, kicks,            \* the calls and the kicks so far
    asked                  \* the entries CPU_ON was called with, by target

vars == <<running, handles, vcpu, pending, mbox, holder, pc, entry, call,
          stopper, todo, ons, kicks, asked>>

Init ==
    /\ running = TRUE /\ handles = {}
    /\ vcpu = [c \in Cpus |-> "none"] /\ pending = [c \in Cpus |-> FALSE]
    /\ mbox = [c \in Cpus |-> None] /\ holder = [c \in Cpus |-> "free"]
    /\ pc = [c \in Cpus |-> "create"] /\ entry = [c \in Cpus |-> None]
    /\ call = [c \in Cpus |-> <<0, None>>]
    /\ stopper = "waits" /\ todo = {} /\ ons = 0 /\ kicks = 0
    /\ asked = [c \in Cpus |-> {}]

To(c, p) == pc' = [pc EXCEPT ![c] = p]

-----------------------------------------------------------------------------
(* The kick. *)

\* kick_others leaves out the caller's own vCPU.
Targets(own) == handles \ own

\* vcpus_exit: one destroyed vCPU fails the list.
VcpusExit(list) ==
    pending' = IF \E c \in list : vcpu[c] = "destroyed" THEN pending
               ELSE [c \in Cpus |-> pending[c] \/ c \in list]

\* Another host thread, as a device with an interrupt to deliver, kicks.
HostKicks ==
    /\ kicks < MaxKicks
    /\ kicks' = kicks + 1
    /\ \/ VcpusExit(Targets({}))
       \/ \E c \in handles : VcpusExit({c})
    /\ UNCHANGED <<running, handles, vcpu, mbox, holder, pc, entry, call,
                   stopper, todo, ons, asked>>

-----------------------------------------------------------------------------
(* A vCPU thread. *)

Creates(c) ==
    /\ pc[c] = "create"
    /\ \/ vcpu' = [vcpu EXCEPT ![c] = "created"] /\ To(c, "register")
       \/ vcpu' = vcpu /\ To(c, "exited")       \* reported as a failure
    /\ UNCHANGED <<running, handles, pending, mbox, holder, entry, call>>

Registers(c) ==
    /\ pc[c] = "register"
    /\ handles' = handles \cup {c}
    /\ To(c, IF c = 0 THEN "loop" ELSE "lock")
    /\ UNCHANGED <<running, vcpu, pending, mbox, holder, entry, call>>

\* wait_for_cpu_on.
Locks(c) ==
    /\ pc[c] = "lock" /\ holder[c] = "free"
    /\ holder' = [holder EXCEPT ![c] = "owner"]
    /\ To(c, "check")
    /\ UNCHANGED <<running, handles, vcpu, pending, mbox, entry, call>>

Checks(c) ==
    /\ pc[c] = "check"
    /\ To(c, IF mbox[c] # None THEN "loop"
             ELSE IF running THEN "sleep" ELSE "unregister")
    /\ entry' = [entry EXCEPT ![c] = mbox[c]]
    /\ mbox' = [mbox EXCEPT ![c] = None]
    /\ holder' = [holder EXCEPT ![c] = IF pc'[c] = "sleep" THEN "owner" ELSE "free"]
    /\ UNCHANGED <<running, handles, vcpu, pending, call>>

\* The condition variable's wait, which gives up the lock.  It may also end
\* for no reason.
Sleeps(c) ==
    /\ pc[c] = "sleep"
    /\ holder' = [holder EXCEPT ![c] = "free"]
    /\ To(c, "wait")
    /\ UNCHANGED <<running, handles, vcpu, pending, mbox, entry, call>>

Loops(c) ==
    /\ pc[c] = "loop"
    /\ To(c, IF ~running THEN "unregister" ELSE IF c = 0 THEN "safepoint" ELSE "run")
    /\ UNCHANGED <<running, handles, vcpu, pending, mbox, holder, entry, call>>

\* vCPU 0 lets the plugin look at the guest; it may kick every vCPU.
Safepoint ==
    /\ pc[0] = "safepoint"
    /\ VcpusExit(Targets({0})) \/ pending' = pending
    /\ To(0, "run")
    /\ UNCHANGED <<running, handles, vcpu, mbox, holder, entry, call>>

\* hv_vcpu_run: a pending cancel ends it at once.
Runs(c) ==
    /\ pc[c] = "run"
    /\ To(c, IF pending[c] THEN "loop" ELSE "guest")
    /\ pending' = [pending EXCEPT ![c] = FALSE]
    /\ UNCHANGED <<running, handles, vcpu, mbox, holder, entry, call>>

Canceled(c) ==
    /\ pc[c] = "guest" /\ pending[c]
    /\ pending' = [pending EXCEPT ![c] = FALSE]
    /\ To(c, "loop")
    /\ UNCHANGED <<running, handles, vcpu, mbox, holder, entry, call>>

\* handle_exit: an exit that is serviced, or one that ends the run, as
\* SYSTEM_OFF, a failure or a panic does.
Exits(c) ==
    /\ pc[c] = "guest"
    /\ To(c, "loop") \/ To(c, "unregister")
    /\ UNCHANGED <<running, handles, vcpu, pending, mbox, holder, entry, call>>

\* CPU_ON refuses vCPU 0 and an id past the last: the call only returns.
CallsCpuOn(c) ==
    /\ pc[c] = "guest" /\ ons < MaxOns
    /\ \E t \in Secondaries, e \in Entries :
          /\ call' = [call EXCEPT ![c] = <<t, e>>]
          /\ asked' = [asked EXCEPT ![t] = @ \cup {e}]
    /\ ons' = ons + 1
    /\ To(c, "post")
    /\ UNCHANGED <<running, handles, vcpu, pending, mbox, holder, entry,
                   stopper, todo, kicks>>

\* cpu_on fills the mailbox and then wakes the secondary.
CpuOnOrder == <<"post", "notify">>

\* Mutant of MailboxOf: the mailboxes are counted from the first secondary.
MailboxOfShifted(t) == t - 1

\* The mailboxes are indexed by vCPU id.
MailboxOf(t) == t

\* One step of cpu_on for the call of `c`.
CpuOnStep(c, does) ==
    LET t == MailboxOf(call[c][1]) IN
    IF does = "post"
    THEN /\ holder[t] = "free"
         /\ mbox' = [mbox EXCEPT ![t] = call[c][2]]
         /\ pc' = [pc EXCEPT ![c] = IF pc[c] = "post" THEN "notify" ELSE "loop"]
    ELSE /\ mbox' = mbox
         /\ pc' = [pc EXCEPT ![c] = IF pc[c] = "post" THEN "notify" ELSE "loop",
                             ![t] = IF @ = "wait" THEN "lock" ELSE @]

CpuOn(c) ==
    /\ \/ pc[c] = "post" /\ CpuOnStep(c, CpuOnOrder[1])
       \/ pc[c] = "notify" /\ CpuOnStep(c, CpuOnOrder[2])
    /\ UNCHANGED <<running, handles, vcpu, pending, holder, entry, call>>

\* Mutant of LeaveOrder: the vCPU is destroyed while its handle is in the table.
LeaveOrderDestroyFirst == <<"destroy", "unregister">>

\* The registration drops before the vCPU does.
LeaveOrder == <<"unregister", "destroy">>

LeaveStep(c, does) ==
    /\ handles' = IF does = "unregister" THEN handles \ {c} ELSE handles
    /\ vcpu' = IF does = "destroy" THEN [vcpu EXCEPT ![c] = "destroyed"] ELSE vcpu

Leaves(c) ==
    /\ \/ pc[c] = "unregister" /\ LeaveStep(c, LeaveOrder[1]) /\ To(c, "destroy")
       \/ pc[c] = "destroy" /\ LeaveStep(c, LeaveOrder[2]) /\ To(c, "exited")
    /\ UNCHANGED <<running, pending, mbox, holder, entry, call>>

\* The steps of a thread that hvi, not the guest, takes.
Thread(c) ==
    /\ \/ Creates(c) \/ Registers(c) \/ Locks(c) \/ Checks(c) \/ Sleeps(c)
       \/ Loops(c) \/ (c = 0 /\ Safepoint) \/ Runs(c) \/ Canceled(c)
       \/ CpuOn(c) \/ Leaves(c)
    /\ UNCHANGED <<stopper, todo, ons, kicks, asked>>

Wakes(c) ==
    /\ pc[c] = "wait" /\ kicks < MaxKicks
    /\ kicks' = kicks + 1
    /\ To(c, "lock")
    /\ UNCHANGED <<running, handles, vcpu, pending, mbox, holder, entry, call,
                   stopper, todo, ons, asked>>

Guest(c) == Exits(c) /\ UNCHANGED <<stopper, todo, ons, kicks, asked>>

-----------------------------------------------------------------------------
(* Vcpus::stop, once a vCPU exited or a stop was requested. *)

\* The flag is cleared before the kick.
StopOrder == <<"flag", "kick">>

StopStep(does) ==
    /\ running' = IF does = "flag" THEN FALSE ELSE running
    /\ IF does = "kick" THEN VcpusExit(Targets({})) ELSE pending' = pending
    /\ UNCHANGED <<handles, vcpu, mbox, holder, pc, entry, call, ons, kicks, asked>>

Stops ==
    /\ stopper = "waits" /\ StopStep(StopOrder[1])
    /\ stopper' = "kick" /\ todo' = todo

KicksAll ==
    /\ stopper = "kick" /\ StopStep(StopOrder[2])
    /\ stopper' = "halted" /\ todo' = Secondaries

\* kick_halted takes the secondaries in order, each under its lock.
KicksHalted ==
    /\ stopper = "halted"
    /\ \E s \in todo :
          /\ \A u \in todo : s <= u
          /\ holder[s] = "free"
          /\ todo' = todo \ {s}
          /\ pc' = [pc EXCEPT ![s] = IF @ = "wait" THEN "lock" ELSE @]
    /\ stopper' = IF todo' = {} THEN "done" ELSE "halted"
    /\ UNCHANGED <<running, handles, vcpu, pending, mbox, holder, entry, call,
                   ons, kicks, asked>>

Done == (\A c \in Cpus : pc[c] = "exited") /\ stopper = "done" /\ UNCHANGED vars

Next ==
    \/ HostKicks \/ Stops \/ KicksAll \/ KicksHalted \/ Done
    \/ \E c \in Cpus : Thread(c) \/ Wakes(c) \/ Guest(c) \/ CallsCpuOn(c)

Spec == Init /\ [][Next]_vars

\* The threads of hvi go on, and a stop that began; the guest may run for ever.
FairSpec ==
    /\ Spec
    /\ WF_vars(KicksAll) /\ WF_vars(KicksHalted)
    /\ \A c \in Cpus : WF_vars(Thread(c))

-----------------------------------------------------------------------------
(* Properties. *)

\* Every kick reaches every vCPU in its list: no handle in the table is of a
\* vCPU that was destroyed.
KickReaches == \A c \in handles : vcpu[c] = "created"

\* A secondary starts only where a CPU_ON for it asked.
StartsAsAsked == \A c \in Secondaries : entry[c] # None => entry[c] \in asked[c]

=============================================================================
