-------------------------------- MODULE Boot --------------------------------
(***************************************************************************)
(* A boot of each backend (arch/*/boot.rs, start_io_threads and run_guest  *)
(* in hypervisor/kvm.rs), the run slot (lib.rs, run/supervisor.rs), the    *)
(* plugin's attach (hypervisor/guest.rs), and the confinement the boot     *)
(* puts in place: a seccomp filter for each thread on Linux                *)
(* (sandbox/seccomp.rs), a Seatbelt profile for the process on macOS.      *)
(*                                                                         *)
(* A boot is a sequence of steps, each of which may fail.  Of the host     *)
(* calls of a step only the kinds the confinement tells apart are kept.  A *)
(* process boots guests one after another from threads of its own, which   *)
(* started before any filter was in.                                       *)
(***************************************************************************)
EXTENDS Naturals, Sequences, FiniteSets, TLC

CONSTANTS Callers,         \* the threads that call boot
          MaxBoots         \* a bound on the calls to boot

\* The threads of a run that serve the guest, and those that may outlive it.
RunThreads == {"io", "plugin", "vcpu", "conn"}
Helpers    == {"writer", "signals"}
Threads    == Callers \cup RunThreads \cup Helpers

VARIABLES
    backend,               \* "x86", "arm64" or "hvf"
    gnu,                   \* whether the Linux build is a glibc one
    runSlot,               \* RUN_SLOT: "free", "held" or "kept"
    entered,               \* whether the sandbox is on in the process
    profile,               \* whether the Seatbelt profile confines the process
    filters,               \* the filters of each thread, in order
    installed,             \* INSTALLED of each thread
    st,                    \* each thread: "none", "new", "works"
    pass,                  \* whether a helper's pass began with the sandbox on
    pc,                    \* the step each caller has reached, 0 outside boot
    sandbox,               \* cfg.sandbox of the boot
    queue,                 \* the plugin's threads: "closed", "empty", "asked"
    ledger,                \* "none", "open" or "closed"
    kept,                  \* whether the plugin kept its handle on the guest
    stopping,              \* whether the caller's own filter failed to install
    raw,                   \* whether the terminal is in raw mode
    handlers,              \* of the stop signals: "unasked", "asked" or "in"
    boots,                 \* the number of calls so far
    died                   \* "no", "denied" or "abort"

confinement == <<entered, profile, filters, installed>>
vars == <<backend, gnu, runSlot, confinement, st, pass, pc, sandbox, queue,
          ledger, kept, stopping, raw, handlers, boots, died>>

-----------------------------------------------------------------------------
(* The steps of each backend, in order. *)

X86Devices   == <<"checks", "vm", "disks", "net", "exports">>
X86Machine   == <<"load", "ledger">>
Arm64Devices == <<"checks", "vm", "disks", "net", "exports">>
Arm64Machine == <<"ledger", "load">>
HvfDevices   == <<"checks", "vm", "disks", "net", "bind">>
HvfMachine   == <<"exports", "ledger", "load">>

\* Mutant of KvmIo: the filters are armed once the I/O threads run.
KvmIoArmLate == <<"attach", "signals", "bind", "io", "arm">>

\* start_io_threads.
KvmIo == <<"attach", "arm", "signals", "bind", "io">>

\* run_guest.
KvmRun == <<"raw", "record", "vcpus", "filter", "run">>

HvfRun == <<"attach", "signals", "raw", "profile", "io", "record", "vcpus",
            "run">>

X86Steps   == X86Devices \o X86Machine \o KvmIo \o KvmRun
Arm64Steps == Arm64Devices \o Arm64Machine \o KvmIo \o KvmRun
HvfSteps   == HvfDevices \o HvfMachine \o HvfRun

Steps == CASE backend = "x86" -> X86Steps
           [] backend = "arm64" -> Arm64Steps
           [] OTHER -> HvfSteps

\* The host calls a step makes.
Calls(step) ==
    CASE step \in {"vm", "disks", "load"} -> {"open"}
      [] step \in {"net", "exports"} -> {"open", "socket"}
      [] step = "ledger" -> {"open", "clone"}
      [] step = "bind" -> {"socket"}
      [] step \in {"signals", "io", "vcpus"} -> {"clone"}
      [] OTHER -> {"write"}

-----------------------------------------------------------------------------
(* The filters. *)

\* programs: a glibc build puts the filter that refuses an open first.
ProgramsOf(kind) == IF gnu THEN <<"refusal", kind>> ELSE <<kind>>

\* allowlist: what each filter lets through.  Neither list has seccomp.
Allows(filter) ==
    CASE filter = "refusal" -> {"open", "socket", "clone", "write", "seccomp"}
      [] filter = "vmm" -> {"clone", "write"} \cup (IF gnu THEN {"open"} ELSE {})
      [] filter = "vcpu" -> {"write"} \cup (IF gnu THEN {"open"} ELSE {})

\* The verdict on a call: the kernel takes the strictest of the filters.
Verdict(fs, call) ==
    IF \E i \in 1..Len(fs) : call \notin Allows(fs[i]) THEN "trap"
    ELSE IF call = "open" /\ \E i \in 1..Len(fs) : fs[i] = "refusal" THEN "refused"
    ELSE IF profile /\ call \in {"open", "socket"} THEN "refused"
    ELSE "ok"

\* install: one seccomp call for each program.
InstallTraps(fs, kind) ==
    \E i \in 1..Len(ProgramsOf(kind)) :
        Verdict(fs \o SubSeq(ProgramsOf(kind), 1, i - 1), "seccomp") = "trap"

\* A thread counts as filtered once its first filter is in.
Counts(n, kind) == n > 0

\* `t` installs the first n filters of `kind`; the kernel refuses the next one,
\* if there is one, and then the process is as `refused` says.
Install(t, kind, n, refused) ==
    IF InstallTraps(filters[t], kind)
    THEN died' = "denied" /\ UNCHANGED <<filters, installed>>
    ELSE /\ filters' = [filters EXCEPT ![t] = @ \o SubSeq(ProgramsOf(kind), 1, n)]
         /\ installed' = [installed EXCEPT ![t] = @ \/ Counts(n, kind)]
         /\ died' = IF n = Len(ProgramsOf(kind)) THEN died ELSE refused

\* install_thread: nothing before arm, nor on a thread that has filters; it
\* aborts when the kernel refuses.
InstallThread(t, kind) ==
    IF ~entered \/ profile \/ installed[t]
    THEN UNCHANGED <<filters, installed, died>>
    ELSE \E n \in 0..Len(ProgramsOf(kind)) : Install(t, kind, n, "abort")

-----------------------------------------------------------------------------
Init ==
    /\ backend \in {"x86", "arm64", "hvf"}
    /\ gnu \in (IF backend = "hvf" THEN {FALSE} ELSE BOOLEAN)
    /\ runSlot = "free" /\ entered = FALSE /\ profile = FALSE
    /\ filters = [t \in Threads |-> <<>>]
    /\ installed = [t \in Threads |-> FALSE]
    /\ st = [t \in Threads |-> IF t \in Callers THEN "works" ELSE "none"]
    /\ pass = [t \in Helpers |-> FALSE]
    /\ pc = [c \in Callers |-> 0]
    /\ sandbox = FALSE
    /\ queue = "closed" /\ ledger = "none" /\ kept = FALSE
    /\ stopping = FALSE /\ raw = FALSE
    /\ handlers \in {"unasked", "asked"}
    /\ boots = 0 /\ died = "no"

At(c, step) == pc[c] > 0 /\ Steps[pc[c]] = step
Goes(c)     == pc' = [pc EXCEPT ![c] = @ + 1]

\* `c` starts thread `t`, which inherits its filters.
Spawns(c, ts) ==
    /\ st' = [t \in Threads |-> IF t \in ts THEN "new" ELSE st[t]]
    /\ filters' = [t \in Threads |-> IF t \in ts THEN filters[c] ELSE filters[t]]
    /\ installed' = [t \in Threads |-> IF t \in ts THEN FALSE ELSE installed[t]]

\* check_run and check_thread.
Refuses(c, sb) == (entered /\ ~sb) \/ installed[c] \/ profile

\* boot claims the slot and checks that the run can start.
Claim(c, sb) ==
    /\ pc[c] = 0 /\ runSlot = "free" /\ boots < MaxBoots
    /\ boots' = boots + 1
    /\ IF Refuses(c, sb)
       THEN UNCHANGED <<runSlot, pc, sandbox, queue, ledger, kept, stopping>>
       ELSE /\ runSlot' = "held" /\ sandbox' = sb
            /\ pc' = [pc EXCEPT ![c] = 1]
            /\ queue' = "empty" /\ ledger' = "none" /\ kept' = FALSE
            /\ stopping' = FALSE
    /\ UNCHANGED <<backend, gnu, confinement, st, pass, raw, handlers, died>>

\* The calls of the step under the caller's filters.
CallsAllowed(c) == \A k \in Calls(Steps[pc[c]]) : Verdict(filters[c], k) = "ok"

\* A step that only acquires, or loads what it acquired.
Acquires(c) ==
    /\ pc[c] > 0
    /\ Steps[pc[c]] \in {"checks", "vm", "disks", "net", "exports", "load",
                         "bind", "record"}
    /\ Goes(c)
    /\ UNCHANGED <<confinement, st, pass, queue, ledger, kept, raw, handlers>>

\* Ledger::new starts the writer.  The writer of an earlier ledger, which is
\* not joined and may be in its last pass, is not followed any further.
OpensLedger(c) ==
    /\ At(c, "ledger")
    /\ ledger' = "open"
    /\ Spawns(c, {"writer"})
    /\ Goes(c)
    /\ UNCHANGED <<entered, profile, pass, queue, kept, raw, handlers>>

\* attach: the plugin may ask for a thread and keep its handle; the queue is
\* taken either way.
Attaches(c) ==
    /\ At(c, "attach")
    /\ kept' \in BOOLEAN
    /\ queue' \in {"empty", "asked"}
    /\ Goes(c)
    /\ UNCHANGED <<confinement, st, pass, ledger, raw, handlers>>

\* Filters::arm.
Arms(c) ==
    /\ At(c, "arm")
    /\ entered' = (entered \/ sandbox)
    /\ Goes(c)
    /\ UNCHANGED <<profile, filters, installed, st, pass, queue, ledger, kept,
                   raw, handlers>>

\* start_stop_signal_thread: nothing in a program that did not ask for it with
\* stop_on_signals; the thread of an earlier run serves this one.
StartsSignals(c) ==
    /\ At(c, "signals")
    /\ handlers' = IF handlers = "unasked" THEN handlers ELSE "in"
    /\ IF handlers # "unasked" /\ st["signals"] = "none"
       THEN Spawns(c, {"signals"})
       ELSE UNCHANGED <<st, filters, installed>>
    /\ Goes(c)
    /\ UNCHANGED <<entered, profile, pass, queue, ledger, kept, raw>>

\* IoThreads::start, with the threads the plugin asked for.
StartsIo(c) ==
    /\ At(c, "io")
    /\ Spawns(c, {"io"} \cup (IF queue = "asked" THEN {"plugin"} ELSE {}))
    /\ queue' = "closed"
    /\ Goes(c)
    /\ UNCHANGED <<entered, profile, pass, ledger, kept, raw, handlers>>

EnablesRaw(c) ==
    /\ At(c, "raw")
    /\ raw' = TRUE
    /\ Goes(c)
    /\ UNCHANGED <<confinement, st, pass, queue, ledger, kept, handlers>>

\* seatbelt::enter_with_shares.
EntersProfile(c) ==
    /\ At(c, "profile")
    /\ entered' = (entered \/ sandbox) /\ profile' = (profile \/ sandbox)
    /\ Goes(c)
    /\ UNCHANGED <<filters, installed, st, pass, queue, ledger, kept, raw,
                   handlers>>

StartsVcpus(c) ==
    /\ At(c, "vcpus")
    /\ Spawns(c, {"vcpu"})
    /\ Goes(c)
    /\ UNCHANGED <<entered, profile, pass, queue, ledger, kept, raw, handlers>>

\* Filters::install.  A failure stops the guest that is already running.
FiltersItself(c) ==
    /\ At(c, "filter")
    /\ IF sandbox
       THEN \E n \in 0..Len(ProgramsOf("vmm")) :
               /\ Install(c, "vmm", n, died)
               /\ stopping' = (n < Len(ProgramsOf("vmm")))
       ELSE UNCHANGED <<filters, installed, died, stopping>>
    /\ Goes(c)
    /\ UNCHANGED <<entered, profile, st, pass, queue, ledger, kept, raw, handlers>>

Step(c) ==
    /\ \/ /\ \/ Acquires(c) \/ OpensLedger(c) \/ Attaches(c) \/ Arms(c)
             \/ StartsSignals(c) \/ StartsIo(c) \/ EnablesRaw(c)
             \/ EntersProfile(c) \/ StartsVcpus(c)
          /\ died' = IF CallsAllowed(c) THEN died ELSE "denied"
          /\ stopping' = stopping
       \/ FiltersItself(c)
    /\ UNCHANGED <<backend, gnu, runSlot, sandbox, boots>>

\* Mutant of LedgerAfterFailure: a plugin that kept the guest keeps its ledger.
LedgerAfterFailureKept == IF kept THEN ledger ELSE "closed"

\* LedgerCloseGuard, or the drop of a ledger no plugin has.
LedgerAfterFailure == "closed"

\* A step before the run fails, and what boot holds is dropped.
Fails(c) ==
    /\ pc[c] > 0
    /\ Steps[pc[c]] \in {"checks", "vm", "disks", "net", "exports", "load",
                         "ledger", "attach", "arm", "signals", "bind", "profile"}
    /\ pc' = [pc EXCEPT ![c] = 0]
    /\ runSlot' = "free"
    /\ ledger' = IF ledger = "none" THEN "none" ELSE LedgerAfterFailure
    /\ queue' = "closed" /\ raw' = FALSE
    /\ UNCHANGED <<backend, gnu, confinement, st, pass, sandbox, kept, stopping,
                   handlers, boots, died>>

\* Mutant of SlotAfter: the slot is free whatever the run left.
SlotAfterFree(left) == "free"

\* RunClaim::drop: kept when the run left a thread running or panicked.
SlotAfter(left) == IF left THEN "kept" ELSE "free"

\* run_to_stop returns: the threads of the run have exited, or some are left
\* running; the ledger is closed and the terminal restored.
Ends(c) ==
    /\ At(c, "run")
    /\ \E left \in SUBSET {t \in RunThreads : st[t] # "none"} :
          /\ st' = [t \in Threads |->
                       IF t \in RunThreads \ left THEN "none" ELSE st[t]]
          /\ runSlot' = SlotAfter(left # {})
    /\ pc' = [pc EXCEPT ![c] = 0]
    /\ ledger' = "closed" /\ raw' = FALSE
    /\ UNCHANGED <<backend, gnu, confinement, pass, sandbox, queue, kept,
                   stopping, handlers, boots, died>>

\* The thread that called boot panics in the run, in a build that unwinds.
PanicsInRun(c) ==
    /\ At(c, "run")
    /\ runSlot' = SlotAfter(TRUE)
    /\ pc' = [pc EXCEPT ![c] = 0]
    /\ ledger' = "closed" /\ raw' = FALSE
    /\ UNCHANGED <<backend, gnu, confinement, st, pass, sandbox, queue, kept,
                   stopping, handlers, boots, died>>

-----------------------------------------------------------------------------
(* The other threads. *)

KindOf(t) == IF t = "vcpu" THEN "vcpu" ELSE "vmm"

rest == <<backend, gnu, runSlot, entered, profile, pc, sandbox, queue, ledger,
          kept, stopping, raw, handlers, boots>>

\* A thread filters itself before it serves the guest.
Begins(t) ==
    /\ t \in {"io", "plugin", "vcpu"} /\ st[t] = "new"
    /\ InstallThread(t, KindOf(t))
    /\ st' = IF died' = "no" THEN [st EXCEPT ![t] = "works"] ELSE st
    /\ UNCHANGED <<rest, pass>>

\* The bridge's readers inherit the filter of the bridge and ask for none.
Accepts ==
    /\ st["io"] = "works" /\ st["conn"] = "none"
    /\ st' = [st EXCEPT !["conn"] = "works"]
    /\ filters' = [filters EXCEPT !["conn"] = filters["io"]]
    /\ installed' = [installed EXCEPT !["conn"] = FALSE]
    /\ died' = IF Verdict(filters["io"], "clone") = "ok" THEN died ELSE "denied"
    /\ UNCHANGED <<rest, pass>>

\* A pass of the ledger's writer or the stop-signal thread: it confines itself,
\* and then acts.
Confines(t) ==
    /\ t \in Helpers /\ st[t] = "new"
    /\ InstallThread(t, "vmm")
    /\ pass' = [pass EXCEPT ![t] = entered]
    /\ st' = IF died' = "no" THEN [st EXCEPT ![t] = "works"] ELSE st
    /\ UNCHANGED rest

Acts(t) ==
    /\ t \in Helpers /\ st[t] = "works"
    /\ st' = [st EXCEPT ![t] = IF t = "writer" /\ ledger = "closed"
                               THEN "none" ELSE "new"]
    /\ died' = IF Verdict(filters[t], "write") = "ok" THEN died ELSE "denied"
    /\ UNCHANGED <<rest, filters, installed, pass>>

Idle == (died # "no" \/ boots = MaxBoots) /\ UNCHANGED vars

Next ==
    \/ /\ died = "no"
       /\ \/ \E c \in Callers, sb \in BOOLEAN : Claim(c, sb)
          \/ \E c \in Callers : Step(c) \/ Fails(c) \/ Ends(c) \/ PanicsInRun(c)
          \/ \E t \in Threads : Begins(t) \/ Confines(t) \/ Acts(t)
          \/ Accepts
    \/ Idle

Spec == Init /\ [][Next]_vars

-----------------------------------------------------------------------------
(* Properties. *)

Confined(t) == profile \/ \E i \in 1..Len(filters[t]) : filters[t][i] # "refusal"

\* No step of hvi makes a call its own confinement traps or refuses: all is
\* acquired before, no filter goes in under an allowlist, and no thread filters
\* itself twice.
NeverDenied == died # "denied"

\* Once the sandbox is on in the process, a thread that serves the guest runs
\* only confined, whatever runs came before with the sandbox off.
ServesConfined ==
    entered => \A t \in RunThreads : st[t] = "works" => Confined(t)

\* The ledger's writer and the stop-signal thread, which may have started
\* before the filters were armed, act confined from their next pass on.
HelpersConfined ==
    \A t \in Helpers : (st[t] = "works" /\ pass[t]) => Confined(t)

\* Once the sandbox is on in the process, the thread that called boot waits for
\* the run confined, unless its filter failed and the run is being stopped.
CallerConfined ==
    \A c \in Callers : (At(c, "run") /\ entered /\ ~stopping) => Confined(c)

\* One run at a time, and none after one that left a thread behind.
OneRun ==
    /\ Cardinality({c \in Callers : pc[c] > 0}) <= 1
    /\ (runSlot = "free" => \A t \in RunThreads : st[t] = "none")

\* A boot that failed, or a run that ended, leaves its ledger closed, though
\* the plugin kept a handle on the guest, so a later run can open the file.
LedgerReleased == runSlot = "free" => ledger # "open"

\* In a program that asked for it, the terminal is raw only while the stop
\* signals have their handlers, so a first signal stops the run rather than the
\* process.
RawHasHandlers == raw => handlers # "asked"
=============================================================================
