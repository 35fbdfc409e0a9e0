----------------------------- MODULE SafePoint -----------------------------
(***************************************************************************)
(* What the vCPU threads of a run promise to a plugin and to the thread    *)
(* that called `boot`, with no mention of flags, kicks or locks.           *)
(*                                                                         *)
(* While the boot vCPU holds a pause, no vCPU executes guest code and no   *)
(* exit is being serviced, so an observation sees a still guest            *)
(* (hypervisor/quiesce.rs).  Once the stop has gone out, no vCPU executes  *)
(* guest code ever again, though exits may still be serviced               *)
(* (Vcpus::stop).                                                          *)
(***************************************************************************)
CONSTANT Cpu               \* the vCPUs of the VM

VARIABLES inGuest,         \* the vCPUs that execute guest code
          served,          \* the vCPUs whose exit is being serviced
          still,           \* whether the boot vCPU holds a pause
          over             \* whether the stop has gone out to every vCPU

absVars == <<inGuest, served, still, over>>

AbsInit == inGuest = {} /\ served = {} /\ still = FALSE /\ over = FALSE

\* A vCPU enters the guest, unless a pause is held or the run is over.
Enter(v) ==
    /\ v \notin inGuest \cup served /\ ~still /\ ~over
    /\ inGuest' = inGuest \cup {v}
    /\ UNCHANGED <<served, still, over>>

\* A kick takes a vCPU out of the guest.
Leave(v) ==
    /\ v \in inGuest
    /\ inGuest' = inGuest \ {v}
    /\ UNCHANGED <<served, still, over>>

\* A vCPU exits from the guest by itself, to be serviced.
Exit(v) ==
    /\ v \in inGuest
    /\ inGuest' = inGuest \ {v} /\ served' = served \cup {v}
    /\ UNCHANGED <<still, over>>

\* Its exit has been serviced.
Serviced(v) ==
    /\ v \in served
    /\ served' = served \ {v}
    /\ UNCHANGED <<inGuest, still, over>>

\* A pause succeeds, with every vCPU out of the guest and no exit in service.
Hold ==
    /\ ~still /\ inGuest = {} /\ served = {}
    /\ still' = TRUE
    /\ UNCHANGED <<inGuest, served, over>>

\* The plugin resumes the guest, or its thread unwinds from a panic.
Resume ==
    /\ still
    /\ still' = FALSE
    /\ UNCHANGED <<inGuest, served, over>>

\* The stop has reached every vCPU, and none is left in the guest.
StopGuest ==
    /\ ~over /\ inGuest = {}
    /\ over' = TRUE
    /\ UNCHANGED <<inGuest, served, still>>

AbsNext ==
    \/ \E v \in Cpu : Enter(v) \/ Leave(v) \/ Exit(v) \/ Serviced(v)
    \/ Hold
    \/ Resume
    \/ StopGuest

AbsSpec == AbsInit /\ [][AbsNext]_absVars
=============================================================================
