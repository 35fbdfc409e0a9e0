---------------------------- MODULE Vcpus_proofs ----------------------------
(***************************************************************************)
(* Proofs about Vcpus, for every number of vCPUs and of host kicks.  Inv   *)
(* is inductive: each of its conjuncts is preserved by every action, one   *)
(* lemma per conjunct.  The safety properties and the refinement of        *)
(* SafePoint follow from it.                                               *)
(***************************************************************************)
EXTENDS Vcpus, FiniteSetTheorems, TLAPS

\* Zenon proves what follows by logic alone; the leaves that need arithmetic or
\* functions name SMT.
USE Zenon

\* Any set of vCPUs is finite and has at most N members.
LEMMA CpuSubsets ==
  ASSUME NEW S \in SUBSET Cpus
  PROVE  IsFiniteSet(S) /\ Cardinality(S) \in 0 .. N
<1>1. IsFiniteSet(Cpus) /\ Cardinality(Cpus) = N
  BY CountAssumption, FS_Interval, SMTT(30) DEF Cpus
<1>2. IsFiniteSet(S) /\ Cardinality(S) <= N
  BY <1>1, FS_Subset
<1>3. Cardinality(S) \in Nat
  BY <1>2, FS_CardinalityType
<1> QED BY <1>2, <1>3, CountAssumption, SMTT(30)

\* The boot vCPU exists.
LEMMA BootVcpu == 0 \in Cpus
  BY CountAssumption, SMTT(30) DEF Cpus

\* When the parked vCPUs are as many as the started ones but the boot vCPU,
\* they are the started ones but the boot vCPU.  A counter that reached its
\* target by counting another vCPU would break a pause.
LEMMA EveryoneParked ==
  ASSUME Inv, 0 \in StartedSet, parked >= started - 1
  PROVE  ParkedSet = StartedSet \ {0}
<1>1. /\ ParkedSet \in SUBSET (StartedSet \ {0})
      /\ StartedSet \in SUBSET Cpus /\ ParkedSet \in SUBSET Cpus
  BY DEF Inv, RolesOK, StartedSet, ParkedSet
<1>2. IsFiniteSet(StartedSet \ {0}) /\ IsFiniteSet(StartedSet)
  BY <1>1, CpuSubsets
<1>3. Cardinality(StartedSet \ {0}) = started - 1
  BY <1>2, FS_RemoveElement DEF Inv, CountsAgree
<1>4. Cardinality(ParkedSet) <= Cardinality(StartedSet \ {0})
  BY <1>1, <1>2, FS_Subset
<1>5. Cardinality(ParkedSet) \in Nat /\ Cardinality(StartedSet) \in Nat
  BY <1>1, CpuSubsets, SMTT(30)
<1>6. Cardinality(ParkedSet) = Cardinality(StartedSet \ {0})
  BY <1>3, <1>4, <1>5, SMTT(30) DEF Inv, CountsAgree
<1> QED BY <1>1, <1>2, <1>6, FS_Subset

-----------------------------------------------------------------------------
(* Every conjunct of Inv is preserved by every action. *)

\* The counters keep counting the vCPUs they say they count.
LEMMA CountsInd ==
  ASSUME Inv, [Next]_vars
  PROVE  CountsAgree'
<1> USE BootVcpu
         DEF Inv, TypeOK, RolesOK, vars, rest, quiesce, table, round, stop,
             Go, LockTable, UnlockTable, CheckRequest, NotifyAll,
             AfterCheckpoint
<1>0. IsFiniteSet(StartedSet) /\ IsFiniteSet(ParkedSet)
  <2> StartedSet \in SUBSET Cpus /\ ParkedSet \in SUBSET Cpus
    BY DEF StartedSet, ParkedSet
  <2> QED BY CpuSubsets
<1>1. ASSUME NEW c \in Cpus, Spawn(c) PROVE CountsAgree'
  <2>1. StartedSet' = StartedSet /\ ParkedSet' = ParkedSet
    BY <1>1 DEF Spawn, StartedSet, ParkedSet
  <2> QED BY <1>1, <2>1 DEF Spawn, CountsAgree
<1>2. ASSUME NEW c \in Cpus, Register(c) PROVE CountsAgree'
  <2>1. StartedSet' = StartedSet /\ ParkedSet' = ParkedSet
    BY <1>2 DEF Register, StartedSet, ParkedSet
  <2> QED BY <1>2, <2>1 DEF Register, CountsAgree
<1>3. ASSUME NEW c \in Cpus, MarkStarted(c) PROVE CountsAgree'
  <2>1. c \notin StartedSet /\ ParkedSet' = ParkedSet
    BY <1>3 DEF MarkStarted, StartedSet, ParkedSet
  <2>2. StartedSet' = StartedSet \cup {c}
    BY <1>3 DEF MarkStarted, StartedSet
  <2>3. Cardinality(StartedSet \cup {c}) = Cardinality(StartedSet) + 1
    BY <2>1, <1>0, FS_AddElement
  <2> QED BY <1>3, <2>1, <2>2, <2>3 DEF MarkStarted, CountsAgree
<1>4. ASSUME NEW c \in Cpus, ClearExit(c) PROVE CountsAgree'
  <2>1. StartedSet' = StartedSet /\ ParkedSet' = ParkedSet
    BY <1>4 DEF ClearExit, StartedSet, ParkedSet
  <2> QED BY <1>4, <2>1 DEF ClearExit, CountsAgree
<1>5. ASSUME NEW c \in Cpus, CheckRunning(c) PROVE CountsAgree'
  <2>1. StartedSet' = StartedSet /\ ParkedSet' = ParkedSet
    BY <1>5 DEF CheckRunning, StartedSet, ParkedSet
  <2> QED BY <1>5, <2>1 DEF CheckRunning, CountsAgree
<1>6. ASSUME NEW c \in Cpus, Checkpoint(c) PROVE CountsAgree'
  <2>1. StartedSet' = StartedSet /\ ParkedSet' = ParkedSet
    BY <1>6 DEF Checkpoint, StartedSet, ParkedSet
  <2> QED BY <1>6, <2>1 DEF Checkpoint, CountsAgree
<1>7. ASSUME NEW c \in Cpus, Park(c) PROVE CountsAgree'
  <2>1. c \notin ParkedSet /\ StartedSet' = StartedSet
    BY <1>7 DEF Park, StartedSet, ParkedSet
  <2>2. ParkedSet' = ParkedSet \cup {c}
    BY <1>7 DEF Park, ParkedSet
  <2>3. Cardinality(ParkedSet \cup {c}) = Cardinality(ParkedSet) + 1
    BY <2>1, <1>0, FS_AddElement
  <2> QED BY <1>7, <2>1, <2>2, <2>3 DEF Park, CountsAgree
<1>8. ASSUME NEW c \in Cpus, WaitParked(c) PROVE CountsAgree'
  <2>1. c \in ParkedSet /\ StartedSet' = StartedSet
    BY <1>8 DEF WaitParked, StartedSet, ParkedSet
  <2>2. ParkedSet' = IF requested THEN ParkedSet ELSE ParkedSet \ {c}
    BY <1>8 DEF WaitParked, ParkedSet
  <2>3. Cardinality(ParkedSet \ {c}) = Cardinality(ParkedSet) - 1
    BY <2>1, <1>0, FS_RemoveElement
  <2> QED BY <1>8, <2>1, <2>2, <2>3 DEF WaitParked, CountsAgree
<1>9. ASSUME NEW c \in Cpus, WakeParked(c) PROVE CountsAgree'
  <2>1. c \in ParkedSet /\ StartedSet' = StartedSet
    BY <1>9 DEF WakeParked, StartedSet, ParkedSet
  <2>2. ParkedSet' = IF requested THEN ParkedSet ELSE ParkedSet \ {c}
    BY <1>9 DEF WakeParked, ParkedSet
  <2>3. Cardinality(ParkedSet \ {c}) = Cardinality(ParkedSet) - 1
    BY <2>1, <1>0, FS_RemoveElement
  <2> QED BY <1>9, <2>1, <2>2, <2>3 DEF WakeParked, CountsAgree
<1>10. ASSUME NEW c \in Cpus, EnterGuest(c) PROVE CountsAgree'
  <2>1. StartedSet' = StartedSet /\ ParkedSet' = ParkedSet
    BY <1>10 DEF EnterGuest, StartedSet, ParkedSet
  <2> QED BY <1>10, <2>1 DEF EnterGuest, CountsAgree
<1>11. ASSUME NEW c \in Cpus, Interrupted(c) PROVE CountsAgree'
  <2>1. StartedSet' = StartedSet /\ ParkedSet' = ParkedSet
    BY <1>11 DEF Interrupted, StartedSet, ParkedSet
  <2> QED BY <1>11, <2>1 DEF Interrupted, CountsAgree
<1>12. ASSUME NEW c \in Cpus, GuestExit(c) PROVE CountsAgree'
  <2>1. StartedSet' = StartedSet /\ ParkedSet' = ParkedSet
    BY <1>12 DEF GuestExit, StartedSet, ParkedSet
  <2> QED BY <1>12, <2>1 DEF GuestExit, CountsAgree
<1>13. ASSUME NEW c \in Cpus, Service(c) PROVE CountsAgree'
  <2>1. StartedSet' = StartedSet /\ ParkedSet' = ParkedSet
    BY <1>13 DEF Service, StartedSet, ParkedSet
  <2> QED BY <1>13, <2>1 DEF Service, CountsAgree
<1>14. ASSUME NEW c \in Cpus, DaemonAnswer(c) PROVE CountsAgree'
  <2>1. StartedSet' = StartedSet /\ ParkedSet' = ParkedSet
    BY <1>14 DEF DaemonAnswer, StartedSet, ParkedSet
  <2> QED BY <1>14, <2>1 DEF DaemonAnswer, CountsAgree
<1>15. ASSUME NEW c \in Cpus, DaemonGone(c) PROVE CountsAgree'
  <2>1. StartedSet' = StartedSet /\ ParkedSet' = ParkedSet
    BY <1>15 DEF DaemonGone, StartedSet, ParkedSet
  <2> QED BY <1>15, <2>1 DEF DaemonGone, CountsAgree
<1>16. ASSUME NEW c \in Cpus, Deregister(c) PROVE CountsAgree'
  <2>1. StartedSet' = StartedSet /\ ParkedSet' = ParkedSet
    BY <1>16 DEF Deregister, StartedSet, ParkedSet
  <2> QED BY <1>16, <2>1 DEF Deregister, CountsAgree
<1>17. ASSUME NEW c \in Cpus, KickStore(c) PROVE CountsAgree'
  <2>1. StartedSet' = StartedSet /\ ParkedSet' = ParkedSet
    BY <1>17 DEF KickStore, StartedSet, ParkedSet
  <2> QED BY <1>17, <2>1 DEF KickStore, CountsAgree
<1>18. ASSUME NEW c \in Cpus, KickSignal(c) PROVE CountsAgree'
  <2>1. StartedSet' = StartedSet /\ ParkedSet' = ParkedSet
    BY <1>18 DEF KickSignal, StartedSet, ParkedSet
  <2> QED BY <1>18, <2>1 DEF KickSignal, CountsAgree
<1>19. CASE HostKick
  <2>1. StartedSet' = StartedSet /\ ParkedSet' = ParkedSet
    BY <1>19 DEF HostKick, StartedSet, ParkedSet
  <2> QED BY <1>19, <2>1 DEF HostKick, CountsAgree
<1>20. CASE HostKicked
  <2>1. StartedSet' = StartedSet /\ ParkedSet' = ParkedSet
    BY <1>20 DEF HostKicked, StartedSet, ParkedSet
  <2> QED BY <1>20, <2>1 DEF HostKicked, CountsAgree
<1>21. CASE SafepointReturn
  <2>1. StartedSet' = StartedSet /\ ParkedSet' = ParkedSet
    BY <1>21 DEF SafepointReturn, StartedSet, ParkedSet
  <2> QED BY <1>21, <2>1 DEF SafepointReturn, CountsAgree
<1>22. CASE PauseRequest
  <2>1. StartedSet' = StartedSet /\ ParkedSet' = ParkedSet
    BY <1>22 DEF PauseRequest, StartedSet, ParkedSet
  <2> QED BY <1>22, <2>1 DEF PauseRequest, CountsAgree
<1>23. CASE PauseKick
  <2>1. StartedSet' = StartedSet /\ ParkedSet' = ParkedSet
    BY <1>23 DEF PauseKick, StartedSet, ParkedSet
  <2> QED BY <1>23, <2>1 DEF PauseKick, CountsAgree
<1>24. CASE PauseKicked
  <2>1. StartedSet' = StartedSet /\ ParkedSet' = ParkedSet
    BY <1>24 DEF PauseKicked, StartedSet, ParkedSet
  <2> QED BY <1>24, <2>1 DEF PauseKicked, CountsAgree
<1>25. CASE PauseAwait
  <2>1. StartedSet' = StartedSet /\ ParkedSet' = ParkedSet
    BY <1>25 DEF PauseAwait, StartedSet, ParkedSet
  <2> QED BY <1>25, <2>1 DEF PauseAwait, CountsAgree
<1>26. CASE PauseExpires
  <2>1. StartedSet' = StartedSet /\ ParkedSet' = ParkedSet
    BY <1>26 DEF PauseExpires, StartedSet, ParkedSet
  <2> QED BY <1>26, <2>1 DEF PauseExpires, CountsAgree
<1>27. CASE PauseConfirm
  <2>1. StartedSet' = StartedSet /\ ParkedSet' = ParkedSet
    BY <1>27 DEF PauseConfirm, StartedSet, ParkedSet
  <2> QED BY <1>27, <2>1 DEF PauseConfirm, CountsAgree
<1>28. CASE PauseRelease
  <2>1. StartedSet' = StartedSet /\ ParkedSet' = ParkedSet
    BY <1>28 DEF PauseRelease, StartedSet, ParkedSet
  <2> QED BY <1>28, <2>1 DEF PauseRelease, CountsAgree
<1>29. CASE PauseNotify
  <2>1. StartedSet' = StartedSet /\ ParkedSet' = ParkedSet
    BY <1>29 DEF PauseNotify, StartedSet, ParkedSet
  <2> QED BY <1>29, <2>1 DEF PauseNotify, CountsAgree
<1>30. CASE PluginPanic
  <2>1. StartedSet' = StartedSet /\ ParkedSet' = ParkedSet
    BY <1>30 DEF PluginPanic, StartedSet, ParkedSet
  <2> QED BY <1>30, <2>1 DEF PluginPanic, CountsAgree
<1>31. CASE StopSwap
  <2>1. StartedSet' = StartedSet /\ ParkedSet' = ParkedSet
    BY <1>31 DEF StopSwap, StartedSet, ParkedSet
  <2> QED BY <1>31, <2>1 DEF StopSwap, CountsAgree
<1>32. CASE StopKick
  <2>1. StartedSet' = StartedSet /\ ParkedSet' = ParkedSet
    BY <1>32 DEF StopKick, StartedSet, ParkedSet
  <2> QED BY <1>32, <2>1 DEF StopKick, CountsAgree
<1>33. CASE StopKicked
  <2>1. StartedSet' = StartedSet /\ ParkedSet' = ParkedSet
    BY <1>33 DEF StopKicked, StartedSet, ParkedSet
  <2> QED BY <1>33, <2>1 DEF StopKicked, CountsAgree
<1>34. CASE StopHooks
  <2>1. StartedSet' = StartedSet /\ ParkedSet' = ParkedSet
    BY <1>34 DEF StopHooks, StartedSet, ParkedSet
  <2> QED BY <1>34, <2>1 DEF StopHooks, CountsAgree
<1>35. CASE StopRelease
  <2>1. StartedSet' = StartedSet /\ ParkedSet' = ParkedSet
    BY <1>35 DEF StopRelease, StartedSet, ParkedSet
  <2> QED BY <1>35, <2>1 DEF StopRelease, CountsAgree
<1>36. CASE StopNotify
  <2>1. StartedSet' = StartedSet /\ ParkedSet' = ParkedSet
    BY <1>36 DEF StopNotify, StartedSet, ParkedSet
  <2> QED BY <1>36, <2>1 DEF StopNotify, CountsAgree
<1>37. CASE UNCHANGED vars
  BY <1>37 DEF CountsAgree, StartedSet, ParkedSet
<1> QED
  BY <1>1, <1>2, <1>3, <1>4, <1>5, <1>6, <1>7, <1>8, <1>9, <1>10, <1>11, <1>12, <1>13, <1>14,
     <1>15, <1>16, <1>17, <1>18, <1>19, <1>20, <1>21, <1>22, <1>23, <1>24, <1>25, <1>26, <1>27,
     <1>28, <1>29, <1>30, <1>31, <1>32, <1>33, <1>34, <1>35, <1>36, <1>37 DEF Next, VcpuStep,
     PauseStep, StopStep
\* The types, given that the counters count members of finite sets.
LEMMA TypeInd ==
  ASSUME Inv, [Next]_vars, CountsAgree'
  PROVE  TypeOK'
<1> USE BootVcpu
         DEF Inv, TypeOK, VcpuLabels, vars, rest, quiesce, table, round, stop,
             Go, LockTable, UnlockTable, CheckRequest, NotifyAll,
             AfterCheckpoint
<1>0. parked' \in 0 .. N /\ started' \in 0 .. N
  <2> StartedSet' \in SUBSET Cpus /\ ParkedSet' \in SUBSET Cpus
    BY DEF StartedSet, ParkedSet
  <2> QED BY CpuSubsets DEF CountsAgree
<1> USE <1>0
<1>1. ASSUME NEW c \in Cpus, Spawn(c) PROVE TypeOK'
  BY <1>1, SMTT(30) DEF Spawn
<1>2. ASSUME NEW c \in Cpus, Register(c) PROVE TypeOK'
  BY <1>2, SMTT(30) DEF Register
<1>3. ASSUME NEW c \in Cpus, MarkStarted(c) PROVE TypeOK'
  BY <1>3, SMTT(30) DEF MarkStarted
<1>4. ASSUME NEW c \in Cpus, ClearExit(c) PROVE TypeOK'
  BY <1>4, SMTT(30) DEF ClearExit
<1>5. ASSUME NEW c \in Cpus, CheckRunning(c) PROVE TypeOK'
  BY <1>5, SMTT(30) DEF CheckRunning
<1>6. ASSUME NEW c \in Cpus, Checkpoint(c) PROVE TypeOK'
  BY <1>6, SMTT(30) DEF Checkpoint
<1>7. ASSUME NEW c \in Cpus, Park(c) PROVE TypeOK'
  BY <1>7, SMTT(30) DEF Park
<1>8. ASSUME NEW c \in Cpus, WaitParked(c) PROVE TypeOK'
  BY <1>8, SMTT(30) DEF WaitParked
<1>9. ASSUME NEW c \in Cpus, WakeParked(c) PROVE TypeOK'
  BY <1>9, SMTT(30) DEF WakeParked
<1>10. ASSUME NEW c \in Cpus, EnterGuest(c) PROVE TypeOK'
  BY <1>10, SMTT(30) DEF EnterGuest
<1>11. ASSUME NEW c \in Cpus, Interrupted(c) PROVE TypeOK'
  BY <1>11, SMTT(30) DEF Interrupted
<1>12. ASSUME NEW c \in Cpus, GuestExit(c) PROVE TypeOK'
  BY <1>12, SMTT(30) DEF GuestExit
<1>13. ASSUME NEW c \in Cpus, Service(c) PROVE TypeOK'
  BY <1>13, SMTT(30) DEF Service
<1>14. ASSUME NEW c \in Cpus, DaemonAnswer(c) PROVE TypeOK'
  BY <1>14, SMTT(30) DEF DaemonAnswer
<1>15. ASSUME NEW c \in Cpus, DaemonGone(c) PROVE TypeOK'
  BY <1>15, SMTT(30) DEF DaemonGone
<1>16. ASSUME NEW c \in Cpus, Deregister(c) PROVE TypeOK'
  BY <1>16, SMTT(30) DEF Deregister
<1>17. ASSUME NEW c \in Cpus, KickStore(c) PROVE TypeOK'
  BY <1>17, SMTT(30) DEF KickStore
<1>18. ASSUME NEW c \in Cpus, KickSignal(c) PROVE TypeOK'
  <2>1. kickTodo' \in SUBSET Cpus /\ kickStored' \in BOOLEAN
    BY <1>18 DEF KickSignal
  <2>2. pc' \in [Cpus -> VcpuLabels]
    BY <1>18 DEF KickSignal
  <2> QED BY <1>18, <2>1, <2>2, SMTT(30) DEF KickSignal
<1>19. CASE HostKick
  <2>1. hostKicks' \in 0 .. MaxHostKicks
    BY <1>19, HostKicksAssumption, SMTT(30) DEF HostKick
  <2>2. kickTodo' \in SUBSET Cpus
    BY <1>19 DEF HostKick
  <2> QED BY <1>19, <2>1, <2>2 DEF HostKick
<1>20. CASE HostKicked
  BY <1>20, SMTT(30) DEF HostKicked
<1>21. CASE SafepointReturn
  BY <1>21, SMTT(30) DEF SafepointReturn
<1>22. CASE PauseRequest
  BY <1>22, ZenonT(30) DEF PauseRequest
<1>23. CASE PauseKick
  BY <1>23, ZenonT(30) DEF PauseKick
<1>24. CASE PauseKicked
  BY <1>24, SMTT(30) DEF PauseKicked
<1>25. CASE PauseAwait
  BY <1>25, SMTT(30) DEF PauseAwait
<1>26. CASE PauseExpires
  BY <1>26, SMTT(30) DEF PauseExpires
<1>27. CASE PauseConfirm
  BY <1>27, SMTT(30) DEF PauseConfirm
<1>28. CASE PauseRelease
  BY <1>28, ZenonT(30) DEF PauseRelease
<1>29. CASE PauseNotify
  BY <1>29, SMTT(30) DEF PauseNotify
<1>30. CASE PluginPanic
  BY <1>30, SMTT(30) DEF PluginPanic
<1>31. CASE StopSwap
  BY <1>31, ZenonT(30) DEF StopSwap
<1>32. CASE StopKick
  BY <1>32 DEF StopKick
<1>33. CASE StopKicked
  BY <1>33 DEF StopKicked
<1>34. CASE StopHooks
  BY <1>34 DEF StopHooks
<1>35. CASE StopRelease
  BY <1>35 DEF StopRelease
<1>36. CASE StopNotify
  BY <1>36, SMTT(30) DEF StopNotify
<1>37. CASE UNCHANGED vars
  BY <1>37, SMTT(30)
<1> QED
  BY <1>1, <1>2, <1>3, <1>4, <1>5, <1>6, <1>7, <1>8, <1>9, <1>10, <1>11, <1>12, <1>13, <1>14,
     <1>15, <1>16, <1>17, <1>18, <1>19, <1>20, <1>21, <1>22, <1>23, <1>24, <1>25, <1>26, <1>27,
     <1>28, <1>29, <1>30, <1>31, <1>32, <1>33, <1>34, <1>35, <1>36, <1>37, ZenonT(30) DEF Next,
     VcpuStep, PauseStep, StopStep
\* Who may pause and who may park.
LEMMA RolesInd ==
  ASSUME Inv, [Next]_vars
  PROVE  RolesOK'
<1> USE BootVcpu
         DEF Inv, TypeOK, RolesOK, StopOK, Raised, PauseLabels, vars, rest,
             quiesce, table, round, stop, Go, LockTable, UnlockTable,
             CheckRequest, NotifyAll, AfterCheckpoint
<1>1. ASSUME NEW c \in Cpus, Spawn(c) PROVE RolesOK'
  BY <1>1 DEF Spawn
<1>2. ASSUME NEW c \in Cpus, Register(c) PROVE RolesOK'
  BY <1>2 DEF Register
<1>3. ASSUME NEW c \in Cpus, MarkStarted(c) PROVE RolesOK'
  BY <1>3 DEF MarkStarted
<1>4. ASSUME NEW c \in Cpus, ClearExit(c) PROVE RolesOK'
  BY <1>4 DEF ClearExit
<1>5. ASSUME NEW c \in Cpus, CheckRunning(c) PROVE RolesOK'
  BY <1>5 DEF CheckRunning
<1>6. ASSUME NEW c \in Cpus, Checkpoint(c) PROVE RolesOK'
  BY <1>6 DEF Checkpoint
<1>7. ASSUME NEW c \in Cpus, Park(c) PROVE RolesOK'
  BY <1>7, SMTT(30) DEF Park
<1>8. ASSUME NEW c \in Cpus, WaitParked(c) PROVE RolesOK'
  BY <1>8, SMTT(30) DEF WaitParked
<1>9. ASSUME NEW c \in Cpus, WakeParked(c) PROVE RolesOK'
  BY <1>9, SMTT(30) DEF WakeParked
<1>10. ASSUME NEW c \in Cpus, EnterGuest(c) PROVE RolesOK'
  BY <1>10 DEF EnterGuest
<1>11. ASSUME NEW c \in Cpus, Interrupted(c) PROVE RolesOK'
  BY <1>11 DEF Interrupted
<1>12. ASSUME NEW c \in Cpus, GuestExit(c) PROVE RolesOK'
  BY <1>12 DEF GuestExit
<1>13. ASSUME NEW c \in Cpus, Service(c) PROVE RolesOK'
  BY <1>13, SMTT(30) DEF Service
<1>14. ASSUME NEW c \in Cpus, DaemonAnswer(c) PROVE RolesOK'
  BY <1>14 DEF DaemonAnswer
<1>15. ASSUME NEW c \in Cpus, DaemonGone(c) PROVE RolesOK'
  BY <1>15 DEF DaemonGone
<1>16. ASSUME NEW c \in Cpus, Deregister(c) PROVE RolesOK'
  BY <1>16 DEF Deregister
<1>17. ASSUME NEW c \in Cpus, KickStore(c) PROVE RolesOK'
  BY <1>17 DEF KickStore
<1>18. ASSUME NEW c \in Cpus, KickSignal(c) PROVE RolesOK'
  BY <1>18, SMTT(30) DEF KickSignal
<1>19. CASE HostKick
  BY <1>19 DEF HostKick
<1>20. CASE HostKicked
  BY <1>20 DEF HostKicked
<1>21. CASE SafepointReturn
  BY <1>21 DEF SafepointReturn
<1>22. CASE PauseRequest
  BY <1>22 DEF PauseRequest
<1>23. CASE PauseKick
  BY <1>23 DEF PauseKick
<1>24. CASE PauseKicked
  BY <1>24 DEF PauseKicked
<1>25. CASE PauseAwait
  BY <1>25 DEF PauseAwait
<1>26. CASE PauseExpires
  BY <1>26 DEF PauseExpires
<1>27. CASE PauseConfirm
  BY <1>27 DEF PauseConfirm
<1>28. CASE PauseRelease
  BY <1>28 DEF PauseRelease
<1>29. CASE PauseNotify
  BY <1>29, SMTT(30) DEF PauseNotify
<1>30. CASE PluginPanic
  BY <1>30 DEF PluginPanic
<1>31. CASE StopSwap
  BY <1>31 DEF StopSwap
<1>32. CASE StopKick
  BY <1>32 DEF StopKick
<1>33. CASE StopKicked
  BY <1>33 DEF StopKicked
<1>34. CASE StopHooks
  BY <1>34 DEF StopHooks
<1>35. CASE StopRelease
  BY <1>35 DEF StopRelease
<1>36. CASE StopNotify
  BY <1>36 DEF StopNotify
<1>37. CASE UNCHANGED vars
  BY <1>37
<1> QED
  BY <1>1, <1>2, <1>3, <1>4, <1>5, <1>6, <1>7, <1>8, <1>9, <1>10, <1>11, <1>12, <1>13, <1>14,
     <1>15, <1>16, <1>17, <1>18, <1>19, <1>20, <1>21, <1>22, <1>23, <1>24, <1>25, <1>26, <1>27,
     <1>28, <1>29, <1>30, <1>31, <1>32, <1>33, <1>34, <1>35, <1>36, <1>37, ZenonT(30) DEF Next,
     VcpuStep, PauseStep, StopStep
\* Who is in the kick table.
LEMMA TableInd ==
  ASSUME Inv, [Next]_vars
  PROVE  TableOK'
<1> USE BootVcpu
         DEF Inv, TypeOK, TableOK, vars, rest, quiesce, table, round, stop,
             Go, LockTable, UnlockTable, CheckRequest, NotifyAll,
             AfterCheckpoint
<1>1. ASSUME NEW c \in Cpus, Spawn(c) PROVE TableOK'
  BY <1>1 DEF Spawn
<1>2. ASSUME NEW c \in Cpus, Register(c) PROVE TableOK'
  BY <1>2 DEF Register
<1>3. ASSUME NEW c \in Cpus, MarkStarted(c) PROVE TableOK'
  BY <1>3 DEF MarkStarted
<1>4. ASSUME NEW c \in Cpus, ClearExit(c) PROVE TableOK'
  BY <1>4 DEF ClearExit
<1>5. ASSUME NEW c \in Cpus, CheckRunning(c) PROVE TableOK'
  BY <1>5 DEF CheckRunning
<1>6. ASSUME NEW c \in Cpus, Checkpoint(c) PROVE TableOK'
  BY <1>6 DEF Checkpoint
<1>7. ASSUME NEW c \in Cpus, Park(c) PROVE TableOK'
  BY <1>7 DEF Park
<1>8. ASSUME NEW c \in Cpus, WaitParked(c) PROVE TableOK'
  BY <1>8 DEF WaitParked
<1>9. ASSUME NEW c \in Cpus, WakeParked(c) PROVE TableOK'
  BY <1>9 DEF WakeParked
<1>10. ASSUME NEW c \in Cpus, EnterGuest(c) PROVE TableOK'
  BY <1>10 DEF EnterGuest
<1>11. ASSUME NEW c \in Cpus, Interrupted(c) PROVE TableOK'
  BY <1>11 DEF Interrupted
<1>12. ASSUME NEW c \in Cpus, GuestExit(c) PROVE TableOK'
  BY <1>12 DEF GuestExit
<1>13. ASSUME NEW c \in Cpus, Service(c) PROVE TableOK'
  BY <1>13 DEF Service
<1>14. ASSUME NEW c \in Cpus, DaemonAnswer(c) PROVE TableOK'
  BY <1>14 DEF DaemonAnswer
<1>15. ASSUME NEW c \in Cpus, DaemonGone(c) PROVE TableOK'
  BY <1>15 DEF DaemonGone
<1>16. ASSUME NEW c \in Cpus, Deregister(c) PROVE TableOK'
  BY <1>16 DEF Deregister
<1>17. ASSUME NEW c \in Cpus, KickStore(c) PROVE TableOK'
  BY <1>17 DEF KickStore
<1>18. ASSUME NEW c \in Cpus, KickSignal(c) PROVE TableOK'
  BY <1>18 DEF KickSignal
<1>19. CASE HostKick
  BY <1>19 DEF HostKick
<1>20. CASE HostKicked
  BY <1>20 DEF HostKicked
<1>21. CASE SafepointReturn
  BY <1>21 DEF SafepointReturn
<1>22. CASE PauseRequest
  BY <1>22 DEF PauseRequest
<1>23. CASE PauseKick
  BY <1>23 DEF PauseKick
<1>24. CASE PauseKicked
  BY <1>24 DEF PauseKicked
<1>25. CASE PauseAwait
  BY <1>25 DEF PauseAwait
<1>26. CASE PauseExpires
  BY <1>26 DEF PauseExpires
<1>27. CASE PauseConfirm
  BY <1>27 DEF PauseConfirm
<1>28. CASE PauseRelease
  BY <1>28 DEF PauseRelease
<1>29. CASE PauseNotify
  BY <1>29 DEF PauseNotify
<1>30. CASE PluginPanic
  BY <1>30 DEF PluginPanic
<1>31. CASE StopSwap
  BY <1>31 DEF StopSwap
<1>32. CASE StopKick
  BY <1>32 DEF StopKick
<1>33. CASE StopKicked
  BY <1>33 DEF StopKicked
<1>34. CASE StopHooks
  BY <1>34 DEF StopHooks
<1>35. CASE StopRelease
  BY <1>35 DEF StopRelease
<1>36. CASE StopNotify
  BY <1>36 DEF StopNotify
<1>37. CASE UNCHANGED vars
  BY <1>37
<1> QED
  BY <1>1, <1>2, <1>3, <1>4, <1>5, <1>6, <1>7, <1>8, <1>9, <1>10, <1>11, <1>12, <1>13, <1>14,
     <1>15, <1>16, <1>17, <1>18, <1>19, <1>20, <1>21, <1>22, <1>23, <1>24, <1>25, <1>26, <1>27,
     <1>28, <1>29, <1>30, <1>31, <1>32, <1>33, <1>34, <1>35, <1>36, <1>37, ZenonT(30) DEF Next,
     VcpuStep, PauseStep, StopStep
\* How far the stop is.
LEMMA StopInd ==
  ASSUME Inv, [Next]_vars
  PROVE  StopOK'
<1> USE CountAssumption
         DEF Inv, TypeOK, StopOK, vars, rest, quiesce, table, round, stop, Go,
             LockTable, UnlockTable, CheckRequest, NotifyAll, AfterCheckpoint
<1>1. ASSUME NEW c \in Cpus, Spawn(c) PROVE StopOK'
  BY <1>1 DEF Spawn
<1>2. ASSUME NEW c \in Cpus, Register(c) PROVE StopOK'
  BY <1>2 DEF Register
<1>3. ASSUME NEW c \in Cpus, MarkStarted(c) PROVE StopOK'
  BY <1>3 DEF MarkStarted
<1>4. ASSUME NEW c \in Cpus, ClearExit(c) PROVE StopOK'
  BY <1>4 DEF ClearExit
<1>5. ASSUME NEW c \in Cpus, CheckRunning(c) PROVE StopOK'
  BY <1>5 DEF CheckRunning
<1>6. ASSUME NEW c \in Cpus, Checkpoint(c) PROVE StopOK'
  BY <1>6 DEF Checkpoint
<1>7. ASSUME NEW c \in Cpus, Park(c) PROVE StopOK'
  BY <1>7 DEF Park
<1>8. ASSUME NEW c \in Cpus, WaitParked(c) PROVE StopOK'
  BY <1>8 DEF WaitParked
<1>9. ASSUME NEW c \in Cpus, WakeParked(c) PROVE StopOK'
  BY <1>9 DEF WakeParked
<1>10. ASSUME NEW c \in Cpus, EnterGuest(c) PROVE StopOK'
  BY <1>10 DEF EnterGuest
<1>11. ASSUME NEW c \in Cpus, Interrupted(c) PROVE StopOK'
  BY <1>11 DEF Interrupted
<1>12. ASSUME NEW c \in Cpus, GuestExit(c) PROVE StopOK'
  BY <1>12 DEF GuestExit
<1>13. ASSUME NEW c \in Cpus, Service(c) PROVE StopOK'
  BY <1>13 DEF Service
<1>14. ASSUME NEW c \in Cpus, DaemonAnswer(c) PROVE StopOK'
  BY <1>14 DEF DaemonAnswer
<1>15. ASSUME NEW c \in Cpus, DaemonGone(c) PROVE StopOK'
  BY <1>15 DEF DaemonGone
<1>16. ASSUME NEW c \in Cpus, Deregister(c) PROVE StopOK'
  BY <1>16 DEF Deregister
<1>17. ASSUME NEW c \in Cpus, KickStore(c) PROVE StopOK'
  BY <1>17 DEF KickStore
<1>18. ASSUME NEW c \in Cpus, KickSignal(c) PROVE StopOK'
  BY <1>18 DEF KickSignal
<1>19. CASE HostKick
  BY <1>19 DEF HostKick
<1>20. CASE HostKicked
  BY <1>20 DEF HostKicked
<1>21. CASE SafepointReturn
  BY <1>21 DEF SafepointReturn
<1>22. CASE PauseRequest
  BY <1>22 DEF PauseRequest
<1>23. CASE PauseKick
  BY <1>23 DEF PauseKick
<1>24. CASE PauseKicked
  BY <1>24 DEF PauseKicked
<1>25. CASE PauseAwait
  BY <1>25 DEF PauseAwait
<1>26. CASE PauseExpires
  BY <1>26 DEF PauseExpires
<1>27. CASE PauseConfirm
  BY <1>27 DEF PauseConfirm
<1>28. CASE PauseRelease
  BY <1>28 DEF PauseRelease
<1>29. CASE PauseNotify
  BY <1>29 DEF PauseNotify
<1>30. CASE PluginPanic
  BY <1>30 DEF PluginPanic
<1>31. CASE StopSwap
  BY <1>31 DEF StopSwap
<1>32. CASE StopKick
  BY <1>32 DEF StopKick
<1>33. CASE StopKicked
  BY <1>33 DEF StopKicked
<1>34. CASE StopHooks
  BY <1>34 DEF StopHooks
<1>35. CASE StopRelease
  BY <1>35 DEF StopRelease
<1>36. CASE StopNotify
  BY <1>36 DEF StopNotify
<1>37. CASE UNCHANGED vars
  BY <1>37
<1> QED
  BY <1>1, <1>2, <1>3, <1>4, <1>5, <1>6, <1>7, <1>8, <1>9, <1>10, <1>11, <1>12, <1>13, <1>14,
     <1>15, <1>16, <1>17, <1>18, <1>19, <1>20, <1>21, <1>22, <1>23, <1>24, <1>25, <1>26, <1>27,
     <1>28, <1>29, <1>30, <1>31, <1>32, <1>33, <1>34, <1>35, <1>36, <1>37, ZenonT(30) DEF Next,
     VcpuStep, PauseStep, StopStep
\* A kick of the stop is not lost: it finds its vCPU in the guest, or the byte
\* outlives every step up to the KVM_RUN that follows.
LEMMA KicksInd ==
  ASSUME Inv, [Next]_vars
  PROVE  KicksOK'
<1> USE CountAssumption
         DEF Inv, TypeOK, Cpus, RolesOK, TableOK, StopOK, KicksOK, Raised,
             PauseLabels, Armed, Covered, Reached, vars, rest, quiesce, table,
             round, stop, Go, LockTable, UnlockTable, CheckRequest, NotifyAll,
             AfterCheckpoint
<1>1. ASSUME NEW c \in Cpus, Spawn(c) PROVE KicksOK'
  BY <1>1 DEF Spawn
<1>2. ASSUME NEW c \in Cpus, Register(c) PROVE KicksOK'
  BY <1>2 DEF Register
<1>3. ASSUME NEW c \in Cpus, MarkStarted(c) PROVE KicksOK'
  BY <1>3 DEF MarkStarted
<1>4. ASSUME NEW c \in Cpus, ClearExit(c) PROVE KicksOK'
  BY <1>4 DEF ClearExit
<1>5. ASSUME NEW c \in Cpus, CheckRunning(c) PROVE KicksOK'
  BY <1>5 DEF CheckRunning
<1>6. ASSUME NEW c \in Cpus, Checkpoint(c) PROVE KicksOK'
  BY <1>6 DEF Checkpoint
<1>7. ASSUME NEW c \in Cpus, Park(c) PROVE KicksOK'
  BY <1>7, SMTT(30) DEF Park
<1>8. ASSUME NEW c \in Cpus, WaitParked(c) PROVE KicksOK'
  BY <1>8, SMTT(30) DEF WaitParked
<1>9. ASSUME NEW c \in Cpus, WakeParked(c) PROVE KicksOK'
  BY <1>9, SMTT(30) DEF WakeParked
<1>10. ASSUME NEW c \in Cpus, EnterGuest(c) PROVE KicksOK'
  BY <1>10 DEF EnterGuest
<1>11. ASSUME NEW c \in Cpus, Interrupted(c) PROVE KicksOK'
  BY <1>11 DEF Interrupted
<1>12. ASSUME NEW c \in Cpus, GuestExit(c) PROVE KicksOK'
  BY <1>12 DEF GuestExit
<1>13. ASSUME NEW c \in Cpus, Service(c) PROVE KicksOK'
  BY <1>13, SMTT(30) DEF Service
<1>14. ASSUME NEW c \in Cpus, DaemonAnswer(c) PROVE KicksOK'
  BY <1>14 DEF DaemonAnswer
<1>15. ASSUME NEW c \in Cpus, DaemonGone(c) PROVE KicksOK'
  BY <1>15 DEF DaemonGone
<1>16. ASSUME NEW c \in Cpus, Deregister(c) PROVE KicksOK'
  BY <1>16 DEF Deregister
<1>17. ASSUME NEW c \in Cpus, KickStore(c) PROVE KicksOK'
  BY <1>17, SMTT(30) DEF KickStore
<1>18. ASSUME NEW c \in Cpus, KickSignal(c) PROVE KicksOK'
  BY <1>18, SMTT(30) DEF KickSignal
<1>19. CASE HostKick
  BY <1>19 DEF HostKick
<1>20. CASE HostKicked
  BY <1>20 DEF HostKicked
<1>21. CASE SafepointReturn
  BY <1>21 DEF SafepointReturn
<1>22. CASE PauseRequest
  BY <1>22, SMTT(30) DEF PauseRequest
<1>23. CASE PauseKick
  BY <1>23 DEF PauseKick
<1>24. CASE PauseKicked
  BY <1>24 DEF PauseKicked
<1>25. CASE PauseAwait
  BY <1>25, SMTT(30) DEF PauseAwait
<1>26. CASE PauseExpires
  BY <1>26 DEF PauseExpires
<1>27. CASE PauseConfirm
  BY <1>27, SMTT(30) DEF PauseConfirm
<1>28. CASE PauseRelease
  BY <1>28, SMTT(30) DEF PauseRelease
<1>29. CASE PauseNotify
  BY <1>29, SMTT(30) DEF PauseNotify
<1>30. CASE PluginPanic
  BY <1>30 DEF PluginPanic
<1>31. CASE StopSwap
  BY <1>31 DEF StopSwap
<1>32. CASE StopKick
  BY <1>32 DEF StopKick
<1>33. CASE StopKicked
  BY <1>33 DEF StopKicked
<1>34. CASE StopHooks
  BY <1>34 DEF StopHooks
<1>35. CASE StopRelease
  BY <1>35 DEF StopRelease
<1>36. CASE StopNotify
  BY <1>36 DEF StopNotify
<1>37. CASE UNCHANGED vars
  BY <1>37
<1> QED
  BY <1>1, <1>2, <1>3, <1>4, <1>5, <1>6, <1>7, <1>8, <1>9, <1>10, <1>11, <1>12, <1>13, <1>14,
     <1>15, <1>16, <1>17, <1>18, <1>19, <1>20, <1>21, <1>22, <1>23, <1>24, <1>25, <1>26, <1>27,
     <1>28, <1>29, <1>30, <1>31, <1>32, <1>33, <1>34, <1>35, <1>36, <1>37, ZenonT(30) DEF Next,
     VcpuStep, PauseStep, StopStep
\* A pause that is held stays one in which no vCPU touches the guest.
LEMMA HoldInd ==
  ASSUME Inv, [Next]_vars
  PROVE  HoldOK'
<1> USE CountAssumption
         DEF Inv, TypeOK, Cpus, RolesOK, StopOK, KicksOK, HoldOK, Raised,
             PauseLabels, Armed, Covered, Quiet, vars, rest, quiesce, table,
             round, stop, Go, LockTable, UnlockTable, CheckRequest, NotifyAll,
             AfterCheckpoint
<1>1. ASSUME NEW c \in Cpus, Spawn(c) PROVE HoldOK'
  BY <1>1, SMTT(30) DEF Spawn
<1>2. ASSUME NEW c \in Cpus, Register(c) PROVE HoldOK'
  BY <1>2, SMTT(30) DEF Register
<1>3. ASSUME NEW c \in Cpus, MarkStarted(c) PROVE HoldOK'
  BY <1>3, SMTT(30) DEF MarkStarted
<1>4. ASSUME NEW c \in Cpus, ClearExit(c) PROVE HoldOK'
  BY <1>4, SMTT(30) DEF ClearExit
<1>5. ASSUME NEW c \in Cpus, CheckRunning(c) PROVE HoldOK'
  BY <1>5, SMTT(30) DEF CheckRunning
<1>6. ASSUME NEW c \in Cpus, Checkpoint(c) PROVE HoldOK'
  BY <1>6, SMTT(30) DEF Checkpoint
<1>7. ASSUME NEW c \in Cpus, Park(c) PROVE HoldOK'
  BY <1>7, SMTT(30) DEF Park
<1>8. ASSUME NEW c \in Cpus, WaitParked(c) PROVE HoldOK'
  BY <1>8, SMTT(30) DEF WaitParked
<1>9. ASSUME NEW c \in Cpus, WakeParked(c) PROVE HoldOK'
  BY <1>9, SMTT(30) DEF WakeParked
<1>10. ASSUME NEW c \in Cpus, EnterGuest(c) PROVE HoldOK'
  BY <1>10, SMTT(30) DEF EnterGuest
<1>11. ASSUME NEW c \in Cpus, Interrupted(c) PROVE HoldOK'
  BY <1>11, SMTT(30) DEF Interrupted
<1>12. ASSUME NEW c \in Cpus, GuestExit(c) PROVE HoldOK'
  BY <1>12, SMTT(30) DEF GuestExit
<1>13. ASSUME NEW c \in Cpus, Service(c) PROVE HoldOK'
  BY <1>13, SMTT(30) DEF Service
<1>14. ASSUME NEW c \in Cpus, DaemonAnswer(c) PROVE HoldOK'
  BY <1>14, SMTT(30) DEF DaemonAnswer
<1>15. ASSUME NEW c \in Cpus, DaemonGone(c) PROVE HoldOK'
  BY <1>15, SMTT(30) DEF DaemonGone
<1>16. ASSUME NEW c \in Cpus, Deregister(c) PROVE HoldOK'
  BY <1>16, SMTT(30) DEF Deregister
<1>17. ASSUME NEW c \in Cpus, KickStore(c) PROVE HoldOK'
  BY <1>17 DEF KickStore
<1>18. ASSUME NEW c \in Cpus, KickSignal(c) PROVE HoldOK'
  BY <1>18, SMTT(30) DEF KickSignal
<1>19. CASE HostKick
  BY <1>19 DEF HostKick
<1>20. CASE HostKicked
  BY <1>20 DEF HostKicked
<1>21. CASE SafepointReturn
  BY <1>21, SMTT(30) DEF SafepointReturn
<1>22. CASE PauseRequest
  BY <1>22, SMTT(30) DEF PauseRequest
<1>23. CASE PauseKick
  BY <1>23, SMTT(30) DEF PauseKick
<1>24. CASE PauseKicked
  BY <1>24, SMTT(30) DEF PauseKicked
<1>25. CASE PauseAwait
  <2>1. pc'[0] = "confirm" /\ running => pc[0] = "await" /\ parked >= started - 1
    BY <1>25, SMTT(30) DEF PauseAwait, PauseTarget
  <2>2. 0 \in StartedSet
    BY <1>25, SMTT(30) DEF PauseAwait, StartedSet
  <2>3. ASSUME pc'[0] = "confirm", running, NEW d \in Cpus \ {0}
        PROVE  pc'[d] \in Quiet
    <3>1. ParkedSet = StartedSet \ {0}
      BY <2>1, <2>2, <2>3, EveryoneParked
    <3> QED BY <1>25, <2>3, <3>1, SMTT(30) DEF PauseAwait, StartedSet, ParkedSet
  <2> QED BY <1>25, <2>3, SMTT(30) DEF PauseAwait
<1>26. CASE PauseExpires
  BY <1>26, SMTT(30) DEF PauseExpires
<1>27. CASE PauseConfirm
  BY <1>27, SMTT(30) DEF PauseConfirm
<1>28. CASE PauseRelease
  BY <1>28, SMTT(30) DEF PauseRelease
<1>29. CASE PauseNotify
  BY <1>29, SMTT(30) DEF PauseNotify
<1>30. CASE PluginPanic
  BY <1>30, SMTT(30) DEF PluginPanic
<1>31. CASE StopSwap
  BY <1>31 DEF StopSwap
<1>32. CASE StopKick
  BY <1>32 DEF StopKick
<1>33. CASE StopKicked
  BY <1>33 DEF StopKicked
<1>34. CASE StopHooks
  BY <1>34 DEF StopHooks
<1>35. CASE StopRelease
  BY <1>35 DEF StopRelease
<1>36. CASE StopNotify
  BY <1>36, SMTT(30) DEF StopNotify
<1>37. CASE UNCHANGED vars
  BY <1>37
<1> QED
  BY <1>1, <1>2, <1>3, <1>4, <1>5, <1>6, <1>7, <1>8, <1>9, <1>10, <1>11, <1>12, <1>13, <1>14,
     <1>15, <1>16, <1>17, <1>18, <1>19, <1>20, <1>21, <1>22, <1>23, <1>24, <1>25, <1>26, <1>27,
     <1>28, <1>29, <1>30, <1>31, <1>32, <1>33, <1>34, <1>35, <1>36, <1>37, ZenonT(30) DEF Next,
     VcpuStep, PauseStep, StopStep

-----------------------------------------------------------------------------
(* The theorems. *)

\* Inv holds in the initial state.
LEMMA InitInv == Init => Inv
<1> SUFFICES ASSUME Init PROVE Inv
  OBVIOUS
<1>1. CountsAgree
  <2> StartedSet = {} /\ ParkedSet = {}
    BY DEF Init, StartedSet, ParkedSet
  <2> QED BY FS_EmptySet DEF Init, CountsAgree
<1>2. TypeOK
  <2>1. 0 \in 0 .. N /\ 0 \in 0 .. MaxHostKicks
    BY CountAssumption, HostKicksAssumption, SMTT(30)
  <2> QED BY <2>1 DEF Init, TypeOK, VcpuLabels
<1>3. RolesOK /\ TableOK /\ StopOK /\ KicksOK /\ HoldOK
  BY BootVcpu DEF Init, RolesOK, TableOK, StopOK, KicksOK, HoldOK, Raised, PauseLabels, Covered,
     Reached, Quiet
<1> QED BY <1>1, <1>2, <1>3 DEF Inv

\* Inv is an invariant of the vCPU threads, whatever their number.
THEOREM Invariance == Spec => []Inv
<1>1. Inv /\ [Next]_vars => Inv'
  <2> SUFFICES ASSUME Inv, [Next]_vars PROVE Inv'
    OBVIOUS
  <2>1. CountsAgree'
    BY CountsInd
  <2> QED
    BY <2>1, TypeInd, RolesInd, TableInd, StopInd, KicksInd, HoldInd DEF Inv
<1> QED BY InitInv, <1>1, PTL DEF Spec

\* The variables keep their types; the counters never leave 0 .. N, so neither
\* `started` nor `parked` wraps (Vcpus, Quiesce).
THEOREM TypeCorrect == Spec => []TypeOK
<1>1. Inv => TypeOK
  BY DEF Inv
<1> QED BY Invariance, <1>1, PTL

\* While a plugin holds a pause, no vCPU runs guest code or serves a device
\* (Vcpus::pause).
THEOREM PauseIsSafe == Spec => []PauseHoldsGuest
<1>1. Inv => PauseHoldsGuest
  BY DEF Inv, HoldOK, PauseHoldsGuest, TouchesGuest, Quiet
<1> QED BY Invariance, <1>1, PTL

\* One round of kicks is enough (Vcpus::stop).
THEOREM StopIsFinal == Spec => []NoGuestAfterStop
<1>1. Inv => NoGuestAfterStop
  BY DEF Inv, KicksOK, Covered, NoGuestAfterStop
<1> QED BY Invariance, <1>1, PTL


\* Under a pause or after the stop, no vCPU that is about to run enters the
\* guest.
LEMMA Barred ==
  ASSUME Inv, NEW c \in Cpus, pc[c] = "enter", exitByte[c] # 1
  PROVE  pc[0] # "held" /\ ~stopSent
<1>1. ~stopSent
  BY DEF Inv, KicksOK, Covered, Armed
<1> QED BY <1>1 DEF Inv, HoldOK, Quiet
\* Every step of the vCPU threads is a step of SafePoint, or a stutter.
LEMMA StepRefines ==
  ASSUME Inv, [Next]_vars
  PROVE  [Barrier!AbsNext]_(Barrier!absVars)
<1> USE BootVcpu
         DEF TypeOK, vars, rest, quiesce, table, round, stop, Go, LockTable,
             UnlockTable, CheckRequest, NotifyAll, AfterCheckpoint,
             Barrier!absVars
<1>0. TypeOK
  BY DEF Inv
<1> USE <1>0
<1>1. ASSUME NEW c \in Cpus, Spawn(c) PROVE [Barrier!AbsNext]_(Barrier!absVars)
  BY <1>1 DEF Spawn
<1>2. ASSUME NEW c \in Cpus, Register(c) PROVE [Barrier!AbsNext]_(Barrier!absVars)
  BY <1>2 DEF Register
<1>3. ASSUME NEW c \in Cpus, MarkStarted(c) PROVE [Barrier!AbsNext]_(Barrier!absVars)
  BY <1>3 DEF MarkStarted
<1>4. ASSUME NEW c \in Cpus, ClearExit(c) PROVE [Barrier!AbsNext]_(Barrier!absVars)
  BY <1>4 DEF ClearExit
<1>5. ASSUME NEW c \in Cpus, CheckRunning(c) PROVE [Barrier!AbsNext]_(Barrier!absVars)
  BY <1>5 DEF CheckRunning
<1>6. ASSUME NEW c \in Cpus, Checkpoint(c) PROVE [Barrier!AbsNext]_(Barrier!absVars)
  BY <1>6 DEF Checkpoint
<1>7. ASSUME NEW c \in Cpus, Park(c) PROVE [Barrier!AbsNext]_(Barrier!absVars)
  BY <1>7 DEF Park
<1>8. ASSUME NEW c \in Cpus, WaitParked(c) PROVE [Barrier!AbsNext]_(Barrier!absVars)
  BY <1>8 DEF WaitParked
<1>9. ASSUME NEW c \in Cpus, WakeParked(c) PROVE [Barrier!AbsNext]_(Barrier!absVars)
  BY <1>9 DEF WakeParked
<1>10. ASSUME NEW c \in Cpus, EnterGuest(c) PROVE [Barrier!AbsNext]_(Barrier!absVars)
  <2>1. CASE exitByte[c] = 1
    BY <1>10, <2>1 DEF EnterGuest
  <2>2. CASE exitByte[c] # 1
    <3>1. pc[0] # "held" /\ ~stopSent
      BY <1>10, <2>2, Barred DEF EnterGuest
    <3>2. Barrier!Enter(c)
      BY <1>10, <2>2, <3>1 DEF EnterGuest, Barrier!Enter
    <3> QED BY <3>2 DEF Barrier!AbsNext
  <2> QED BY <2>1, <2>2
<1>11. ASSUME NEW c \in Cpus, Interrupted(c) PROVE [Barrier!AbsNext]_(Barrier!absVars)
  BY <1>11 DEF Interrupted
<1>12. ASSUME NEW c \in Cpus, GuestExit(c) PROVE [Barrier!AbsNext]_(Barrier!absVars)
  <2>1. Barrier!Exit(c)
    BY <1>12 DEF GuestExit, Barrier!Exit
  <2> QED BY <2>1 DEF Barrier!AbsNext
<1>13. ASSUME NEW c \in Cpus, Service(c) PROVE [Barrier!AbsNext]_(Barrier!absVars)
  <2>1. CASE pc'[c] = "daemon"
    BY <1>13, <2>1 DEF Service
  <2>2. CASE pc'[c] # "daemon"
    <3>1. Barrier!Serviced(c)
      BY <1>13, <2>2 DEF Service, Barrier!Serviced
    <3> QED BY <3>1 DEF Barrier!AbsNext
  <2> QED BY <2>1, <2>2
<1>14. ASSUME NEW c \in Cpus, DaemonAnswer(c) PROVE [Barrier!AbsNext]_(Barrier!absVars)
  BY <1>14 DEF DaemonAnswer
<1>15. ASSUME NEW c \in Cpus, DaemonGone(c) PROVE [Barrier!AbsNext]_(Barrier!absVars)
  BY <1>15 DEF DaemonGone
<1>16. ASSUME NEW c \in Cpus, Deregister(c) PROVE [Barrier!AbsNext]_(Barrier!absVars)
  BY <1>16 DEF Deregister
<1>17. ASSUME NEW c \in Cpus, KickStore(c) PROVE [Barrier!AbsNext]_(Barrier!absVars)
  BY <1>17 DEF KickStore
<1>18. ASSUME NEW c \in Cpus, KickSignal(c) PROVE [Barrier!AbsNext]_(Barrier!absVars)
  <2>1. CASE pc[c] = "guest"
    <3>1. Barrier!Leave(c)
      BY <1>18, <2>1 DEF KickSignal, Barrier!Leave
    <3> QED BY <3>1 DEF Barrier!AbsNext
  <2>2. CASE pc[c] # "guest"
    BY <1>18, <2>2 DEF KickSignal
  <2> QED BY <2>1, <2>2
<1>19. CASE HostKick
  BY <1>19 DEF HostKick
<1>20. CASE HostKicked
  BY <1>20 DEF HostKicked
<1>21. CASE SafepointReturn
  BY <1>21 DEF SafepointReturn
<1>22. CASE PauseRequest
  <2>1. CASE pc[0] = "held"
    <3>1. Barrier!Resume
      BY <1>22, <2>1 DEF PauseRequest, Barrier!Resume
    <3> QED BY <3>1 DEF Barrier!AbsNext
  <2>2. CASE pc[0] # "held"
    BY <1>22, <2>2 DEF PauseRequest
  <2> QED BY <2>1, <2>2
<1>23. CASE PauseKick
  BY <1>23 DEF PauseKick
<1>24. CASE PauseKicked
  BY <1>24 DEF PauseKicked
<1>25. CASE PauseAwait
  BY <1>25 DEF PauseAwait
<1>26. CASE PauseExpires
  BY <1>26 DEF PauseExpires
<1>27. CASE PauseConfirm
  <2>1. CASE running
    <3>1. \A d \in Cpus : pc[d] \notin {"guest", "service", "daemon"}
      BY <1>27, <2>1 DEF PauseConfirm, Inv, HoldOK, Quiet
    <3>2. Barrier!Hold
      BY <1>27, <2>1, <3>1 DEF PauseConfirm, Barrier!Hold
    <3> QED BY <3>2 DEF Barrier!AbsNext
  <2>2. CASE ~running
    BY <1>27, <2>2 DEF PauseConfirm
  <2> QED BY <2>1, <2>2
<1>28. CASE PauseRelease
  <2>1. CASE pc[0] = "held"
    <3>1. Barrier!Resume
      BY <1>28, <2>1 DEF PauseRelease, Barrier!Resume
    <3> QED BY <3>1 DEF Barrier!AbsNext
  <2>2. CASE pc[0] # "held"
    BY <1>28, <2>2 DEF PauseRelease
  <2> QED BY <2>1, <2>2
<1>29. CASE PauseNotify
  BY <1>29 DEF PauseNotify
<1>30. CASE PluginPanic
  <2>1. CASE pc[0] = "held"
    <3>1. Barrier!Resume
      BY <1>30, <2>1 DEF PluginPanic, Barrier!Resume
    <3> QED BY <3>1 DEF Barrier!AbsNext
  <2>2. CASE pc[0] # "held"
    BY <1>30, <2>2 DEF PluginPanic
  <2> QED BY <2>1, <2>2
<1>31. CASE StopSwap
  BY <1>31 DEF StopSwap
<1>32. CASE StopKick
  BY <1>32 DEF StopKick
<1>33. CASE StopKicked
  <2>1. \A d \in Cpus : pc[d] # "guest"
    BY <1>33 DEF StopKicked, Inv, KicksOK, Covered
  <2>2. CASE stopSent
    BY <1>33, <2>2 DEF StopKicked
  <2>3. CASE ~stopSent
    <3>1. Barrier!StopGuest
      BY <1>33, <2>1, <2>3 DEF StopKicked, Barrier!StopGuest
    <3> QED BY <3>1 DEF Barrier!AbsNext
  <2> QED BY <2>2, <2>3
<1>34. CASE StopHooks
  BY <1>34 DEF StopHooks
<1>35. CASE StopRelease
  BY <1>35 DEF StopRelease
<1>36. CASE StopNotify
  BY <1>36 DEF StopNotify
<1>37. CASE UNCHANGED vars
  BY <1>37
<1> QED
  BY <1>1, <1>2, <1>3, <1>4, <1>5, <1>6, <1>7, <1>8, <1>9, <1>10, <1>11, <1>12, <1>13, <1>14,
     <1>15, <1>16, <1>17, <1>18, <1>19, <1>20, <1>21, <1>22, <1>23, <1>24, <1>25, <1>26, <1>27,
     <1>28, <1>29, <1>30, <1>31, <1>32, <1>33, <1>34, <1>35, <1>36, <1>37, ZenonT(30) DEF Next,
     VcpuStep, PauseStep, StopStep

\* The vCPU threads implement SafePoint (Vcpus::pause, Vcpus::stop, Quiesce).
THEOREM Refinement == Spec => ImplementsSafePoint
<1>1. Init => Barrier!AbsInit
  BY BootVcpu DEF Init, Barrier!AbsInit
<1>2. Inv /\ [Next]_vars => [Barrier!AbsNext]_(Barrier!absVars)
  BY StepRefines
<1> QED
  BY Invariance, <1>1, <1>2, PTL DEF Spec, ImplementsSafePoint, Barrier!AbsSpec
=============================================================================
