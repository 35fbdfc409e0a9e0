----------------------------- MODULE Virtqueue ------------------------------
(***************************************************************************)
(* A split virtqueue (devices/virtio/queue.rs), the loop that serves it    *)
(* (process_queue of virtio-blk, the shape every device has) and the       *)
(* device's interrupt line (devices/irq.rs), with a Linux driver on the    *)
(* other side of guest memory.                                             *)
(*                                                                         *)
(* The rings are memory both sides see while the device works, so a step   *)
(* of the device is one access to them.  An access to a register is under  *)
(* the device's lock and is one step, but for a notify, which holds the    *)
(* lock from Notify to Finish.  An index is a residue of IndexWrap.  A     *)
(* ring's address is known by the number of entries that fit at it.        *)
(***************************************************************************)
EXTENDS Integers, Sequences, FiniteSets, FiniteSetTheorems, TLAPS

CONSTANTS IndexWrap,       \* 2^16, the wrap of an index
          QueueNumMax,     \* QUEUE_NUM_MAX
          Nums,            \* the sizes a driver may write
          Rooms,           \* the rooms there may be at a ring's address
          Vcpus,           \* the number of vCPUs that publish and notify
          MaxChains,       \* a bound on the chains published
          MaxResets,       \* a bound on the resets
          MaxFaults        \* a bound on the failures to set the line

PowersOfTwo == {1, 2, 4, 8, 16, 32, 64, 128, 256, 512, 1024, 2048, 4096, 8192,
                16384, 32768, 65536}

ASSUME WrapAssumption == IndexWrap \in Nat \ {0}
ASSUME SizesAssumption == /\ IndexWrap \in PowersOfTwo
                          /\ QueueNumMax \in PowersOfTwo /\ QueueNumMax < IndexWrap
ASSUME ChainsAssumption == MaxChains \in Nat

VARIABLES
    \* Queue.
    num, ready, room, lastAvail,
    \* The locals of process_queue, while a notify is served.
    dpc,                   \* "idle", "serve", "element" or "index"
    last, todo, head,
    serviced,              \* whether this notify completed a chain
    \* The interrupt.
    isr, high,             \* interrupt_status and Irq::high
    line,                  \* the level the guest sees
    \* Guest memory.
    availIdx, availRing, table, usedIdx, usedRing,
    \* The driver.
    phase,                 \* "setup" or "run"
    free,                  \* the descriptors it may use
    lastUsed,              \* the used entries it has taken
    handler,               \* its interrupt handler: "wait" or "drain"
    kicks,                 \* the notifies that have yet to take the lock
    made, resets, faults

queue  == <<num, ready, room, lastAvail>>
serve  == <<dpc, last, todo, head, serviced>>
irq    == <<isr, high, line, faults>>
avail  == <<availIdx, availRing, table>>
used   == <<usedIdx, usedRing>>
driver == <<phase, free, lastUsed, handler, kicks, made, resets>>
vars   == <<queue, serve, irq, avail, used, driver>>

Slots == 0 .. QueueNumMax - 1

\* u16::wrapping_add of 1 and u16::wrapping_sub.
WrappingNext(i) == (i + 1) % IndexWrap
WrappingSub(a, b) == (a - b) % IndexWrap

Init ==
    /\ num = 0 /\ ready = FALSE /\ lastAvail = 0
    /\ room = [r \in {"desc", "avail", "used"} |-> 0]
    /\ dpc = "idle" /\ last = 0 /\ todo = 0 /\ head = 0 /\ serviced = FALSE
    /\ isr = 0 /\ high = FALSE /\ line = FALSE /\ faults = 0
    /\ availIdx = 0 /\ availRing = [s \in Slots |-> 0]
    /\ table = [s \in Slots |-> 0]
    /\ usedIdx = 0 /\ usedRing = [s \in Slots |-> 0]
    /\ phase = "setup" /\ free = {} /\ lastUsed = 0 /\ handler = "wait"
    /\ kicks = 0 /\ made = 0 /\ resets = 0

-----------------------------------------------------------------------------
(* The interrupt. *)

\* Mutant of IrqSet: the level is recorded though the line was not set.
IrqSetRecords(level) ==
    \/ high' = level /\ line' = level /\ UNCHANGED faults
    \/ /\ level # high /\ faults < MaxFaults
       /\ high' = level /\ faults' = faults + 1 /\ UNCHANGED line

\* Irq::set.  Setting the line may fail, which leaves it at its old level; the
\* record then stays old as well, and the next access tries again.
IrqSet(level) ==
    \/ high' = level /\ line' = level /\ UNCHANGED faults
    \/ /\ level # high /\ faults < MaxFaults
       /\ faults' = faults + 1 /\ UNCHANGED <<high, line>>

\* The end of VirtioBlk::mmio, with the interrupt status at s.
SyncIrq(s) == isr' = s /\ IrqSet(s # 0)

-----------------------------------------------------------------------------
(* The registers that set the queue up. *)

\* The sizes Queue::set_num takes.
ValidNum(v) == v # 0 /\ v <= QueueNumMax /\ v \in PowersOfTwo

\* Queue::rings_fit.
RingsFit == num # 0 /\ \A r \in DOMAIN room : num <= room[r]

IsReady == ready /\ num # 0

Register == dpc = "idle" /\ UNCHANGED <<serve, avail, used>> /\ SyncIrq(isr)

\* Mutant of SetNum: a new size keeps the queue ready.
SetNumStaysReady(v) ==
    /\ phase = "setup" /\ Register
    /\ num' = IF ValidNum(v) THEN v ELSE 0
    /\ UNCHANGED <<ready, room, lastAvail, driver>>

\* A write of QUEUE_NUM.
SetNum(v) ==
    /\ phase = "setup" /\ Register
    /\ num' = IF ValidNum(v) THEN v ELSE 0
    /\ ready' = FALSE
    /\ UNCHANGED <<room, lastAvail, driver>>

\* A write of the address of ring r, where k entries fit.
SetRing(r, k) ==
    /\ phase = "setup" /\ Register
    /\ room' = [room EXCEPT ![r] = k]
    /\ ready' = FALSE
    /\ UNCHANGED <<num, lastAvail, driver>>

\* A write of QUEUE_READY.
SetReady(v) ==
    /\ phase = "setup" /\ Register
    /\ ready' = (v /\ RingsFit)
    /\ UNCHANGED <<num, room, lastAvail, driver>>

\* A write of 0 to STATUS: Queue::reset and VirtioBlk::reset.  The driver has
\* stopped, and sets up rings whose indices start at 0.
Reset ==
    /\ dpc = "idle" /\ resets < MaxResets
    /\ num' = 0 /\ ready' = FALSE /\ lastAvail' = 0
    /\ room' = [r \in DOMAIN room |-> 0]
    /\ SyncIrq(0)
    /\ phase' = "setup" /\ free' = {} /\ handler' = "wait"
    /\ lastUsed' = 0 /\ availIdx' = 0 /\ usedIdx' = 0
    /\ resets' = resets + 1
    /\ UNCHANGED <<serve, availRing, table, usedRing, kicks, made>>

-----------------------------------------------------------------------------
(* The loop that serves a notify. *)

\* Queue::pending, or -1 for its None.
Pending ==
    LET n == WrappingSub(availIdx, lastAvail)
    IN  IF n <= num THEN n ELSE -1

\* A write of QUEUE_NOTIFY takes the lock and reads the available index.
Notify ==
    /\ dpc = "idle" /\ kicks > 0
    /\ kicks' = kicks - 1
    /\ IF IsReady /\ Pending >= 0
       THEN /\ dpc' = "serve" /\ last' = lastAvail /\ todo' = Pending
            /\ serviced' = FALSE
            /\ UNCHANGED <<head, irq>>
       ELSE SyncIrq(isr) /\ UNCHANGED serve
    /\ UNCHANGED <<queue, avail, used, phase, free, lastUsed, handler, made,
                   resets>>

\* Mutant of ReadSlot: the slot is that of the queue's index, not of the loop's.
ReadSlotOfQueue ==
    /\ dpc = "serve" /\ todo > 0
    /\ head' = availRing[lastAvail % num]
    /\ dpc' = "element"
    /\ UNCHANGED <<queue, last, todo, serviced, irq, avail, used, driver>>

\* The slot of the available ring is read.
ReadSlot ==
    /\ dpc = "serve" /\ todo > 0
    /\ head' = availRing[last % num]
    /\ dpc' = "element"
    /\ UNCHANGED <<queue, last, todo, serviced, irq, avail, used, driver>>

\* Queue::push_used writes the element, ...
PushElement ==
    /\ dpc = "element"
    /\ usedRing' = [usedRing EXCEPT ![usedIdx % num] = head]
    /\ dpc' = "index"
    /\ UNCHANGED <<queue, last, todo, head, serviced, irq, avail, usedIdx,
                   driver>>

\* ... and after the fence the index.
PushIndex ==
    /\ dpc = "index"
    /\ usedIdx' = WrappingNext(usedIdx)
    /\ last' = WrappingNext(last)
    /\ todo' = todo - 1 /\ serviced' = TRUE /\ dpc' = "serve"
    /\ UNCHANGED <<queue, head, irq, avail, usedRing, driver>>

\* Mutant of Finish: the last notify of a burst raises the interrupt.
FinishRaisesLast ==
    /\ dpc = "serve" /\ todo = 0
    /\ lastAvail' = last
    /\ SyncIrq(IF serviced /\ kicks = 0 THEN 1 ELSE isr)
    /\ dpc' = "idle"
    /\ UNCHANGED <<num, ready, room, last, todo, head, serviced, avail, used,
                   driver>>

\* The loop is done, and the lock is given up.
Finish ==
    /\ dpc = "serve" /\ todo = 0
    /\ lastAvail' = last
    /\ SyncIrq(IF serviced THEN 1 ELSE isr)
    /\ dpc' = "idle"
    /\ UNCHANGED <<num, ready, room, last, todo, head, serviced, avail, used,
                   driver>>

-----------------------------------------------------------------------------
(* The driver.  Its handler acknowledges the interrupt and then takes what  *)
(* is completed; it publishes a chain by its slot and then the index, here  *)
(* in one step, since the device reads the index first.  The vCPU that      *)
(* published is then in its notify until the device has served it.          *)

Outstanding == WrappingSub(availIdx, lastUsed)

\* The set-up is over when QUEUE_READY reads back as set.
DriverStart ==
    /\ phase = "setup" /\ dpc = "idle" /\ IsReady
    /\ phase' = "run" /\ free' = 0 .. num - 1
    /\ UNCHANGED <<queue, serve, irq, avail, used, lastUsed, handler, kicks,
                   made, resets>>

DriverPublish ==
    /\ phase = "run" /\ made < MaxChains /\ kicks < Vcpus
    /\ \E d \in free :
        /\ table' = [table EXCEPT ![d] = made + 1]
        /\ availRing' = [availRing EXCEPT ![availIdx % num] = d]
        /\ free' = free \ {d}
    /\ availIdx' = WrappingNext(availIdx)
    /\ made' = made + 1 /\ kicks' = kicks + 1
    /\ UNCHANGED <<queue, serve, irq, used, phase, lastUsed, handler, resets>>

\* The line is high: the handler writes INTERRUPT_ACK, ...
DriverAck ==
    /\ phase = "run" /\ handler = "wait" /\ line /\ dpc = "idle"
    /\ SyncIrq(0)
    /\ handler' = "drain"
    /\ UNCHANGED <<queue, serve, avail, used, phase, free, lastUsed, kicks,
                   made, resets>>

\* ... takes one completion after the other, ...
DriverTake ==
    /\ phase = "run" /\ handler = "drain" /\ lastUsed # usedIdx
    /\ free' = free \cup {usedRing[lastUsed % num]}
    /\ lastUsed' = WrappingNext(lastUsed)
    /\ UNCHANGED <<queue, serve, irq, avail, used, phase, handler, kicks, made,
                   resets>>

\* ... and returns when it sees no more.
DriverReturn ==
    /\ phase = "run" /\ handler = "drain" /\ lastUsed = usedIdx
    /\ handler' = "wait"
    /\ UNCHANGED <<queue, serve, irq, avail, used, phase, free, lastUsed,
                   kicks, made, resets>>

-----------------------------------------------------------------------------
Device == Notify \/ ReadSlot \/ PushElement \/ PushIndex \/ Finish

SetUp ==
    \/ \E v \in Nums : SetNum(v)
    \/ \E r \in DOMAIN room, k \in Rooms : SetRing(r, k)
    \/ \E v \in BOOLEAN : SetReady(v)

Handler == DriverAck \/ DriverTake \/ DriverReturn

Next == SetUp \/ Reset \/ Device \/ DriverStart \/ DriverPublish \/ Handler

Spec == Init /\ [][Next]_vars

\* The vCPU in the notify runs on, and so does the driver's handler.
FairSpec == Spec /\ WF_vars(Device) /\ WF_vars(Handler)

-----------------------------------------------------------------------------
(* Properties. *)

\* A queue is served only where its rings lie in guest memory whole, whatever
\* was written to the size and the addresses since it was made ready.
ServedInBounds == (IsReady \/ dpc # "idle") => RingsFit

\* The level Irq::set records is the line's, so that a change that failed is
\* tried again by the next access.  Outside an access, a completion the driver
\* has not come for has its interrupt: the status is set, or the handler is on
\* its way to take it.
NoLostInterrupt ==
    /\ high = line
    /\ dpc = "idle" /\ phase = "run" /\ lastUsed # usedIdx =>
           isr # 0 \/ handler = "drain"

\* The slot, in a ring of n, of the k-th index from i on.
SlotFrom(n, i, k) == ((i + k) % IndexWrap) % n

\* How many chains the available ring holds for the device, and the used ring
\* for the driver, and the descriptor each of them is at.
ToServe == WrappingSub(availIdx, usedIdx)
ToTake == WrappingSub(usedIdx, lastUsed)
AvailAt(k) == availRing[SlotFrom(num, usedIdx, k)]
UsedAt(k) == usedRing[SlotFrom(num, lastUsed, k)]

Published == IF phase = "run" THEN [k \in 1 .. ToServe |-> table[AvailAt(k - 1)]] ELSE <<>>
Completed == IF phase = "run" THEN [k \in 1 .. ToTake |-> table[UsedAt(k - 1)]] ELSE <<>>

\* The rings serve each published chain once and in order, across the wrap of
\* the indices, a resize and a reset: they implement ChainQueue.
Abstract == INSTANCE ChainQueue WITH Chains <- 1 .. MaxChains,
                                     published <- Published, completed <- Completed
ImplementsChainQueue == Abstract!AbsSpec

-----------------------------------------------------------------------------
(***************************************************************************)
(* Bounds and interrupts, for any sizes, rooms, numbers of vCPUs and of     *)
(* chains, resets and faults of the line.                                   *)
(*                                                                          *)
(* The interrupt needs two facts beside it.  A completion that nobody comes *)
(* for may also be one of the notify being served, which raises it at its   *)
(* end.  While the queue is set up nothing was published or completed, so a *)
(* notify left over from before a reset finds nothing to serve.             *)
(***************************************************************************)

Announced ==
    phase = "run" /\ lastUsed # usedIdx =>
        isr # 0 \/ handler = "drain" \/ (dpc # "idle" /\ serviced)

SetUpIsEmpty ==
    phase = "setup" =>
        /\ availIdx = 0 /\ lastAvail = 0 /\ usedIdx = 0 /\ lastUsed = 0
        /\ dpc # "idle" => dpc = "serve" /\ todo = 0 /\ last = 0

RecordIsLine == high = line

Inv == ServedInBounds /\ Announced /\ SetUpIsEmpty /\ RecordIsLine

\* Zenon proves what follows by logic alone; the leaves that need arithmetic or
\* functions name SMT.
USE Zenon

LEMMA InitInv == Init => Inv
BY DEF Init, Inv, ServedInBounds, Announced, SetUpIsEmpty, RecordIsLine, IsReady, RingsFit

\* Nothing is pending between two indices that agree.
LEMMA NonePending == WrappingSub(0, 0) = 0
BY WrapAssumption, SMTT(30) DEF WrappingSub

LEMMA NextInv ==
  ASSUME Inv, [Next]_vars
  PROVE  Inv'
<1> USE DEF Inv, ServedInBounds, Announced, SetUpIsEmpty, RecordIsLine, IsReady, RingsFit
<1>1. ASSUME NEW v \in Nums, SetNum(v) PROVE Inv'
  BY <1>1 DEF SetNum, Register, SyncIrq, IrqSet, irq, serve, avail, used, driver
<1>2. ASSUME NEW r \in DOMAIN room, NEW k \in Rooms, SetRing(r, k) PROVE Inv'
  BY <1>2 DEF SetRing, Register, SyncIrq, IrqSet, irq, serve, avail, used, driver
<1>3. ASSUME NEW v \in BOOLEAN, SetReady(v) PROVE Inv'
  BY <1>3 DEF SetReady, Register, SyncIrq, IrqSet, irq, serve, avail, used, driver
<1>4. CASE Reset
  BY <1>4 DEF Reset, SyncIrq, IrqSet, irq, serve
<1>5. CASE Notify
  <2>1. CASE IsReady /\ Pending >= 0
    <3>1. phase = "setup" => Pending = 0
      BY <2>1, NonePending, SMTT(30) DEF Pending
    <3> QED BY <1>5, <2>1, <3>1 DEF Notify, queue, irq, avail, used
  <2>2. CASE ~(IsReady /\ Pending >= 0)
    BY <1>5, <2>2, SMTT(30) DEF Notify, SyncIrq, IrqSet, irq, queue, serve, avail, used
  <2> QED BY <2>1, <2>2
<1>6. CASE ReadSlot
  BY <1>6, SMTT(30) DEF ReadSlot, queue, irq, avail, used, driver
<1>7. CASE PushElement
  BY <1>7 DEF PushElement, queue, irq, avail, driver
<1>8. CASE PushIndex
  BY <1>8 DEF PushIndex, queue, irq, avail, driver
<1>9. CASE Finish
  BY <1>9, SMTT(30) DEF Finish, SyncIrq, IrqSet, irq, avail, used, driver
<1>10. CASE DriverStart
  BY <1>10 DEF DriverStart, queue, serve, irq, avail, used
<1>11. CASE DriverPublish
  BY <1>11 DEF DriverPublish, queue, serve, irq, used
<1>12. CASE DriverAck
  BY <1>12 DEF DriverAck, SyncIrq, IrqSet, irq, queue, serve, avail, used
<1>13. CASE DriverTake
  BY <1>13 DEF DriverTake, queue, serve, irq, avail, used
<1>14. CASE DriverReturn
  BY <1>14 DEF DriverReturn, queue, serve, irq, avail, used
<1>15. CASE UNCHANGED vars
  BY <1>15 DEF vars, queue, serve, irq, avail, used, driver
<1> QED
  BY <1>1, <1>2, <1>3, <1>4, <1>5, <1>6, <1>7, <1>8, <1>9, <1>10, <1>11, <1>12, <1>13, <1>14,
     <1>15 DEF Next, SetUp, Device, Handler

\* A queue is served only in rings that lie in guest memory whole.
THEOREM ServesInBounds == Spec => []ServedInBounds
<1>1. Inv => ServedInBounds
  BY DEF Inv
<1> QED BY <1>1, InitInv, NextInv, PTL DEF Spec

\* No completion waits without its interrupt.
THEOREM InterruptsAreKept == Spec => []NoLostInterrupt
<1>1. Inv => NoLostInterrupt
  BY DEF Inv, Announced, RecordIsLine, NoLostInterrupt
<1> QED BY <1>1, InitInv, NextInv, PTL DEF Spec
-----------------------------------------------------------------------------
(***************************************************************************)
(* The rings implement ChainQueue.  An index and a slot are residues, so   *)
(* the argument is in distances: ToServe entries from usedIdx on are the   *)
(* device's, ToTake entries from lastUsed on are the driver's.  With the   *)
(* free descriptors they make up the whole table (TableIsShared): no       *)
(* descriptor is in two places, so a publication or a push never meets a   *)
(* slot or a chain that is still in use.  The device's loop is at the      *)
(* first entry that is its own (LoopIsNext).                               *)
(***************************************************************************)

Indices == 0 .. IndexWrap - 1
Sizes == {v \in PowersOfTwo : v <= QueueNumMax}

LEMMA DistanceType ==
  ASSUME NEW a \in Indices, NEW b \in Indices
  PROVE  /\ WrappingSub(a, b) \in Indices
         /\ WrappingSub(a, b) = 0 <=> a = b
BY WrapAssumption, SMTT(30) DEF WrappingSub, Indices

LEMMA NextType ==
  ASSUME NEW a \in Indices
  PROVE  WrappingNext(a) \in Indices
BY WrapAssumption, SMTT(30) DEF WrappingNext, Indices

\* The far end of a window that is not full moves on, ...
LEMMA FarEnd ==
  ASSUME NEW a \in Indices, NEW b \in Indices, WrappingSub(a, b) < IndexWrap - 1
  PROVE  WrappingSub(WrappingNext(a), b) = WrappingSub(a, b) + 1
BY WrapAssumption, SMTT(30) DEF WrappingSub, WrappingNext, Indices

\* ... and the near end of one that is not empty.
LEMMA NearEnd ==
  ASSUME NEW a \in Indices, NEW b \in Indices, a # b
  PROVE  WrappingSub(a, WrappingNext(b)) = WrappingSub(a, b) - 1
BY WrapAssumption, SMTT(30) DEF WrappingSub, WrappingNext, Indices

LEMMA SlotType ==
  ASSUME NEW n \in Sizes, NEW i \in Indices, NEW k \in Nat
  PROVE  /\ SlotFrom(n, i, k) \in 0 .. n - 1 /\ SlotFrom(n, i, k) \in Slots
         /\ i % n \in Slots
BY SizesAssumption, SMTT(30) DEF SlotFrom, Sizes, Indices, Slots, PowersOfTwo

LEMMA SlotHere ==
  ASSUME NEW n \in Sizes, NEW i \in Indices
  PROVE  SlotFrom(n, i, 0) = i % n
BY WrapAssumption, SMTT(30) DEF SlotFrom, Indices

LEMMA SlotAtEnd ==
  ASSUME NEW n \in Sizes, NEW a \in Indices, NEW b \in Indices
  PROVE  SlotFrom(n, b, WrappingSub(a, b)) = a % n
<1>1. (b + WrappingSub(a, b)) % IndexWrap = a
  BY WrapAssumption, SMTT(30) DEF WrappingSub, Indices
<1> QED BY <1>1 DEF SlotFrom

LEMMA SlotMoves ==
  ASSUME NEW n \in Sizes, NEW i \in Indices, NEW k \in Indices
  PROVE  SlotFrom(n, WrappingNext(i), k) = SlotFrom(n, i, k + 1)
<1>1. (WrappingNext(i) + k) % IndexWrap = (i + (k + 1)) % IndexWrap
  BY WrapAssumption, SMTT(30) DEF WrappingNext, Indices
<1> QED BY <1>1 DEF SlotFrom

\* A power of two divides a larger one, ...
LEMMA PowersDivide ==
  ASSUME NEW w \in PowersOfTwo, NEW n \in PowersOfTwo, n <= w, NEW x \in Int
  PROVE  (x - w) % n = x % n
BY SMTT(30) DEF PowersOfTwo

LEMMA ResiduesDiffer ==
  ASSUME NEW n \in PowersOfTwo, NEW x \in Int, NEW k \in 1 .. n - 1
  PROVE  (x + k) % n # x % n
BY SMTT(30) DEF PowersOfTwo

\* ... so the wrap of the index does not disturb the slots: n indices in a row
\* have n slots.
LEMMA SlotsDiffer ==
  ASSUME NEW n \in Sizes, NEW i \in Indices, NEW k \in 0 .. n - 1, NEW l \in 0 .. n - 1, k # l
  PROVE  SlotFrom(n, i, k) # SlotFrom(n, i, l)
<1>1. n \in PowersOfTwo /\ n \in Nat /\ n <= IndexWrap /\ IndexWrap \in Nat
  BY SizesAssumption, WrapAssumption, SMTT(30) DEF Sizes, PowersOfTwo
<1>2. ASSUME NEW m \in 0 .. n - 1 PROVE SlotFrom(n, i, m) = (i + m) % n
  <2>1. (i + m) % IndexWrap = IF i + m < IndexWrap THEN i + m ELSE (i + m) - IndexWrap
    BY <1>1, WrapAssumption, SMTT(30) DEF Indices
  <2>2. i + m \in Int
    BY <1>1, SMTT(30) DEF Indices
  <2>3. ((i + m) - IndexWrap) % n = (i + m) % n
    BY <1>1, <2>2, PowersDivide, SizesAssumption
  <2> QED BY <2>1, <2>3 DEF SlotFrom
<1>3. ASSUME NEW p \in 0 .. n - 1, NEW q \in 0 .. n - 1, p < q
      PROVE  SlotFrom(n, i, p) # SlotFrom(n, i, q)
  <2>1. i + p \in Int /\ q - p \in 1 .. n - 1 /\ (i + p) + (q - p) = i + q
    BY <1>1, <1>3, SMTT(30) DEF Indices
  <2>2. ((i + p) + (q - p)) % n # (i + p) % n
    BY <1>1, <2>1, ResiduesDiffer
  <2> QED BY <1>2, <2>1, <2>2
<1>4. k < l \/ l < k
  BY <1>1, SMTT(30)
<1> QED BY <1>3, <1>4, SMTT(30)

\* The types the argument needs.
RingTypes ==
    /\ num \in Sizes \cup {0}
    /\ phase \in {"setup", "run"} /\ dpc \in {"idle", "serve", "element", "index"}
    /\ {availIdx, usedIdx, lastUsed, lastAvail, last} \subseteq Indices
    /\ todo \in Nat /\ made \in 0 .. MaxChains
    /\ availRing \in [Slots -> Slots] /\ usedRing \in [Slots -> Slots]
    /\ table \in [Slots -> Nat] /\ head \in Slots
    /\ free \subseteq Slots

TableIsShared ==
    phase = "run" =>
        /\ num \in Sizes
        /\ free \subseteq 0 .. num - 1
        /\ ToServe + ToTake + Cardinality(free) = num
        /\ \A k \in 0 .. ToServe - 1 : AvailAt(k) \in (0 .. num - 1) \ free
        /\ \A k \in 0 .. ToTake - 1 : UsedAt(k) \in (0 .. num - 1) \ free
        /\ \A k \in 0 .. ToServe - 1, l \in 0 .. ToServe - 1 : AvailAt(k) = AvailAt(l) => k = l
        /\ \A k \in 0 .. ToTake - 1, l \in 0 .. ToTake - 1 : UsedAt(k) = UsedAt(l) => k = l
        /\ \A k \in 0 .. ToServe - 1, l \in 0 .. ToTake - 1 : AvailAt(k) # UsedAt(l)

LoopIsNext ==
    phase = "run" =>
        /\ dpc = "idle" => lastAvail = usedIdx
        /\ dpc # "idle" => last = usedIdx /\ todo <= ToServe
        /\ dpc \in {"element", "index"} => todo > 0 /\ head = AvailAt(0)
        /\ dpc = "index" => usedRing[usedIdx % num] = head

RingInv == Inv /\ RingTypes /\ TableIsShared /\ LoopIsNext

\* What the rings, the driver and the table hold.
rings == <<phase, num, availIdx, availRing, table, usedIdx, usedRing, lastUsed, free>>

LEMMA SizesType ==
  ASSUME NEW n \in Sizes
  PROVE  n \in Nat \ {0} /\ n <= QueueNumMax /\ n < IndexWrap /\ n \in PowersOfTwo
BY SizesAssumption, SMTT(30) DEF Sizes, PowersOfTwo

LEMMA WindowTypes ==
  ASSUME RingTypes
  PROVE  /\ ToServe \in Nat /\ ToTake \in Nat
         /\ ToServe = 0 <=> availIdx = usedIdx
         /\ ToTake = 0 <=> usedIdx = lastUsed
<1>1. IndexWrap \in Nat
  BY WrapAssumption
<1> QED BY <1>1, DistanceType, SMTT(30) DEF RingTypes, ToServe, ToTake, Indices

LEMMA FreeIsFinite ==
  ASSUME RingInv, phase = "run"
  PROVE  IsFiniteSet(free) /\ Cardinality(free) \in Nat /\ free \subseteq 0 .. num - 1
<1>1. num \in Nat /\ free \subseteq 0 .. num - 1
  BY SizesType DEF RingInv, TableIsShared
<1>2. IsFiniteSet(0 .. num - 1)
  BY <1>1, FS_Interval, SMTT(30)
<1> QED BY <1>1, <1>2, FS_Subset, FS_CardinalityType

LEMMA StandStill ==
  ASSUME TableIsShared, UNCHANGED rings
  PROVE  TableIsShared' /\ UNCHANGED <<Published, Completed>>
<1>1. UNCHANGED <<phase, num, free, table, ToServe, ToTake>>
  BY DEF rings, ToServe, ToTake
<1>2. \A k : AvailAt(k)' = AvailAt(k) /\ UsedAt(k)' = UsedAt(k)
  BY DEF rings, AvailAt, UsedAt
<1> QED BY <1>1, <1>2 DEF TableIsShared, Published, Completed

\* DriverPublish: the slot at the end of the available window is outside both
\* windows, as is the chain of a free descriptor.
LEMMA PublishStep ==
  ASSUME RingInv, DriverPublish
  PROVE  /\ RingTypes' /\ TableIsShared' /\ LoopIsNext'
         /\ \E c \in 1 .. MaxChains : Published' = Append(Published, c) /\ Completed' = Completed
<1>1. PICK d \in free : /\ table' = [table EXCEPT ![d] = made + 1]
                        /\ availRing' = [availRing EXCEPT ![availIdx % num] = d]
                        /\ free' = free \ {d}
  BY DEF DriverPublish
<1>2. /\ phase = "run" /\ made < MaxChains /\ made' = made + 1
      /\ availIdx' = WrappingNext(availIdx)
      /\ UNCHANGED <<num, lastAvail, dpc, last, todo, head, usedIdx, usedRing, phase, lastUsed>>
  BY SMTT(30) DEF DriverPublish, queue, serve, used
<1>3. /\ num \in Sizes /\ num \in Nat \ {0} /\ num <= QueueNumMax /\ num < IndexWrap
      /\ QueueNumMax \in Nat /\ IndexWrap \in Nat
  BY <1>2, SizesType, WrapAssumption, SizesAssumption, SMTT(30) DEF RingInv, TableIsShared,
     PowersOfTwo
<1>4. /\ Cardinality(free) \in Nat \ {0} /\ Cardinality(free') = Cardinality(free) - 1
      /\ d \in 0 .. num - 1
  <2>1. IsFiniteSet(free) /\ Cardinality(free) \in Nat /\ free \subseteq 0 .. num - 1
    BY <1>2, FreeIsFinite
  <2>2. Cardinality(free) # 0
    BY <1>1, <2>1, FS_EmptySet
  <2>3. Cardinality(free \ {d}) = Cardinality(free) - 1
    BY <1>1, <2>1, FS_RemoveElement
  <2> QED BY <1>1, <2>1, <2>2, <2>3
<1>5. PICK p \in Nat, c \in Nat : p = ToServe /\ c = ToTake
  BY WindowTypes DEF RingInv
<1>6. /\ p + c + Cardinality(free) = num /\ p \in 0 .. num - 1 /\ p < IndexWrap - 1
      /\ d \in Slots
  <2>1. p + c + Cardinality(free) = num
    BY <1>2, <1>5 DEF RingInv, TableIsShared
  <2> QED BY <1>3, <1>4, <2>1, SMTT(30) DEF Slots
<1>7. ToServe' = p + 1 /\ ToTake' = c
  <2>1. availIdx \in Indices /\ usedIdx \in Indices
    BY DEF RingInv, RingTypes
  <2> QED BY <1>2, <1>5, <1>6, <2>1, FarEnd DEF ToServe, ToTake
<1>8. SlotFrom(num, usedIdx, p) = availIdx % num /\ availIdx % num \in Slots
  BY <1>3, <1>5, SlotAtEnd, SlotType DEF RingInv, RingTypes, ToServe
<1>9. \A k \in 0 .. p - 1 : AvailAt(k)' = AvailAt(k)
  <2> TAKE k \in 0 .. p - 1
  <2>1. SlotFrom(num, usedIdx, k) # availIdx % num
    <3>1. k \in 0 .. num - 1 /\ k # p
      BY <1>3, <1>6, SMTT(30)
    <3> QED BY <1>3, <1>6, <1>8, <3>1, SlotsDiffer DEF RingInv, RingTypes
  <2> QED BY <1>1, <1>2, <2>1, SMTT(30) DEF AvailAt, RingInv, RingTypes
<1>10. AvailAt(p)' = d
  BY <1>1, <1>2, <1>8 DEF AvailAt, RingInv, RingTypes
<1>11. \A k : UsedAt(k)' = UsedAt(k)
  BY <1>2 DEF UsedAt
<1>12. /\ \A k \in 0 .. p - 1 : AvailAt(k) \in (0 .. num - 1) \ free
       /\ \A k \in 0 .. c - 1 : UsedAt(k) \in (0 .. num - 1) \ free
       /\ \A k \in 0 .. p - 1, l \in 0 .. p - 1 : AvailAt(k) = AvailAt(l) => k = l
       /\ \A k \in 0 .. c - 1, l \in 0 .. c - 1 : UsedAt(k) = UsedAt(l) => k = l
       /\ \A k \in 0 .. p - 1, l \in 0 .. c - 1 : AvailAt(k) # UsedAt(l)
  BY <1>2, <1>5 DEF RingInv, TableIsShared
<1>13. \A k \in 0 .. p : k = p \/ k \in 0 .. p - 1
  BY SMTT(30)
<1>14. RingTypes'
  <2>1. made' \in 0 .. MaxChains /\ made + 1 \in Nat /\ availIdx' \in Indices
    BY <1>2, NextType, ChainsAssumption, SMTT(30) DEF RingInv, RingTypes
  <2>2. availRing' \in [Slots -> Slots] /\ table' \in [Slots -> Nat] /\ free' \subseteq Slots
    BY <1>1, <1>6, <2>1 DEF RingInv, RingTypes
  <2> QED BY <1>2, <2>1, <2>2 DEF RingInv, RingTypes
<1>15. TableIsShared'
  <2>1. (p + 1) - 1 = p /\ (p + 1) + c + Cardinality(free') = num
    BY <1>4, <1>6, SMTT(30)
  <2>2. \A k \in 0 .. p : AvailAt(k)' \in (0 .. num - 1) \ free'
    BY <1>1, <1>4, <1>9, <1>10, <1>12, <1>13, SMTT(30)
  <2>3. \A k \in 0 .. c - 1 : UsedAt(k)' \in (0 .. num - 1) \ free'
    BY <1>1, <1>11, <1>12
  <2>4. \A k \in 0 .. p, l \in 0 .. p : AvailAt(k)' = AvailAt(l)' => k = l
    BY <1>1, <1>9, <1>10, <1>12, <1>13, SMTT(30)
  <2>5. \A k \in 0 .. p, l \in 0 .. c - 1 : AvailAt(k)' # UsedAt(l)'
    BY <1>1, <1>9, <1>10, <1>11, <1>12, <1>13, SMTT(30)
  <2>6. free' \subseteq 0 .. num - 1
    BY <1>1, <1>2, FreeIsFinite
  <2> QED BY <1>2, <1>3, <1>7, <1>11, <1>12, <2>1, <2>2, <2>3, <2>4, <2>5, <2>6 DEF TableIsShared
<1>16. LoopIsNext'
  <2>1. dpc \in {"element", "index"} => AvailAt(0)' = AvailAt(0)
    <3>1. dpc \in {"element", "index"} => p > 0
      BY <1>2, <1>5, SMTT(30) DEF RingInv, RingTypes, LoopIsNext
    <3> QED BY <1>9, <3>1, SMTT(30)
  <2>2. dpc # "idle" => todo <= p + 1
    BY <1>2, <1>5, SMTT(30) DEF RingInv, RingTypes, LoopIsNext
  <2> QED BY <1>2, <1>7, <2>1, <2>2 DEF RingInv, LoopIsNext
<1>17. Published' = Append(Published, made + 1)
  <2>1. Published = [k \in 1 .. p |-> table[AvailAt(k - 1)]]
    BY <1>2, <1>5 DEF Published
  <2>2. Published' = [k \in 1 .. p + 1 |-> table'[AvailAt(k - 1)']]
    BY <1>2, <1>7 DEF Published
  <2>3. \A k \in 1 .. p : table'[AvailAt(k - 1)'] = table[AvailAt(k - 1)]
    <3> TAKE k \in 1 .. p
    <3>1. k - 1 \in 0 .. p - 1
      BY SMTT(30)
    <3> QED BY <1>1, <1>9, <1>12, <3>1, SMTT(30) DEF RingInv, RingTypes
  <2>4. table'[AvailAt((p + 1) - 1)'] = made + 1
    <3>1. (p + 1) - 1 = p
      BY SMTT(30)
    <3>2. table'[d] = made + 1
      BY <1>1, <1>6 DEF RingInv, RingTypes
    <3> QED BY <1>10, <3>1, <3>2
  <2> QED BY <2>1, <2>2, <2>3, <2>4, SMTT(30)
<1>18. Completed' = Completed
  <2>1. \A k \in 1 .. c : table'[UsedAt(k - 1)'] = table[UsedAt(k - 1)]
    <3> TAKE k \in 1 .. c
    <3>1. k - 1 \in 0 .. c - 1
      BY SMTT(30)
    <3> QED BY <1>1, <1>11, <1>12, <3>1, SMTT(30) DEF RingInv, RingTypes
  <2> QED BY <1>2, <1>5, <1>7, <2>1 DEF Completed
<1>19. made + 1 \in 1 .. MaxChains
  BY <1>2, ChainsAssumption, SMTT(30) DEF RingInv, RingTypes
<1> QED BY <1>14, <1>15, <1>16, <1>17, <1>18, <1>19

\* PushElement: the slot at the end of the used window is outside it.
LEMMA ElementStep ==
  ASSUME RingInv, PushElement, phase = "run"
  PROVE  /\ RingTypes' /\ TableIsShared' /\ LoopIsNext'
         /\ UNCHANGED <<Published, Completed>>
<1>1. /\ dpc = "element" /\ dpc' = "index"
      /\ usedRing' = [usedRing EXCEPT ![usedIdx % num] = head]
      /\ UNCHANGED <<num, lastAvail, last, todo, head, availIdx, availRing, table, usedIdx, phase,
                     free, lastUsed, made>>
  BY DEF PushElement, queue, avail, driver
<1>2. /\ num \in Sizes /\ num \in Nat \ {0} /\ num <= QueueNumMax /\ num < IndexWrap
      /\ IsFiniteSet(free) /\ Cardinality(free) \in Nat
  BY SizesType, FreeIsFinite DEF RingInv, TableIsShared
<1>3. PICK p \in Nat, c \in Nat : p = ToServe /\ c = ToTake
  BY WindowTypes DEF RingInv
<1>4. p + c + Cardinality(free) = num /\ p > 0 /\ c \in 0 .. num - 1
  <2>1. p + c + Cardinality(free) = num
    BY <1>3 DEF RingInv, TableIsShared
  <2>2. todo \in Nat /\ todo <= p /\ todo > 0
    BY <1>1, <1>3 DEF RingInv, RingTypes, LoopIsNext
  <2> QED BY <1>2, <2>1, <2>2, SMTT(30)
<1>5. SlotFrom(num, lastUsed, c) = usedIdx % num /\ usedIdx % num \in Slots
  BY <1>2, <1>3, SlotAtEnd, SlotType DEF RingInv, RingTypes, ToTake
<1>6. \A k \in 0 .. c - 1 : UsedAt(k)' = UsedAt(k)
  <2> TAKE k \in 0 .. c - 1
  <2>1. SlotFrom(num, lastUsed, k) # usedIdx % num
    <3>1. k \in 0 .. num - 1 /\ k # c
      BY <1>2, <1>4, SMTT(30)
    <3> QED BY <1>2, <1>4, <1>5, <3>1, SlotsDiffer DEF RingInv, RingTypes
  <2> QED BY <1>1, <2>1, SMTT(30) DEF UsedAt, RingInv, RingTypes
<1>7. (\A k : AvailAt(k)' = AvailAt(k)) /\ ToServe' = p /\ ToTake' = c
  BY <1>1, <1>3 DEF AvailAt, ToServe, ToTake
<1>8. RingTypes'
  <2>1. usedRing' \in [Slots -> Slots]
    BY <1>1, <1>5 DEF RingInv, RingTypes
  <2> QED BY <1>1, <2>1 DEF RingInv, RingTypes
<1>9. TableIsShared'
  BY <1>1, <1>2, <1>3, <1>6, <1>7, SMTT(30) DEF RingInv, TableIsShared
<1>10. LoopIsNext'
  <2>1. usedRing'[usedIdx % num] = head
    BY <1>1, <1>5 DEF RingInv, RingTypes
  <2> QED BY <1>1, <1>3, <1>7, <2>1 DEF RingInv, LoopIsNext
<1>11. Published' = Published
  BY <1>1, <1>3, <1>7 DEF Published
<1>12. Completed' = Completed
  <2>1. \A k \in 1 .. c : UsedAt(k - 1)' = UsedAt(k - 1)
    BY <1>6, SMTT(30)
  <2> QED BY <1>1, <1>3, <1>7, <2>1 DEF Completed
<1> QED BY <1>8, <1>9, <1>10, <1>11, <1>12

\* PushIndex: the first entry of the available window becomes the last of the
\* used one.
LEMMA IndexStep ==
  ASSUME RingInv, PushIndex, phase = "run"
  PROVE  /\ RingTypes' /\ TableIsShared' /\ LoopIsNext'
         /\ Published # <<>>
         /\ Published' = Tail(Published) /\ Completed' = Append(Completed, Head(Published))
<1>1. /\ dpc = "index" /\ dpc' = "serve"
      /\ usedIdx' = WrappingNext(usedIdx) /\ last' = WrappingNext(last) /\ todo' = todo - 1
      /\ UNCHANGED <<num, lastAvail, head, availIdx, availRing, table, usedRing, phase,
                     free, lastUsed, made>>
  BY DEF PushIndex, queue, avail, driver
<1>2. /\ num \in Sizes /\ num \in Nat \ {0} /\ num <= QueueNumMax /\ num < IndexWrap
      /\ IsFiniteSet(free) /\ Cardinality(free) \in Nat /\ IndexWrap \in Nat
  BY SizesType, FreeIsFinite, WrapAssumption DEF RingInv, TableIsShared
<1>3. PICK p \in Nat, c \in Nat : p = ToServe /\ c = ToTake
  BY WindowTypes DEF RingInv
<1>4. /\ p + c + Cardinality(free) = num /\ p > 0 /\ c < IndexWrap - 1 /\ p < IndexWrap
      /\ todo \in Nat /\ todo <= p /\ todo > 0
  <2>1. p + c + Cardinality(free) = num
    BY <1>3 DEF RingInv, TableIsShared
  <2>2. todo \in Nat /\ todo <= p /\ todo > 0
    BY <1>1, <1>3 DEF RingInv, RingTypes, LoopIsNext
  <2> QED BY <1>2, <2>1, <2>2, SMTT(30)
<1>5. availIdx \in Indices /\ usedIdx \in Indices /\ lastUsed \in Indices /\ availIdx # usedIdx
  BY <1>3, <1>4, WindowTypes, SMTT(30) DEF RingInv, RingTypes
<1>6. ToServe' = p - 1 /\ ToTake' = c + 1
  BY <1>1, <1>3, <1>4, <1>5, FarEnd, NearEnd DEF ToServe, ToTake
<1>7. \A k \in 0 .. p - 2 : AvailAt(k)' = AvailAt(k + 1)
  <2> TAKE k \in 0 .. p - 2
  <2>1. k \in Indices
    BY <1>4, <1>2, SMTT(30) DEF Indices
  <2> QED BY <1>1, <1>2, <1>5, <2>1, SlotMoves DEF AvailAt
<1>8. \A k : UsedAt(k)' = UsedAt(k)
  BY <1>1 DEF UsedAt
<1>9. UsedAt(c) = AvailAt(0)
  <2>1. SlotFrom(num, lastUsed, c) = usedIdx % num
    BY <1>2, <1>3, <1>5, SlotAtEnd DEF ToTake
  <2> QED BY <1>1, <2>1 DEF UsedAt, RingInv, LoopIsNext
<1>10. /\ \A k \in 0 .. p - 1 : AvailAt(k) \in (0 .. num - 1) \ free
       /\ \A k \in 0 .. c - 1 : UsedAt(k) \in (0 .. num - 1) \ free
       /\ \A k \in 0 .. p - 1, l \in 0 .. p - 1 : AvailAt(k) = AvailAt(l) => k = l
       /\ \A k \in 0 .. c - 1, l \in 0 .. c - 1 : UsedAt(k) = UsedAt(l) => k = l
       /\ \A k \in 0 .. p - 1, l \in 0 .. c - 1 : AvailAt(k) # UsedAt(l)
  BY <1>3 DEF RingInv, TableIsShared
<1>11. /\ \A k \in 0 .. c : k = c \/ k \in 0 .. c - 1
       /\ \A k \in 0 .. p - 2 : k + 1 \in 0 .. p - 1 /\ k + 1 # 0
       /\ 0 \in 0 .. p - 1
  BY <1>4, SMTT(30)
<1>12. RingTypes'
  <2>1. usedIdx' \in Indices /\ last' \in Indices
    BY <1>1, NextType DEF RingInv, RingTypes
  <2>2. todo' \in Nat
    BY <1>1, <1>4, SMTT(30)
  <2> QED BY <1>1, <2>1, <2>2 DEF RingInv, RingTypes
<1>13. TableIsShared'
  <2>1. (p - 1) - 1 = p - 2 /\ (c + 1) - 1 = c /\ (p - 1) + (c + 1) + Cardinality(free) = num
    BY <1>2, <1>4, SMTT(30)
  <2>2. \A k \in 0 .. p - 2 : AvailAt(k)' \in (0 .. num - 1) \ free
    BY <1>7, <1>10, <1>11, SMTT(30)
  <2>3. \A k \in 0 .. c : UsedAt(k)' \in (0 .. num - 1) \ free
    BY <1>8, <1>9, <1>10, <1>11, SMTT(30)
  <2>4. \A k \in 0 .. p - 2, l \in 0 .. p - 2 : AvailAt(k)' = AvailAt(l)' => k = l
    <3> TAKE k \in 0 .. p - 2, l \in 0 .. p - 2
    <3>1. AvailAt(k + 1) = AvailAt(l + 1) => k + 1 = l + 1
      BY <1>10, <1>11, SMTT(30)
    <3> QED BY <1>7, <3>1, SMTT(30)
  <2>5. \A k \in 0 .. c, l \in 0 .. c : UsedAt(k)' = UsedAt(l)' => k = l
    BY <1>8, <1>9, <1>10, <1>11
  <2>6. \A k \in 0 .. p - 2, l \in 0 .. c : AvailAt(k)' # UsedAt(l)'
    BY <1>7, <1>8, <1>9, <1>10, <1>11
  <2>7. free \subseteq 0 .. num - 1
    BY FreeIsFinite
  <2> QED BY <1>1, <1>2, <1>6, <2>1, <2>2, <2>3, <2>4, <2>5, <2>6, <2>7 DEF TableIsShared
<1>14. LoopIsNext'
  <2>1. last = usedIdx /\ todo - 1 <= p - 1
    BY <1>1, <1>4, SMTT(30) DEF RingInv, LoopIsNext
  <2> QED BY <1>1, <1>6, <2>1 DEF LoopIsNext
<1>15. Published = [k \in 1 .. p |-> table[AvailAt(k - 1)]]
  BY <1>3 DEF Published
<1>16. Completed = [k \in 1 .. c |-> table[UsedAt(k - 1)]]
  BY <1>3 DEF Completed
<1>17. Published # <<>> /\ Head(Published) = table[AvailAt(0)] /\ Len(Published) = p
  BY <1>4, <1>15, SMTT(30)
<1>18. Published' = Tail(Published)
  <2>1. Published' = [k \in 1 .. p - 1 |-> table[AvailAt(k - 1)']]
    BY <1>1, <1>6 DEF Published
  <2>2. \A k \in 1 .. p - 1 : AvailAt(k - 1)' = AvailAt((k + 1) - 1)
    <3> TAKE k \in 1 .. p - 1
    <3>1. k - 1 \in 0 .. p - 2 /\ (k - 1) + 1 = (k + 1) - 1
      BY SMTT(30)
    <3> QED BY <1>7, <3>1
  <2>3. Tail(Published) = [k \in 1 .. p - 1 |-> table[AvailAt((k + 1) - 1)]]
    BY <1>4, <1>15, SMTT(30)
  <2> QED BY <2>1, <2>2, <2>3
<1>19. Completed' = Append(Completed, Head(Published))
  <2>1. Completed' = [k \in 1 .. c + 1 |-> table[UsedAt(k - 1)]]
    BY <1>1, <1>6, <1>8 DEF Completed
  <2>2. (c + 1) - 1 = c
    BY SMTT(30)
  <2> QED BY <1>9, <1>16, <1>17, <2>1, <2>2, SMTT(30)
<1> QED BY <1>12, <1>13, <1>14, <1>17, <1>18, <1>19

\* DriverTake: the first entry of the used window is free again.
LEMMA TakeStep ==
  ASSUME RingInv, DriverTake
  PROVE  /\ RingTypes' /\ TableIsShared' /\ LoopIsNext'
         /\ Completed # <<>>
         /\ Completed' = Tail(Completed) /\ Published' = Published
<1>1. /\ phase = "run" /\ lastUsed # usedIdx
      /\ free' = free \cup {usedRing[lastUsed % num]}
      /\ lastUsed' = WrappingNext(lastUsed)
      /\ UNCHANGED <<num, lastAvail, dpc, last, todo, head, availIdx, availRing, table, usedIdx,
                     usedRing, phase, made>>
  BY SMTT(30) DEF DriverTake, queue, serve, avail, used
<1>2. /\ num \in Sizes /\ num \in Nat \ {0} /\ num <= QueueNumMax /\ num < IndexWrap
      /\ IsFiniteSet(free) /\ Cardinality(free) \in Nat /\ free \subseteq 0 .. num - 1
      /\ IndexWrap \in Nat /\ QueueNumMax \in Nat
  BY <1>1, SizesType, FreeIsFinite, WrapAssumption, SizesAssumption, SMTT(30) DEF RingInv,
     TableIsShared, PowersOfTwo
<1>3. PICK p \in Nat, c \in Nat : p = ToServe /\ c = ToTake
  BY WindowTypes DEF RingInv
<1>4. usedIdx \in Indices /\ lastUsed \in Indices /\ c > 0
  BY <1>1, <1>3, WindowTypes, SMTT(30) DEF RingInv, RingTypes
<1>5. p + c + Cardinality(free) = num /\ c < IndexWrap
  <2>1. p + c + Cardinality(free) = num
    BY <1>1, <1>3 DEF RingInv, TableIsShared
  <2> QED BY <1>2, <2>1, SMTT(30)
<1>6. ToServe' = p /\ ToTake' = c - 1
  BY <1>1, <1>3, <1>4, NearEnd DEF ToServe, ToTake
<1>7. usedRing[lastUsed % num] = UsedAt(0)
  BY <1>2, <1>4, SlotHere DEF UsedAt
<1>8. \A k \in 0 .. c - 2 : UsedAt(k)' = UsedAt(k + 1)
  <2> TAKE k \in 0 .. c - 2
  <2>1. k \in Indices
    BY <1>5, <1>2, SMTT(30) DEF Indices
  <2> QED BY <1>1, <1>2, <1>4, <2>1, SlotMoves DEF UsedAt
<1>9. \A k : AvailAt(k)' = AvailAt(k)
  BY <1>1 DEF AvailAt
<1>10. /\ \A k \in 0 .. p - 1 : AvailAt(k) \in (0 .. num - 1) \ free
       /\ \A k \in 0 .. c - 1 : UsedAt(k) \in (0 .. num - 1) \ free
       /\ \A k \in 0 .. p - 1, l \in 0 .. p - 1 : AvailAt(k) = AvailAt(l) => k = l
       /\ \A k \in 0 .. c - 1, l \in 0 .. c - 1 : UsedAt(k) = UsedAt(l) => k = l
       /\ \A k \in 0 .. p - 1, l \in 0 .. c - 1 : AvailAt(k) # UsedAt(l)
  BY <1>1, <1>3 DEF RingInv, TableIsShared
<1>11. /\ \A k \in 0 .. c - 2 : k + 1 \in 0 .. c - 1 /\ k + 1 # 0
       /\ 0 \in 0 .. c - 1
  BY <1>4, SMTT(30)
<1>12. /\ UsedAt(0) \in 0 .. num - 1 /\ UsedAt(0) \notin free /\ UsedAt(0) \in Slots
       /\ free' = free \cup {UsedAt(0)}
  <2>1. UsedAt(0) \in (0 .. num - 1) \ free
    BY <1>10, <1>11
  <2> QED BY <1>1, <1>2, <1>7, <2>1, SMTT(30) DEF Slots
<1>13. Cardinality(free') = Cardinality(free) + 1
  BY <1>2, <1>12, FS_AddElement
<1>14. RingTypes'
  <2>1. lastUsed' \in Indices
    BY <1>1, <1>4, NextType
  <2> QED BY <1>1, <1>12, <2>1 DEF RingInv, RingTypes
<1>15. TableIsShared'
  <2>1. (c - 1) - 1 = c - 2 /\ p + (c - 1) + Cardinality(free') = num
    BY <1>2, <1>5, <1>13, SMTT(30)
  <2>2. \A k \in 0 .. p - 1 : AvailAt(k)' \in (0 .. num - 1) \ free'
    BY <1>9, <1>10, <1>11, <1>12
  <2>3. \A k \in 0 .. c - 2 : UsedAt(k)' \in (0 .. num - 1) \ free'
    BY <1>8, <1>10, <1>11, <1>12, SMTT(30)
  <2>4. \A k \in 0 .. c - 2, l \in 0 .. c - 2 : UsedAt(k)' = UsedAt(l)' => k = l
    <3> TAKE k \in 0 .. c - 2, l \in 0 .. c - 2
    <3>1. UsedAt(k + 1) = UsedAt(l + 1) => k + 1 = l + 1
      BY <1>10, <1>11, SMTT(30)
    <3> QED BY <1>8, <3>1, SMTT(30)
  <2>5. \A k \in 0 .. p - 1, l \in 0 .. c - 2 : AvailAt(k)' # UsedAt(l)'
    BY <1>8, <1>9, <1>10, <1>11
  <2>6. free' \subseteq 0 .. num - 1
    BY <1>2, <1>12
  <2> QED BY <1>1, <1>2, <1>6, <1>9, <1>10, <2>1, <2>2, <2>3, <2>4, <2>5, <2>6, SMTT(30) DEF
             TableIsShared
<1>16. LoopIsNext'
  BY <1>1, <1>3, <1>6, <1>9 DEF RingInv, LoopIsNext
<1>17. Completed = [k \in 1 .. c |-> table[UsedAt(k - 1)]]
  BY <1>1, <1>3 DEF Completed
<1>18. Completed # <<>> /\ Completed' = Tail(Completed)
  <2>1. Completed' = [k \in 1 .. c - 1 |-> table[UsedAt(k - 1)']]
    BY <1>1, <1>6 DEF Completed
  <2>2. \A k \in 1 .. c - 1 : UsedAt(k - 1)' = UsedAt((k + 1) - 1)
    <3> TAKE k \in 1 .. c - 1
    <3>1. k - 1 \in 0 .. c - 2 /\ (k - 1) + 1 = (k + 1) - 1
      BY SMTT(30)
    <3> QED BY <1>8, <3>1
  <2>3. Tail(Completed) = [k \in 1 .. c - 1 |-> table[UsedAt((k + 1) - 1)]]
    BY <1>4, <1>17, SMTT(30)
  <2> QED BY <1>4, <1>17, <2>1, <2>2, <2>3, SMTT(30)
<1>19. Published' = Published
  BY <1>1, <1>3, <1>6, <1>9 DEF Published
<1> QED BY <1>14, <1>15, <1>16, <1>18, <1>19

\* DriverStart: every descriptor is free and both windows are empty.
LEMMA StartStep ==
  ASSUME RingInv, DriverStart
  PROVE  /\ RingTypes' /\ TableIsShared' /\ LoopIsNext'
         /\ UNCHANGED <<Published, Completed>>
<1>1. /\ phase = "setup" /\ phase' = "run" /\ dpc = "idle" /\ num # 0 /\ free' = 0 .. num - 1
      /\ UNCHANGED <<num, lastAvail, dpc, last, todo, head, availIdx, availRing, table, usedIdx,
                     usedRing, lastUsed, made>>
  BY SMTT(30) DEF DriverStart, IsReady, queue, serve, avail, used
<1>2. /\ availIdx = 0 /\ lastAvail = 0 /\ usedIdx = 0 /\ lastUsed = 0
      /\ num \in Sizes /\ num \in Nat \ {0} /\ num <= QueueNumMax /\ QueueNumMax \in Nat
  BY <1>1, SizesType, SizesAssumption, SMTT(30) DEF RingInv, RingTypes, Inv, SetUpIsEmpty,
     PowersOfTwo
<1>3. ToServe' = 0 /\ ToTake' = 0
  BY <1>1, <1>2, NonePending DEF ToServe, ToTake
<1>4. Cardinality(0 .. num - 1) = num
  BY <1>2, FS_Interval, SMTT(30)
<1>5. RingTypes'
  <2>1. free' \subseteq Slots
    BY <1>1, <1>2, SMTT(30) DEF Slots
  <2> QED BY <1>1, <2>1 DEF RingInv, RingTypes
<1>6. TableIsShared'
  BY <1>1, <1>2, <1>3, <1>4, SMTT(30) DEF TableIsShared
<1>7. LoopIsNext'
  BY <1>1, <1>2 DEF LoopIsNext
<1>8. Published' = <<>> /\ Completed' = <<>> /\ Published = <<>> /\ Completed = <<>>
  BY <1>1, <1>3, SMTT(30) DEF Published, Completed
<1> QED BY <1>5, <1>6, <1>7, <1>8

LEMMA InitRing == Init => RingInv /\ Abstract!AbsInit
<1> SUFFICES ASSUME Init PROVE RingInv /\ Abstract!AbsInit
  BY SMTT(30)
<1>1. 0 \in Indices /\ 0 \in Slots /\ 0 \in 0 .. MaxChains
  BY WrapAssumption, SizesAssumption, ChainsAssumption, SMTT(30) DEF Indices, Slots, PowersOfTwo
<1>2. RingTypes
  BY <1>1 DEF Init, RingTypes
<1>3. TableIsShared /\ LoopIsNext
  BY DEF Init, TableIsShared, LoopIsNext
<1>4. Abstract!AbsInit
  BY DEF Init, Abstract!AbsInit, Published, Completed
<1> QED BY <1>2, <1>3, <1>4, InitInv DEF RingInv

\* What every step keeps, and what it does to the chains.
Serves ==
    /\ RingTypes' /\ TableIsShared' /\ LoopIsNext'
    /\ \/ UNCHANGED <<Published, Completed>>
       \/ Abstract!AbsNext

\* While the queue is set up there is nothing in the rings.
LEMMA SetUpServes ==
  ASSUME phase = "setup", phase' = "setup", RingTypes'
  PROVE  Serves
BY DEF Serves, TableIsShared, LoopIsNext, Published, Completed

LEMMA RingStep ==
  ASSUME RingInv, [Next]_vars
  PROVE  Serves
<1> USE DEF RingInv
<1>1. ASSUME NEW v \in Nums, SetNum(v) PROVE Serves
  <2>1. num' \in Sizes \cup {0}
    BY <1>1 DEF SetNum, ValidNum, Sizes
  <2>2. phase = "setup" /\ UNCHANGED <<lastAvail, serve, avail, used, driver>>
    BY <1>1 DEF SetNum, Register
  <2> QED BY <2>1, <2>2, SetUpServes DEF RingTypes, serve, avail, used, driver
<1>2. ASSUME NEW r \in DOMAIN room, NEW k \in Rooms, SetRing(r, k) PROVE Serves
  <2>1. phase = "setup" /\ UNCHANGED <<num, lastAvail, serve, avail, used, driver>>
    BY <1>2 DEF SetRing, Register
  <2> QED BY <2>1, SetUpServes DEF RingTypes, serve, avail, used, driver
<1>3. ASSUME NEW v \in BOOLEAN, SetReady(v) PROVE Serves
  <2>1. phase = "setup" /\ UNCHANGED <<num, lastAvail, serve, avail, used, driver>>
    BY <1>3 DEF SetReady, Register
  <2> QED BY <2>1, SetUpServes DEF RingTypes, serve, avail, used, driver
<1>4. CASE Reset
  <2>1. /\ phase' = "setup" /\ num' = 0 /\ lastAvail' = 0 /\ lastUsed' = 0 /\ availIdx' = 0
        /\ usedIdx' = 0 /\ free' = {}
        /\ UNCHANGED <<dpc, last, todo, head, availRing, table, usedRing, made>>
    BY <1>4 DEF Reset, serve
  <2>2. 0 \in Indices
    BY WrapAssumption, SMTT(30) DEF Indices
  <2>3. RingTypes'
    BY <2>1, <2>2 DEF RingTypes
  <2>4. Abstract!AbsNext
    BY <2>1 DEF Abstract!AbsNext, Abstract!Forget, Published, Completed
  <2> QED BY <2>1, <2>3, <2>4 DEF Serves, TableIsShared, LoopIsNext
<1>5. CASE Notify
  <2>1. /\ dpc = "idle" /\ UNCHANGED rings /\ UNCHANGED <<lastAvail, head, made>>
        /\ \/ dpc' = "serve" /\ last' = lastAvail /\ todo' = Pending /\ Pending >= 0
           \/ UNCHANGED <<dpc, last, todo>>
    BY <1>5 DEF Notify, queue, avail, used, serve, rings
  <2>2. TableIsShared' /\ UNCHANGED <<Published, Completed>>
    BY <2>1, StandStill
  <2>3. Pending >= 0 => Pending = WrappingSub(availIdx, lastAvail) /\ Pending \in Nat
    <3>1. WrappingSub(availIdx, lastAvail) \in Nat
      BY DistanceType, SMTT(30) DEF RingTypes, Indices
    <3> QED BY <3>1, SMTT(30) DEF Pending
  <2>4. RingTypes'
    BY <2>1, <2>3 DEF RingTypes, rings
  <2>5. LoopIsNext'
    <3>1. CASE dpc' = "serve" /\ last' = lastAvail /\ todo' = Pending /\ Pending >= 0
      <4>1. phase = "run" => lastAvail = usedIdx /\ todo' = ToServe
        BY <2>1, <2>3, <3>1 DEF LoopIsNext, ToServe
      <4>2. ToServe \in Nat /\ ToServe' = ToServe
        BY <2>1, WindowTypes DEF ToServe, rings
      <4> QED BY <2>1, <3>1, <4>1, <4>2, SMTT(30) DEF LoopIsNext, rings
    <3>2. CASE UNCHANGED <<dpc, last, todo>>
      BY <2>1, <3>2 DEF LoopIsNext, rings
    <3> QED BY <2>1, <3>1, <3>2
  <2> QED BY <2>2, <2>4, <2>5 DEF Serves
<1>6. CASE ReadSlot
  <2>1. /\ dpc = "serve" /\ todo > 0 /\ dpc' = "element" /\ head' = availRing[last % num]
        /\ UNCHANGED rings /\ UNCHANGED <<lastAvail, last, todo, made>>
    BY <1>6 DEF ReadSlot, queue, avail, used, driver, rings
  <2>2. phase = "run"
    BY <2>1, SMTT(30) DEF RingTypes, Inv, SetUpIsEmpty
  <2>3. TableIsShared' /\ UNCHANGED <<Published, Completed>>
    BY <2>1, StandStill
  <2>4. head' = AvailAt(0) /\ head' \in Slots
    <3>1. last = usedIdx /\ num \in Sizes
      BY <2>1, <2>2 DEF LoopIsNext, TableIsShared
    <3> QED BY <2>1, <3>1, SlotHere, SlotType DEF RingTypes, AvailAt
  <2>5. RingTypes'
    BY <2>1, <2>4 DEF RingTypes, rings
  <2>6. LoopIsNext'
    <3>1. AvailAt(0)' = AvailAt(0) /\ ToServe' = ToServe
      BY <2>1 DEF rings, AvailAt, ToServe
    <3> QED BY <2>1, <2>2, <2>4, <3>1 DEF LoopIsNext, rings
  <2> QED BY <2>3, <2>5, <2>6 DEF Serves
<1>7. CASE PushElement
  <2>1. phase = "run"
    BY <1>7 DEF PushElement, RingTypes, Inv, SetUpIsEmpty
  <2> QED BY <1>7, <2>1, ElementStep DEF Serves
<1>8. CASE PushIndex
  <2>1. phase = "run"
    BY <1>8 DEF PushIndex, RingTypes, Inv, SetUpIsEmpty
  <2>2. Abstract!AbsNext
    BY <1>8, <2>1, IndexStep DEF Abstract!AbsNext, Abstract!Complete
  <2> QED BY <1>8, <2>1, <2>2, IndexStep DEF Serves
<1>9. CASE Finish
  <2>1. /\ dpc = "serve" /\ dpc' = "idle" /\ lastAvail' = last
        /\ UNCHANGED rings /\ UNCHANGED <<last, todo, head, made>>
    BY <1>9 DEF Finish, avail, used, driver, rings
  <2>2. TableIsShared' /\ UNCHANGED <<Published, Completed>>
    BY <2>1, StandStill
  <2>3. RingTypes' /\ LoopIsNext'
    BY <2>1 DEF RingTypes, LoopIsNext, rings
  <2> QED BY <2>2, <2>3 DEF Serves
<1>10. CASE DriverStart
  BY <1>10, StartStep DEF Serves
<1>11. CASE DriverPublish
  <2>1. Abstract!AbsNext
    BY <1>11, PublishStep DEF Abstract!AbsNext, Abstract!Publish
  <2> QED BY <1>11, <2>1, PublishStep DEF Serves
<1>12. CASE DriverTake
  <2>1. Abstract!AbsNext
    BY <1>12, TakeStep DEF Abstract!AbsNext, Abstract!Take
  <2> QED BY <1>12, <2>1, TakeStep DEF Serves
<1>13. CASE DriverAck \/ DriverReturn \/ UNCHANGED vars
  <2>1. UNCHANGED rings /\ UNCHANGED <<dpc, last, todo, head, made, lastAvail>>
    BY <1>13 DEF DriverAck, DriverReturn, vars, queue, serve, avail, used, driver, rings
  <2>2. TableIsShared' /\ UNCHANGED <<Published, Completed>>
    BY <2>1, StandStill
  <2>3. UNCHANGED ToServe /\ AvailAt(0)' = AvailAt(0)
    BY <2>1 DEF ToServe, AvailAt, rings
  <2>4. RingTypes' /\ LoopIsNext'
    BY <2>1, <2>3 DEF RingTypes, LoopIsNext, rings
  <2> QED BY <2>2, <2>4 DEF Serves
<1> QED
  BY <1>1, <1>2, <1>3, <1>4, <1>5, <1>6, <1>7, <1>8, <1>9, <1>10, <1>11, <1>12, <1>13, SMTT(30)
     DEF Next, SetUp, Device, Handler

\* Queue::pending, pop and push_used with process_queue, and the driver across
\* shared memory: chains are served once and in order, for any ring size below
\* an index width of up to 16 bits, any number of vCPUs and chains, and any
\* resizes and resets.
THEOREM RingsImplementChainQueue == Spec => ImplementsChainQueue
<1>1. RingInv /\ [Next]_vars => RingInv'
  BY NextInv, RingStep DEF RingInv, Serves
<1>2. RingInv /\ [Next]_vars => [Abstract!AbsNext]_<<Published, Completed>>
  BY RingStep DEF Serves
<1> QED BY <1>1, <1>2, InitRing, PTL DEF Spec, ImplementsChainQueue, Abstract!AbsSpec

=============================================================================
