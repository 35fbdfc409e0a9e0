------------------------------ MODULE HvfExits ------------------------------
(***************************************************************************)
(* One vCPU's exits on Hypervisor.framework: the syndrome a trapped         *)
(* instruction leaves (external), its decoding in arch/aarch64/esr.rs, and  *)
(* handle_exit with the accesses and the PSCI calls it services             *)
(* (arch/aarch64/hvf/vcpu.rs).                                              *)
(*                                                                         *)
(* A register holds eight bytes, byte 1 the lowest.  A syndrome is its class *)
(* and its 25-bit ISS.                                                      *)
(***************************************************************************)
EXTENDS Naturals, Sequences

CONSTANTS
    Regs,                  \* the registers a guest uses, of 0..31; 31 is XZR
    MaxTarget,             \* the affinities a guest gives CPU_ON: 0..MaxTarget,
    Bases,                 \* and each of those with one of these bits added
    NumCpus,
    MaxExits               \* a bound on the exits

Zero == [b \in 1..8 |-> 0]
Word(v) == [b \in 1..8 |-> v * 8 + b]
Widths == {1, 2, 4, 8}

VARIABLES
    regs,                  \* the guest's registers
    pcs,                   \* instructions the guest has gone past
    dev,                   \* what the device register holds
    outcome,               \* "run", or why the run ended
    mbox,                  \* the vCPUs CPU_ON started
    exits,
    insn,                  \* the last trapped instruction
    before                 \* registers, device and instruction count before it

vars == <<regs, pcs, dev, outcome, mbox, exits, insn, before>>

-----------------------------------------------------------------------------
(* The syndrome of an instruction, by the architecture. *)

Log2(w) == CASE w = 1 -> 0 [] w = 2 -> 1 [] w = 4 -> 2 [] w = 8 -> 3
Bit(b) == IF b THEN 1 ELSE 0

\* A load or store: ISV in bit 24, SAS in 23..22, SRT in 20..16, WnR in 6; a
\* cache maintenance or a pair access leaves no instruction syndrome.
AbortIss(i) ==
    IF i.valid
    THEN 2^24 + Log2(i.width) * 2^22 + i.reg * 2^16 + Bit(i.op = "store") * 2^6
    ELSE Bit(i.op = "store") * 2^6

\* MRS and MSR: Rt in 9..5, the direction in bit 0.
SysRegIss(i) == i.reg * 2^5 + Bit(i.op = "mrs")

ClassOf(i) ==
    CASE i.op \in {"load", "store"} -> 36
      [] i.op \in {"mrs", "msr"} -> 24
      [] i.op = "hvc" -> 22
      [] i.op = "smc" -> 23
      [] i.op = "wfi" -> 1
      [] i.op = "fetch" -> 32
      [] i.op = "brk" -> 60

-----------------------------------------------------------------------------
(* The decoding. *)

\* Ec::from_syndrome
Ec(class) ==
    CASE class = 21 -> "Svc" [] class = 22 -> "Hvc" [] class = 23 -> "Smc"
      [] class = 24 -> "SysReg" [] class \in {32, 33} -> "InstructionAbort"
      [] class \in {36, 37} -> "DataAbort" [] class = 60 -> "Brk" [] OTHER -> "Other"

Field(iss, low, bits) == (iss \div 2^low) % 2^bits

\* DataAbort::from_syndrome
DataAbort(iss) ==
    [isv |-> Field(iss, 24, 1) = 1, width |-> 2^Field(iss, 22, 2),
     is_write |-> Field(iss, 6, 1) = 1, reg |-> Field(iss, 16, 5)]

\* read_gpr and write_gpr: register 31 reads as zero and discards.
ReadGpr(r) == IF r < 31 THEN regs[r] ELSE Zero
WriteGpr(r, v) == IF r < 31 THEN [regs EXCEPT ![r] = v] ELSE regs

\* Mutant of WidthMask: the device's whole register reaches the guest.
WidthMaskNone(v, width) == v

\* width_mask
WidthMask(v, width) == [b \in 1..8 |-> IF b <= width THEN v[b] ELSE 0]

\* mpidr_affinity
MpidrAffinity(i) == (i % 16) + ((i \div 16) % 256) * 2^8 + ((i \div 2^12) % 256) * 2^16

NamesVcpu(a) == a \div 2^24 = 0 /\ a % 256 < 16

\* vcpu_index
VcpuIndex(a) == (a % 16) + ((a \div 2^8) % 256) * 16 + ((a \div 2^16) % 256) * 2^12

-----------------------------------------------------------------------------
(* handle_exit. *)

Instructions ==
    [op : {"load", "store"}, reg : Regs, width : Widths, valid : BOOLEAN,
     at : {"device", "absent", "nowhere"}]
    \cup [op : {"mrs", "msr"}, reg : Regs]
    \cup [op : {"hvc", "smc"}, fid : {"version", "off", "reset", "features", "cpu_off", "other"}]
    \cup [op : {"hvc"}, fid : {"cpu_on"}, target : 0..MaxTarget, base : Bases]
    \cup [op : {"wfi", "fetch", "brk"}]

\* X0 of the reply.
Reply(v) == regs' = [regs EXCEPT ![0] = v]
SUCCESS == Zero
NOT_SUPPORTED == [b \in 1..8 |-> 255]

\* cpu_on refuses the boot vCPU and an index past the last.
CpuOn(cpu) == cpu \in 1..(NumCpus - 1)

\* The vCPU a CPU_ON for affinity `a` starts.
Started(a) == IF NamesVcpu(a) /\ CpuOn(VcpuIndex(a)) THEN {VcpuIndex(a)} ELSE {}

\* service_psci: SYSTEM_OFF and SYSTEM_RESET end the run.
ServicePsci(i) ==
    /\ mbox' = IF i.fid = "cpu_on" THEN mbox \cup Started(i.target + i.base) ELSE mbox
    /\ CASE i.fid \in {"off", "reset"} -> regs' = regs /\ outcome' = i.fid
         [] i.fid \in {"version", "features"} ->
              outcome' = outcome /\ Reply(Word(9))
         [] i.fid = "cpu_off" -> outcome' = outcome /\ Reply(SUCCESS)
         [] i.fid = "other" -> outcome' = outcome /\ Reply(NOT_SUPPORTED)
         [] i.fid = "cpu_on" ->
              /\ outcome' = outcome
              /\ Reply(IF Started(i.target + i.base) = {} THEN NOT_SUPPORTED ELSE SUCCESS)
    /\ UNCHANGED <<pcs, dev>>

\* Mutant of Advances: an access with no instruction syndrome is retried.
AdvancesIfValid(da) == Bit(da.isv)

\* advance_pc follows the service of an access, whether or not it did anything.
Advances(da) == 1

\* The access to a window: a device the guest does not have leaves the registers
\* as they are, and an address in no window ends the run.
ServiceAbort(i, da) ==
    IF i.at = "nowhere"
    THEN outcome' = "failed" /\ UNCHANGED <<regs, pcs, dev, mbox>>
    ELSE /\ pcs' = pcs + Advances(da)
         /\ LET serve == da.isv /\ i.at = "device" IN
            /\ dev' = IF serve /\ da.is_write THEN ReadGpr(da.reg) ELSE dev
            /\ regs' = IF serve /\ ~da.is_write
                       THEN WriteGpr(da.reg, WidthMask(dev, da.width)) ELSE regs
         /\ UNCHANGED <<outcome, mbox>>

\* An unmodelled system register reads as zero and ignores a write.
ServiceSysReg(iss) ==
    /\ regs' = IF iss % 2 = 1 THEN WriteGpr(Field(iss, 5, 5), Zero) ELSE regs
    /\ pcs' = pcs + 1
    /\ UNCHANGED <<dev, outcome, mbox>>

HandleExit(i) ==
    LET ec == Ec(ClassOf(i)) IN
    CASE ec \in {"Hvc", "Smc"} -> ServicePsci(i)
      [] ec = "DataAbort" -> ServiceAbort(i, DataAbort(AbortIss(i)))
      [] ec = "SysReg" -> ServiceSysReg(SysRegIss(i))
      [] ec = "Other" /\ ClassOf(i) = 1 -> UNCHANGED <<regs, pcs, dev, outcome, mbox>>
      [] OTHER -> outcome' = "failed" /\ UNCHANGED <<regs, pcs, dev, mbox>>

Init ==
    /\ regs = [r \in Regs \ {31} |-> Word(r)] /\ pcs = 0 /\ dev = Word(10)
    /\ outcome = "run" /\ mbox = {} /\ exits = 0
    /\ insn = [op |-> "none"] /\ before = <<regs, pcs, dev, mbox>>

Traps ==
    /\ outcome = "run" /\ exits < MaxExits
    /\ exits' = exits + 1
    /\ before' = <<regs, pcs, dev, mbox>>
    /\ \E i \in Instructions : insn' = i /\ HandleExit(i)

Done == (outcome # "run" \/ exits = MaxExits) /\ UNCHANGED vars

Next == Traps \/ Done

Spec == Init /\ [][Next]_vars

-----------------------------------------------------------------------------
(* Properties. *)

\* A load puts the low bytes of the device's register in its own register, zero
\* extended, and a store its own register in the device's; nothing else changes,
\* whatever the width, and XZR stores zero and keeps nothing.
AccessIsExact ==
    insn.op \in {"load", "store"} /\ outcome = "run" =>
        LET was == before[1]  old == before[3]
            done == insn.valid /\ insn.at = "device" IN
        /\ dev = IF done /\ insn.op = "store"
                 THEN (IF insn.reg = 31 THEN Zero ELSE was[insn.reg]) ELSE old
        /\ \A r \in Regs \ {31} :
              regs[r] = IF done /\ insn.op = "load" /\ r = insn.reg
                        THEN [b \in 1..8 |-> IF b <= insn.width THEN old[b] ELSE 0]
                        ELSE was[r]

\* The guest goes past each access and each system register instruction once,
\* and past no call: a call leaves the PC after it already.
PcGoesPastOnce ==
    insn.op # "none" =>
        pcs = before[2] + Bit(insn.op \in {"load", "store", "mrs", "msr"} /\ outcome = "run")

\* CPU_ON succeeds for the affinity of a secondary vCPU and starts that one; it
\* refuses the boot vCPU's and every affinity no vCPU has.
CpuOnNamesOne ==
    insn.op = "hvc" /\ insn.fid = "cpu_on" =>
        LET named == {c \in 1..(NumCpus - 1) : MpidrAffinity(c) = insn.target + insn.base} IN
        /\ regs[0] = IF named = {} THEN NOT_SUPPORTED ELSE SUCCESS
        /\ mbox = before[4] \cup named
=============================================================================
