---------------------------- MODULE LegacyDevices ----------------------------
(***************************************************************************)
(* The devices of devices/legacy/, one per behaviour (`kind`): they share  *)
(* no state with each other.                                               *)
(*                                                                         *)
(*   com1     the 16550 of the x86-64 backend, on an edge-triggered pin    *)
(*   pl011    the arm64 backends' UART, on a level-triggered line          *)
(*   cmos     the CMOS clock's latch and RAM                               *)
(*   calendar the broken-down time the clock's fields are taken from       *)
(*   pm       the ACPI power-management block                              *)
(*                                                                         *)
(* `dev` is the device's registers, `guest` the driver and what it has     *)
(* seen.  The drivers (Linux's 8250 and amba-pl011) and the register file  *)
(* of vm-superio are external.                                             *)
(***************************************************************************)
EXTENDS Integers, Sequences, FiniteSets, SequencesExt

CONSTANTS Kinds,          \* the devices looked at
          RxCap,          \* vm-superio's receive buffer
          RX_CAP,         \* the PL011's
          MaxPush,        \* bound on the bytes the host sends
          MaxSend,        \* bound on the bytes the guest sends by interrupt
          MaxPolled,      \* bound on divisor changes and polled writes
          LATCH_MAX_AGE,  \* in ticks of the model's time
          SecTicks,       \* ticks in a second
          MaxTime,        \* bound on the model's time
          Values,         \* what the guest writes to the CMOS
          Bytes,          \* the bytes the guest writes to the PM block
          MaxWidth,       \* bytes of one access to it
          LastDay         \* the last day checked, in days since 1970-01-01

VARIABLES kind, dev, guest

vars == <<kind, dev, guest>>
At(pc) == guest.pc = pc
Goto(pc) == [guest EXCEPT !.pc = pc]

-----------------------------------------------------------------------------
(* COM1.  dev: [ier, dlab, pending, rx, high]. *)

Com1Init ==
    /\ dev = [ier |-> {}, dlab |-> FALSE, pending |-> FALSE, rx |-> 0, high |-> FALSE]
    /\ guest = [pc |-> "idle", left |-> 0, edge |-> FALSE, saved |-> {},
                pushed |-> 0, sent |-> 0, polled |-> 0]

interrupt_id(u) ==
    IF "rx" \in u.ier /\ u.rx > 0 THEN "rx"
    ELSE IF "thr" \in u.ier /\ u.pending THEN "thr" ELSE "none"
\* Mutant of irq_level: the line goes by what is pending, masked or not.
irq_levelRaw(u) == u.rx > 0 \/ u.pending
irq_level(u) == interrupt_id(u) # "none"

\* read_port of IIR.
AfterIir(u) == IF interrupt_id(u) = "thr" THEN [u EXCEPT !.pending = FALSE] ELSE u

\* write_port of IER: THR-empty follows its enable bit when that changes.
IerWritten(u, ier) ==
    [u EXCEPT !.ier = ier,
              !.pending = IF ("thr" \in ier) = ("thr" \in u.ier) THEN @ ELSE "thr" \in ier]
ThrWritten(u) == [u EXCEPT !.pending = TRUE]

\* Offsets 0 and 1 are the divisor latch while DLAB is set.
write_port(u, off, ier) ==
    IF u.dlab THEN u ELSE IF off = "IER" THEN IerWritten(u, ier) ELSE ThrWritten(u)

\* pio_read, pio_write and push_rx all end by setting the line; a rise is an edge.
Access(u, g) ==
    /\ dev' = [u EXCEPT !.high = irq_level(u)]
    /\ guest' = [g EXCEPT !.edge = @ \/ (irq_level(u) /\ ~dev.high)]

\* enqueue_raw_bytes: the crate drops a byte it has no room for.
Queued(u) == IF u.rx < RxCap THEN [u EXCEPT !.rx = @ + 1] ELSE u
\* push_rx, from the console reader.
Com1PushRx ==
    guest.pushed < MaxPush /\ Access(Queued(dev), [guest EXCEPT !.pushed = @ + 1])

\* The driver opens the port, and enables THR-empty to send a byte.
Open == At("idle") /\ dev.ier = {} /\ Access(write_port(dev, "IER", {"rx"}), guest)
StartTx ==
    /\ At("idle") /\ "rx" \in dev.ier /\ guest.sent < MaxSend
    /\ Access(write_port(dev, "IER", dev.ier \cup {"thr"}),
              [guest EXCEPT !.left = @ + 1, !.sent = @ + 1])

\* The handler: IIR, then what it reports, until it reports nothing.
Com1Interrupt == At("idle") /\ guest.edge /\ dev' = dev
                 /\ guest' = [guest EXCEPT !.pc = "iir", !.edge = FALSE]
ReadIir == At("iir") /\ Access(AfterIir(dev), Goto(interrupt_id(dev)))
ReadRbr == At("rx") /\ Access([dev EXCEPT !.rx = IF @ > 0 THEN @ - 1 ELSE @], Goto("iir"))
ServeThr ==
    /\ At("thr")
    /\ IF guest.left > 0
       THEN Access(write_port(dev, "THR", {}), [Goto("iir") EXCEPT !.left = @ - 1])
       ELSE Access(write_port(dev, "IER", dev.ier \ {"thr"}), Goto("iir"))
Return == At("none") /\ guest' = Goto("idle") /\ dev' = dev

\* With interrupts off: a polled write saves IER, clears it, writes and restores.
PolledStart ==
    /\ At("idle") /\ guest.polled < MaxPolled
    /\ Access(write_port(dev, "IER", {}),
              [Goto("polled") EXCEPT !.saved = dev.ier, !.polled = @ + 1])
PolledWrite == At("polled") /\ Access(write_port(dev, "THR", {}), Goto("restore"))
PolledEnd == At("restore") /\ Access(write_port(dev, "IER", guest.saved),
                                     [Goto("idle") EXCEPT !.saved = {}])

\* With interrupts off: the divisor latch is set through the same offsets.
DlabOn == /\ At("idle") /\ guest.polled < MaxPolled
          /\ Access([dev EXCEPT !.dlab = TRUE], [Goto("dll") EXCEPT !.polled = @ + 1])
DlabDll == At("dll") /\ Access(write_port(dev, "THR", {}), Goto("dlm"))
DlabDlm == At("dlm") /\ Access(write_port(dev, "IER", {}), Goto("lcr"))
DlabOff == At("lcr") /\ Access([dev EXCEPT !.dlab = FALSE], Goto("idle"))

Com1Handler == \/ Com1Interrupt \/ ReadIir \/ ReadRbr \/ ServeThr \/ Return
               \/ PolledWrite \/ PolledEnd \/ DlabDll \/ DlabDlm \/ DlabOff
Com1Next == Com1PushRx \/ Open \/ StartTx \/ PolledStart \/ DlabOn \/ Com1Handler

-----------------------------------------------------------------------------
(* The PL011.  dev: [rx, imsc, high]; a byte is its place in the input. *)

Pl011Init ==
    /\ dev = [rx |-> <<>>, imsc |-> FALSE, high |-> FALSE]
    /\ guest = [pc |-> "idle", got |-> <<>>, pushed |-> 0, dropped |-> {}]

\* The line of the PL011.
Level(d) == d.rx # <<>> /\ d.imsc
\* mmio and push_rx end by setting the line.
Sync(d) == dev' = [d EXCEPT !.high = Level(d)]

\* Mutant of HasRoom: one more than the FIFO holds.
HasRoomOver == Len(dev.rx) <= RX_CAP
HasRoom == Len(dev.rx) < RX_CAP

Pl011PushRx == LET b == guest.pushed + 1 IN
    /\ guest.pushed < MaxPush
    /\ Sync(IF HasRoom THEN [dev EXCEPT !.rx = Append(@, b)] ELSE dev)
    /\ guest' = [guest EXCEPT !.pushed = b,
                              !.dropped = IF HasRoom THEN @ ELSE @ \cup {b}]

\* IMSC, by the driver as it opens and closes the port.
WriteImsc(mask) == At("idle") /\ dev.imsc # mask /\ Sync([dev EXCEPT !.imsc = mask])
                   /\ guest' = guest

\* The handler: FR until it reports the FIFO empty, DR for each byte.
Pl011Interrupt == At("idle") /\ dev.high /\ guest' = Goto("fr") /\ dev' = dev
ReadFr == At("fr") /\ Sync(dev) /\ guest' = Goto(IF dev.rx = <<>> THEN "idle" ELSE "dr")
ReadDr == /\ At("dr") /\ Sync([dev EXCEPT !.rx = Tail(@)])
          /\ guest' = [Goto("fr") EXCEPT !.got = Append(@, Head(dev.rx))]

Pl011Next == \/ Pl011PushRx \/ Pl011Interrupt \/ ReadFr \/ ReadDr
             \/ \E mask \in BOOLEAN : WriteImsc(mask)

-----------------------------------------------------------------------------
(* The CMOS clock.  dev: [now, index, ram, latched, latched_at].  Time runs
   in ticks; the fields are the digits of the time: SecTicks ticks to a
   second, two seconds to a minute. *)

Fields == {"sec", "min"}
Ram == {"ram"}
Field(time, f) == IF f = "sec" THEN (time \div SecTicks) % 2 ELSE time \div (2 * SecTicks)

NoFile == [got |-> [f \in {} |-> 0], from |-> 0]
CmosInit == \E t \in 0 .. LATCH_MAX_AGE :
    /\ dev = [now |-> t, index |-> "sec", ram |-> [r \in Ram |-> 0], latched |-> t, latched_at |-> t]
    \* what was read of the clock and since when; what was last written to RAM
    /\ guest = [file |-> NoFile, wrote |-> [r \in Ram |-> 0]]

Tick == dev.now < MaxTime /\ dev' = [dev EXCEPT !.now = @ + 1] /\ guest' = guest

\* Mutant of Aged: the latch refreshes one tick too late.
AgedLate == dev.now - dev.latched_at > LATCH_MAX_AGE
Aged == dev.now - dev.latched_at >= LATCH_MAX_AGE
\* refresh, before any clock field is served.
Refreshed == IF Aged THEN [dev EXCEPT !.latched = dev.now, !.latched_at = dev.now] ELSE dev

\* pio_write of the index port: the NMI bit is masked off.
Select(i) == i # dev.index /\ dev' = [dev EXCEPT !.index = i] /\ guest' = guest

\* pio_read of the data port at a clock field; the guest reads the file from
\* its first field to its last.
ReadClock == LET got == guest.file.got IN
    /\ dev.index \in Fields \ DOMAIN got
    /\ dev' = Refreshed
    /\ guest' = [guest EXCEPT !.file =
           [got |-> [f \in DOMAIN got \cup {dev.index} |->
                         IF f = dev.index THEN Field(Refreshed.latched, f) ELSE got[f]],
            from |-> IF DOMAIN got = {} THEN dev.now ELSE @.from]]
ReadAgain == DOMAIN guest.file.got = Fields /\ guest' = [guest EXCEPT !.file = NoFile] /\ dev' = dev

\* A write to RAM is kept, one to a clock field dropped.
Stored(v) == IF dev.index \in Ram THEN [dev EXCEPT !.ram[dev.index] = v] ELSE dev
\* pio_write of the data port: the host's clock is authoritative.
WriteCmos(v) ==
    /\ dev' = Stored(v)
    /\ guest' = IF dev.index \in Ram THEN [guest EXCEPT !.wrote[dev.index] = v] ELSE guest

CmosNext == \/ Tick \/ ReadClock \/ ReadAgain
            \/ (\E i \in Fields \cup Ram : Select(i)) \/ \E v \in Values : WriteCmos(v)

-----------------------------------------------------------------------------
(* The calendar.  dev: [days] since 1970-01-01, guest: the date a reference
   calendar that counts day by day has reached. *)

\* Mutant of YearOfEra: the centuries that are no leap years are forgotten.
YearOfEraJulian(doe) == (doe - doe \div 1460) \div 365
YearOfEra(doe) == (doe - (doe \div 1460) + (doe \div 36524) - (doe \div 146096)) \div 365

civil_from_days(n) ==
    LET z == n + 719468
        era == (IF z >= 0 THEN z ELSE z - 146096) \div 146097
        doe == z - era * 146097
        yoe == YearOfEra(doe)
        doy == doe - (365 * yoe + (yoe \div 4) - (yoe \div 100))
        mp == (5 * doy + 2) \div 153
        m == IF mp < 10 THEN mp + 3 ELSE mp - 9
        y == yoe + era * 400
    IN  [y |-> IF m <= 2 THEN y + 1 ELSE y, m |-> m,
         d |-> doy - ((153 * mp + 2) \div 5) + 1]

to_bcd(v) == (v \div 10) * 16 + (v % 10)
weekday(n) == ((n + 4) % 7) + 1
\* now_utc's fields of the date, as pio_read returns them.
now_utc(n) == LET c == civil_from_days(n) IN
    [weekday |-> weekday(n), day |-> to_bcd(c.d), month |-> to_bcd(c.m),
     year |-> to_bcd(c.y % 100), century |-> to_bcd(c.y \div 100)]

Leap(y) == (y % 4 = 0 /\ y % 100 # 0) \/ y % 400 = 0
MonthDays(y, m) == IF m = 2 THEN IF Leap(y) THEN 29 ELSE 28
                   ELSE IF m \in {4, 6, 9, 11} THEN 30 ELSE 31
Tomorrow(c) ==
    IF c.d < MonthDays(c.y, c.m) THEN [c EXCEPT !.d = @ + 1]
    ELSE IF c.m < 12 THEN [c EXCEPT !.d = 1, !.m = @ + 1]
    ELSE [c EXCEPT !.d = 1, !.m = 1, !.y = @ + 1]

CalendarInit == /\ dev = [days |-> 0]
                /\ guest = [y |-> 1970, m |-> 1, d |-> 1, weekday |-> 5]
NextDay == /\ dev.days < LastDay /\ dev' = [days |-> dev.days + 1]
           /\ guest' = [Tomorrow(guest) EXCEPT !.weekday = (guest.weekday % 7) + 1]

-----------------------------------------------------------------------------
(* The ACPI power-management block.  dev: [enable, stop], the two bytes of PM1
   enable and what the last access asked for; guest: the last access, and the
   byte last written to each port of PM1 enable. *)

PM1_ENABLE == 2
PM1_CONTROL == 4
RESET_REGISTER == 6
PM_REGISTERS_LEN == RESET_REGISTER + 1
RESET_VALUE == 1
SCI_EN == 1
\* The high byte of PM1 control: SLP_EN is bit 13, the type bits 10 to 12.
SlpEn(b) == (b \div 32) % 2 = 1
SlpTyp(b) == (b \div 4) % 8
SLP_TYP_S5 == 5

Ports == {PM1_ENABLE, PM1_ENABLE + 1}
PmInit == /\ dev = [enable |-> <<0, 0>>, stop |-> "none"]
          /\ guest = [at |-> 0, data |-> <<>>, wrote |-> [p \in Ports |-> 0]]

\* A write of PM1a_CNT that powers off.
AsksOff(byte) == SlpEn(byte) /\ SlpTyp(byte) = SLP_TYP_S5

\* One byte of a write, at port `at`.
WriteByte(s, at, byte) ==
    IF at = PM1_ENABLE THEN [s EXCEPT !.enable[1] = byte]
    ELSE IF at = PM1_ENABLE + 1 THEN [s EXCEPT !.enable[2] = byte]
    ELSE IF at = PM1_CONTROL + 1 /\ AsksOff(byte) THEN [s EXCEPT !.stop = "SystemOff"]
    ELSE IF at = RESET_REGISTER /\ byte = RESET_VALUE THEN [s EXCEPT !.stop = "SystemReset"]
    ELSE s
write(s, at, data) ==
    FoldLeft(LAMBDA t, i : WriteByte(t, at + i - 1, data[i]), s, [i \in 1 .. Len(data) |-> i])

to_bytes == <<0, 0, dev.enable[1], dev.enable[2], SCI_EN, 0, 0>>
read(at, n) == [i \in 1 .. n |-> IF at + i <= PM_REGISTERS_LEN THEN to_bytes[at + i] ELSE 255]

WritePm(at, data) ==
    /\ dev' = write([dev EXCEPT !.stop = "none"], at, data)
    /\ guest' = [at |-> at, data |-> data, wrote |->
           [p \in Ports |-> IF p \in at .. at + Len(data) - 1 THEN data[p - at + 1] ELSE guest.wrote[p]]]
PmNext == \E at \in 0 .. RESET_REGISTER, n \in 1 .. MaxWidth :
              \E data \in [1 .. n -> Bytes] : WritePm(at, data)

-----------------------------------------------------------------------------
Init == /\ kind \in Kinds
        /\ \/ kind = "com1" /\ Com1Init
           \/ kind = "pl011" /\ Pl011Init
           \/ kind = "cmos" /\ CmosInit
           \/ kind = "calendar" /\ CalendarInit
           \/ kind = "pm" /\ PmInit
Next == /\ kind' = kind
        /\ \/ kind = "com1" /\ Com1Next
           \/ kind = "pl011" /\ Pl011Next
           \/ kind = "cmos" /\ CmosNext
           \/ kind = "calendar" /\ NextDay
           \/ kind = "pm" /\ PmNext
Spec == Init /\ [][Next]_vars

-----------------------------------------------------------------------------
(* Properties. *)

\* COM1: a line that is high when the driver is out of its handler has an edge
\* the driver has still to take: it never stays high after IIR read empty ("A
\* line left high after IIR reads empty never rises again").
\* PL011: the handler never starts with nothing to read, so it never spins on a
\* line that stays high ("nobody cared").
LinesAreHonest ==
    /\ kind = "com1" /\ dev.high /\ At("idle") => guest.edge
    /\ kind = "pl011" /\ At("idle") /\ dev.high => dev.rx # <<>> /\ dev.imsc

\* Every byte the host sent to the PL011 is read, waits or was dropped, in order.
BytesAccountedFor ==
    kind = "pl011" => LET kept == guest.got \o dev.rx IN
        /\ \A i, j \in DOMAIN kept : i < j => kept[i] < kept[j]
        /\ Len(kept) + Cardinality(guest.dropped) = guest.pushed
        /\ Len(dev.rx) <= RX_CAP

\* Every field is that of an instant less than LATCH_MAX_AGE before the guest
\* began to read the file: what it reads of the clock is never older, and never
\* what a guest wrote; RAM keeps the guest's bytes.
ClockIsRecent ==
    kind = "cmos" =>
        /\ dev.ram = guest.wrote
        /\ \A f \in DOMAIN guest.file.got : \E t \in 0 .. dev.now :
               Field(t, f) = guest.file.got[f] /\ t + LATCH_MAX_AGE > guest.file.from

\* What the guest decodes from the registers is the date of the calendar, leap
\* years, centuries and weekdays included.
FromBcd(b) == (b \div 16) * 10 + (b % 16)
ClockFollowsCalendar ==
    kind = "calendar" => LET w == now_utc(dev.days) IN
        /\ FromBcd(w.century) * 100 + FromBcd(w.year) = guest.y
        /\ FromBcd(w.month) = guest.m /\ FromBcd(w.day) = guest.d
        /\ w.weekday = guest.weekday

\* An access stops the machine exactly when it writes S5 with SLP_EN over the
\* high byte of PM1 control or RESET_VALUE over the reset register, whatever its
\* width, and a reset in the same access wins.  PM1 enable reads back what was
\* written, in accesses of any width.
Covers(p) == p \in guest.at .. guest.at + Len(guest.data) - 1
ByteAt(p) == guest.data[p - guest.at + 1]
StopsAsAsked ==
    kind = "pm" =>
        LET reset == Covers(RESET_REGISTER) /\ ByteAt(RESET_REGISTER) = RESET_VALUE
            off == /\ Covers(PM1_CONTROL + 1)
                   /\ ByteAt(PM1_CONTROL + 1) \in {32 + 20 + x + 64 * y : x \in 0 .. 3, y \in 0 .. 3}
        IN  /\ dev.stop = IF reset THEN "SystemReset" ELSE IF off THEN "SystemOff" ELSE "none"
            /\ \A at \in 0 .. RESET_REGISTER, n \in 1 .. MaxWidth : \A i \in 1 .. n :
                   at + i - 1 \in Ports => read(at, n)[i] = guest.wrote[at + i - 1]

=============================================================================
