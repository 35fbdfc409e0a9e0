----------------------------- MODULE MCControl ------------------------------
(***************************************************************************)
(* A run and what ends it, for TLC: the ledger, the loop that waits for a  *)
(* stop, panics, signals, the terminal, the I/O threads and, for their     *)
(* liveness, the vCPU threads of both backends. They share no state here,  *)
(* so a behaviour is of one of them, `part`, and the variables of the      *)
(* others rest. A component is instantiated once for its safety and once,  *)
(* smaller, for its liveness.                                              *)
(***************************************************************************)
EXTENDS IoStop

CONSTANTS Parts, console

VARIABLES part, lines, pending, added, written, dropped, unmarked, urgent, idle, closed,
          failing, gaveUp, wpc, taken, offset, wrote, retrying, giveUpAt, snapshot, file,
          locked, tpc, target, last, fails, outcome, made, ends, running, outcome2, startedIds,
          exited, exitFlag, vpc, ioStop, finished2, noted, ipc, first, signal, wakes, apc, asks,
          asking, mpc, spawned, failure, announced, expired, next, left, result, slot, recorded,
          stopRecord, firstReport, failed2, aborting, slot2, current, lines2, closed2, written2,
          running2, outcome3, vpc2, mpc2, result2, ppc, found, half, past, ended, lost, hasty,
          told, early, action, target2, first2, thread, registered, pending2, signal2, mpc3,
          ended2, by, asked, late2, tty, saved, main, previous, used, action2, handler, sent,
          ran, alive,
          running3, requested2, parked, started, registered2, exitByte, kicker, kickTodo,
          kickStored, hostKicks, pc2, expired2, stopper, stopSent, severed, running4, handles,
          vcpu, pending3, mbox, holder, pc3, entry, call, stopper2, todo, ons, kicks, asked2

LedL == INSTANCE Ledger
    WITH Threads <- {"t", "u"}, Cap <- 1, MaxRecords <- 2, MaxBatches <- 2
Run == INSTANCE RunToStop
    WITH N <- 1, Io <- {console}, Callers <- {}, Signals <- {"term"}, PipeSize <- 1,
         DrainSize <- 1, MaxRequests <- 1, outcome <- outcome2, finished <- finished2,
         failed <- failed2
RunL == INSTANCE RunToStop
    WITH N <- 1, Io <- {console}, Callers <- {}, Signals <- {}, PipeSize <- 1, DrainSize <- 1,
         MaxRequests <- 1, outcome <- outcome2, finished <- finished2, failed <- failed2
AskedL == INSTANCE RunToStop
    WITH N <- 1, Io <- {}, Callers <- {}, Signals <- {"term"}, PipeSize <- 1, DrainSize <- 1,
         MaxRequests <- 1, outcome <- outcome2, finished <- finished2, failed <- failed2
Asked == INSTANCE RunToStop
    WITH N <- 1, Io <- {}, Callers <- {"host"}, Signals <- {"term", "int"}, PipeSize <- 2,
         DrainSize <- 1, MaxRequests <- 1, outcome <- outcome2, finished <- finished2,
         failed <- failed2
Reports == INSTANCE RunToStop
    WITH N <- 2, Io <- {}, Callers <- {}, Signals <- {"term"}, PipeSize <- 1, DrainSize <- 1,
         MaxRequests <- 1, outcome <- outcome2, finished <- finished2, failed <- failed2
Panic == INSTANCE PanicAbort
    WITH Vcpus <- {"v"}, Others <- {"io"}, MaxPanics <- 2, MaxCaptures <- 0, slot <- slot2,
         lines <- lines2, closed <- closed2, written <- written2, running <- running2,
         outcome <- outcome3, vpc <- vpc2, mpc <- mpc2, result <- result2
Capt == INSTANCE PanicAbort
    WITH Vcpus <- {"v", "w"}, Others <- {}, MaxPanics <- 1, MaxCaptures <- 1, slot <- slot2,
         lines <- lines2, closed <- closed2, written <- written2, running <- running2,
         outcome <- outcome3, vpc <- vpc2, mpc <- mpc2, result <- result2
PanicL == INSTANCE PanicAbort
    WITH Vcpus <- {"v"}, Others <- {}, MaxPanics <- 2, MaxCaptures <- 0, slot <- slot2,
         lines <- lines2, closed <- closed2, written <- written2, running <- running2,
         outcome <- outcome3, vpc <- vpc2, mpc <- mpc2, result <- result2
PanicB == INSTANCE PanicAbort
    WITH Vcpus <- {"v"}, Others <- {}, MaxPanics <- 1, MaxCaptures <- 0, slot <- slot2,
         lines <- lines2, closed <- closed2, written <- written2, running <- running2,
         outcome <- outcome3, vpc <- vpc2, mpc <- mpc2, result <- result2
Sig == INSTANCE StopSignals
    WITH Signals <- {"term", "hup"}, MaxTargets <- 3, Prompt <- TRUE, target <- target2,
         first <- first2, pending <- pending2, signal <- signal2, mpc <- mpc3, ended <- ended2,
         late <- late2
SigL == INSTANCE StopSignals
    WITH Signals <- {"term", "hup"}, MaxTargets <- 3, Prompt <- FALSE, target <- target2,
         first <- first2, pending <- pending2, signal <- signal2, mpc <- mpc3, ended <- ended2,
         late <- late2
Tty == INSTANCE RawTerm
    WITH Threads <- {"s", "t"}, DuringEnable <- FALSE, Concurrent <- FALSE, MaxSignals <- 3,
         action <- action2
VcpuL == INSTANCE Vcpus
    WITH N <- 2, MaxHostKicks <- 0, running <- running3, requested <- requested2, registered <-
         registered2, pc <- pc2, expired <- expired2
HvfL == INSTANCE HvfVcpus
    WITH N <- 2, Entries <- {"e"}, MaxOns <- 1, MaxKicks <- 1, running <- running4, pending <-
         pending3, pc <- pc3, stopper <- stopper2, asked <- asked2

\* The variables by the components that have them, and their value in the parts
\* that have not.
ofLedger == <<lines, pending, added, written, dropped, unmarked, urgent, idle, closed, failing,
              gaveUp, wpc, taken, offset, wrote, retrying, giveUpAt, snapshot, file, locked,
              tpc, target, last, fails, outcome, made, ends>>
NoLedger == lines = 0 /\ pending = 0 /\ added = 0 /\ written = 0 /\ dropped = 0 /\
    unmarked = 0 /\ urgent = 0 /\ idle = 0 /\ closed = 0 /\ failing = 0 /\ gaveUp = 0 /\
    wpc = 0 /\ taken = 0 /\ offset = 0 /\ wrote = 0 /\ retrying = 0 /\ giveUpAt = 0 /\
    snapshot = 0 /\ file = 0 /\ locked = 0 /\ tpc = 0 /\ target = 0 /\ last = 0 /\ fails = 0 /\
    outcome = 0 /\ made = 0 /\ ends = 0
ofRunToStop == <<running, outcome2, startedIds, exited, exitFlag, vpc, ioStop, finished2, noted,
                 ipc, first, signal, wakes, apc, asks, asking, mpc, spawned, failure, announced,
                 expired, next, left, result, slot, recorded, stopRecord, firstReport, failed2>>
NoRunToStop == running = 0 /\ outcome2 = 0 /\ startedIds = 0 /\ exited = 0 /\ exitFlag = 0 /\
    vpc = 0 /\ ioStop = 0 /\ finished2 = 0 /\ noted = 0 /\ ipc = 0 /\ first = 0 /\ signal = 0 /\
    wakes = 0 /\ apc = 0 /\ asks = 0 /\ asking = 0 /\ mpc = 0 /\ spawned = 0 /\ failure = 0 /\
    announced = 0 /\ expired = 0 /\ next = 0 /\ left = 0 /\ result = 0 /\ slot = 0 /\
    recorded = 0 /\ stopRecord = 0 /\ firstReport = 0 /\ failed2 = 0
ofPanicAbort == <<aborting, slot2, current, lines2, closed2, written2, running2, outcome3, vpc2,
                  mpc2, result2, ppc, found, half, past, ended, lost, hasty, told, early>>
NoPanicAbort == aborting = 0 /\ slot2 = 0 /\ current = 0 /\ lines2 = 0 /\ closed2 = 0 /\
    written2 = 0 /\ running2 = 0 /\ outcome3 = 0 /\ vpc2 = 0 /\ mpc2 = 0 /\ result2 = 0 /\
    ppc = 0 /\ found = 0 /\ half = 0 /\ past = 0 /\ ended = 0 /\ lost = 0 /\ hasty = 0 /\
    told = 0 /\ early = 0
ofStopSignals == <<action, target2, first2, thread, registered, pending2, signal2, mpc3, ended2,
                   by, asked, late2>>
NoStopSignals == action = 0 /\ target2 = 0 /\ first2 = 0 /\ thread = 0 /\ registered = 0 /\
    pending2 = 0 /\ signal2 = 0 /\ mpc3 = 0 /\ ended2 = 0 /\ by = 0 /\ asked = 0 /\ late2 = 0
ofRawTerm == <<tty, saved, main, previous, used, action2, handler, sent, ran, alive>>
NoRawTerm == tty = 0 /\ saved = 0 /\ main = 0 /\ previous = 0 /\ used = 0 /\ action2 = 0 /\
    handler = 0 /\ sent = 0 /\ ran = 0 /\ alive = 0
ofVcpus == <<running3, requested2, parked, started, registered2, exitByte, kicker, kickTodo,
             kickStored, hostKicks, pc2, expired2, stopper, stopSent, severed>>
NoVcpus == running3 = 0 /\ requested2 = 0 /\ parked = 0 /\ started = 0 /\ registered2 = 0 /\
    exitByte = 0 /\ kicker = 0 /\ kickTodo = 0 /\ kickStored = 0 /\ hostKicks = 0 /\ pc2 = 0 /\
    expired2 = 0 /\ stopper = 0 /\ stopSent = 0 /\ severed = 0
ofHvfVcpus == <<running4, handles, vcpu, pending3, mbox, holder, pc3, entry, call, stopper2,
                todo, ons, kicks, asked2>>
NoHvfVcpus == running4 = 0 /\ handles = 0 /\ vcpu = 0 /\ pending3 = 0 /\ mbox = 0 /\ holder = 0
    /\ pc3 = 0 /\ entry = 0 /\ call = 0 /\ stopper2 = 0 /\ todo = 0 /\ ons = 0 /\ kicks = 0 /\
    asked2 = 0
all == <<part, vars, ofLedger, ofRunToStop, ofPanicAbort, ofStopSignals, ofRawTerm,
         ofVcpus, ofHvfVcpus>>

\* A step of one part leaves the variables of the others alone.
InLedger(p, A) == part = p /\ A /\ UNCHANGED <<part, vars, ofRunToStop, ofPanicAbort,
    ofStopSignals, ofRawTerm, ofVcpus, ofHvfVcpus>>
InRunToStop(p, A) == part = p /\ A /\ UNCHANGED <<part, vars, ofLedger, ofPanicAbort,
    ofStopSignals, ofRawTerm, ofVcpus, ofHvfVcpus>>
InPanicAbort(p, A) == part = p /\ A /\ UNCHANGED <<part, vars, ofLedger, ofRunToStop,
    ofStopSignals, ofRawTerm, ofVcpus, ofHvfVcpus>>
InStopSignals(p, A) == part = p /\ A /\ UNCHANGED <<part, vars, ofLedger, ofRunToStop,
    ofPanicAbort, ofRawTerm, ofVcpus, ofHvfVcpus>>
InRawTerm(p, A) == part = p /\ A /\ UNCHANGED <<part, vars, ofLedger, ofRunToStop, ofPanicAbort,
    ofStopSignals, ofVcpus, ofHvfVcpus>>
InIoStop(p, A) == part = p /\ A /\ UNCHANGED <<part, ofLedger, ofRunToStop, ofPanicAbort,
    ofStopSignals, ofRawTerm, ofVcpus, ofHvfVcpus>>
InVcpus(p, A) == part = p /\ A /\ UNCHANGED <<part, vars, ofLedger, ofRunToStop, ofPanicAbort,
    ofStopSignals, ofRawTerm, ofHvfVcpus>>
InHvfVcpus(p, A) == part = p /\ A /\ UNCHANGED <<part, vars, ofLedger, ofRunToStop, ofPanicAbort,
    ofStopSignals, ofRawTerm, ofVcpus>>

MCInit ==
    /\ part \in Parts
    /\ IF part = "vcpus_live" THEN VcpuL!Init ELSE NoVcpus
    /\ IF part = "hvf_live" THEN HvfL!Init ELSE NoHvfVcpus
    /\ \/ ((part = "ledger_live" /\ LedL!Init) \/ (part = "ledger_drains" /\ LedL!Init))
          /\ Init /\ NoRunToStop /\ NoPanicAbort /\ NoStopSignals /\ NoRawTerm
       \/ ((part = "run" /\ Run!Init) \/ (part = "run_live" /\ RunL!Init) \/
           (part = "asked_live" /\ AskedL!Init) \/ (part = "asked" /\ Asked!Init) \/
           (part = "reports" /\ Reports!Init))
          /\ Init /\ NoLedger /\ NoPanicAbort /\ NoStopSignals /\ NoRawTerm
       \/ ((part = "panic" /\ Panic!Init) \/ (part = "captures" /\ Capt!Init) \/
           (part = "panic_live" /\ PanicL!Init) \/ (part = "panic_blocked" /\ PanicB!Init))
          /\ Init /\ NoLedger /\ NoRunToStop /\ NoStopSignals /\ NoRawTerm
       \/ ((part = "signals" /\ Sig!Init) \/ (part = "signals_live" /\ SigL!Init))
          /\ Init /\ NoLedger /\ NoRunToStop /\ NoPanicAbort /\ NoRawTerm
       \/ part = "terminal" /\ Tty!Init /\ Init /\ NoLedger /\ NoRunToStop /\ NoPanicAbort /\
           NoStopSignals
       \/ ((part = "io" /\ Init) \/ (part = "io_unwinds" /\ Init))
          /\ NoLedger /\ NoRunToStop /\ NoPanicAbort /\ NoStopSignals /\ NoRawTerm
       \/ part \in {"vcpus_live", "hvf_live"}
          /\ Init /\ NoLedger /\ NoRunToStop /\ NoPanicAbort /\ NoStopSignals /\ NoRawTerm
MCNext == \/ InLedger("ledger_live", LedL!Next) \/ InLedger("ledger_drains", LedL!Next)
          \/ InRunToStop("run", Run!Next) \/ InRunToStop("run_live", RunL!Next)
          \/ InRunToStop("asked_live", AskedL!Next) \/ InRunToStop("asked", Asked!Next)
          \/ InRunToStop("reports", Reports!Next) \/ InPanicAbort("panic", Panic!Next)
          \/ InPanicAbort("captures", Capt!Next) \/ InPanicAbort("panic_live", PanicL!Next)
          \/ InPanicAbort("panic_blocked", PanicB!Next) \/ InStopSignals("signals", Sig!Next)
          \/ InStopSignals("signals_live", SigL!Next) \/ InRawTerm("terminal", Tty!Next)
          \/ InIoStop("io", Next) \/ InIoStop("io_unwinds", Next)
          \/ InVcpus("vcpus_live", VcpuL!Next) \/ InHvfVcpus("hvf_live", HvfL!Next)
MCSpec == MCInit /\ [][MCNext]_all

ASSUME ConstantsAssumption ==
    /\ Run!ConstantsAssumption /\ Asked!ConstantsAssumption /\ Reports!ConstantsAssumption

\* The scheduler runs every thread that can go on, and time passes.  Nothing makes
\* a vCPU leave its loop, a plugin return, a write succeed or stdin come; each
\* component's Fairness says what is assumed of it, and in panic_blocked not even
\* that a print to stderr returns.  One conjunct stands for a thread of every part.
Drains(A) == InLedger("ledger_live", A) \/ InLedger("ledger_drains", A)
Io(A) == InIoStop("io", A) \/ InIoStop("io_unwinds", A)
Ends(A, B) == InRunToStop("run_live", A) \/ InRunToStop("asked_live", B)
Hook(A, B) == InPanicAbort("panic_live", A) \/ InPanicAbort("panic_blocked", B)
Sends(A) == InStopSignals("signals_live", A)
Vcpu(A) == InVcpus("vcpus_live", A)
Hvf(A) == InHvfVcpus("hvf_live", A)
Live ==
    /\ MCSpec
    /\ WF_all(\/ Drains(LedL!WriterMoves)
              \/ Ends(RunL!MainStep, AskedL!MainStep)
              \/ Hook(PanicL!HookStep("v"), PanicB!HookStep("v"))
              \/ Sends(SigL!Receive("term"))
              \/ Io(RunnerStep) \/ Vcpu(VcpuL!StopStep) \/ Hvf(HvfL!KicksAll))
    /\ WF_all(\/ Drains(LedL!GiveUpTimePasses)
              \/ Ends(RunL!DeadlinePasses, AskedL!DeadlinePasses)
              \/ Hook(PanicL!TimePasses("v"), PanicB!TimePasses("v"))
              \/ Sends(SigL!TimePasses)
              \/ Io(ConsoleStep) \/ Vcpu(VcpuL!PauseExpires) \/ Hvf(HvfL!KicksHalted))
    /\ WF_all(\/ Drains(LedL!ThreadStep("t"))
              \/ Ends(RunL!VcpuExits(0), AskedL!VcpuExits(0))
              \/ Hook(PanicL!HookStep(PanicL!Main), PanicB!HookStep(PanicL!Main))
              \/ Sends(SigL!Receive("hup"))
              \/ Io(ThreadStep("w")) \/ Vcpu(VcpuL!VcpuStep(0)) \/ Hvf(HvfL!Thread(0)))
    /\ WF_all(\/ Drains(LedL!ThreadStep("u"))
              \/ Ends(RunL!IoEnds(console), AskedL!AskOn("signals"))
              \/ Hook(PanicL!TimePasses(PanicL!Main), PanicB!TimePasses(PanicL!Main))
              \/ Sends(SigL!SendsAnew("term"))
              \/ Io(RunAction("w")) \/ Vcpu(VcpuL!VcpuStep(1)) \/ Hvf(HvfL!Thread(1)))
    /\ WF_all(\/ InPanicAbort("panic_live", PanicL!Prints("v"))
              \/ Sends(SigL!SendsAnew("hup"))
              \/ Io(ThreadStep(Console)) \/ Vcpu(VcpuL!PauseStep))
    /\ WF_all(\/ InPanicAbort("panic_live", PanicL!Prints(PanicL!Main))
              \/ Vcpu(\E c \in {0, 1} : VcpuL!KickStore(c) \/ VcpuL!KickSignal(c)))
    /\ SF_all(Vcpu(VcpuL!SafepointReturn))

-----------------------------------------------------------------------------
(* Properties. *)

\* What a run reports is what happened: Ok means that every thread is gone and
\* none failed, the result has the cause it names, the first signal to ask is the
\* one found and wakes the thread that called boot, the ledger lists the vCPUs that
\* started, and the process takes another run only once nothing of this one is left
\* (run_to_stop, Vcpus::wait_for_stop, RunClaim).
ResultIsHonest ==
    /\ part = "run" => Run!OkMeansClean /\ Run!FreeMeansNothingLeft
    /\ part = "asked" => Asked!FirstSignalIsFound /\ Asked!NewsWakesTheLoop
    /\ part = "reports" => Reports!ResultIsCaused /\ Reports!StartsAreRecorded

\* A panic is on record before it ends the process: one vmm.stop record, the
\* last, that says the run failed, with no captured record lost (panic_abort).
PanicIsOnRecord ==
    /\ part = "panic" => /\ Panic!OneStopAfterStart /\ Panic!AbortAfterRecord
                         /\ Panic!RecordsTheFailure /\ Panic!HookKeepsAbort
    /\ part = "captures" => Capt!OneStopAfterStart /\ Capt!CapturesAreKept

\* A signal asks before it kills: it ends the process only when it came
\* STOP_TIMEOUT after one that asked the present run, none is swallowed, and a
\* binary ends by the one that asked (stop_signals).  The terminal is the caller's
\* again: a process a handled signal ended left none raw, a fault that was recovered
\* from left it raw, and a handler installed to run once ran once (RawTerm).
SignalsAskFirst ==
    /\ part = "signals" => /\ Sig!EscalatesOnlyLate /\ Sig!HandlersHaveThread
                           /\ Sig!FinishesBySignal
    /\ part = "terminal" => Tty!RestoredAtEnd /\ Tty!RecoveredKeepsRaw /\ Tty!OnceRunsOnce

\* What must come, by part: a run that has news ends, also when a thread never
\* does; a process that panics ends, with its guest stopped even if the report
\* cannot be printed; while someone goes on sending a stop signal the process ends,
\* though its run is stuck; a closed ledger lets go of its file, even if its writes
\* keep failing, and every line buffered is taken with no record after it; a stop
\* of the I/O threads ends without its deadline, wherever the console was when it
\* came, and an unwind stops them too, parked ones included; a stop ends every vCPU
\* thread, one in the guest, parked or waiting in a pause under KVM, one that waits
\* for CPU_ON or has not registered yet under Hypervisor.framework.
Asks == CASE part = "run_live" -> RunL!News
          [] part = "asked_live" -> AskedL!News
          [] part = "panic_live" -> aborting
          [] part = "panic_blocked" -> PanicB!Reports
          [] part = "signals_live" -> SigL!Listens
          [] part = "ledger_live" -> closed
          [] part = "ledger_drains" -> lines # <<>>
          [] part = "vcpus_live" -> ~running3
          [] part = "hvf_live" -> ~running4
          [] part = "io" -> runner.pc \in {"actions", "count", "wait"}
          [] part = "io_unwinds" -> runner.pc = "unwind"
Comes == CASE part = "run_live" -> RunL!Over
           [] part = "asked_live" -> AskedL!Over
           [] part = "panic_live" -> PanicL!ProcessOver
           [] part = "panic_blocked" -> PanicB!ProcessOver \/ PanicB!GuestStopped
           [] part = "signals_live" -> SigL!ProcessOver
           [] part = "ledger_live" -> ~locked
           [] part = "ledger_drains" -> lines = <<>>
           [] part = "vcpus_live" -> \A c \in {0, 1} : pc2[c] \in {"unborn", "gone"}
           [] part = "hvf_live" -> \A c \in {0, 1} : pc3[c] = "exited"
           [] part = "io" -> runner.pc = "returned"
           [] part = "io_unwinds" -> \A t \in Threads \ (Stuck \cup {Console}) : body[t] = "done"
RunsEnd == Asks ~> Comes
=============================================================================
