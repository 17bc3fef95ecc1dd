---------------------------- MODULE SolverMonitor ---------------------------
(***************************************************************************)
(* Solver runs of a built project: the requests that launch and stop them  *)
(* (executor/mod.rs, executor/solver.rs, executor/session.rs), the solver  *)
(* process and its status record (ppf-cts-solver, status_writer.rs), and   *)
(* the monitor that turns what is left of a run into SolverFinished or     *)
(* SolverCrashed (monitor.rs).                                             *)
(*                                                                         *)
(* A run is two processes: the launcher (bash on the project's run script),*)
(* which the server waits for, and the solver below it, which the server   *)
(* only knows by its name, its pid in the record and its liveness lock.    *)
(* The monitor reads its evidence piece by piece; each piece is one step.  *)
(*                                                                         *)
(* One project stays selected and built.  Left out: the hold at a frame,   *)
(* a recycled pid, a schema mismatch, restarts of the server.              *)
(***************************************************************************)
EXTENDS ServerTransitions, FiniteSets

CONSTANTS
    Conn,       \* client connections
    Serves,     \* the requests each connection may bring
    MaxRuns,    \* bound on the runs ever requested
    AfterStart, \* whether a stop is asked only once a run has been
    StopsIn     \* the solver phases in which a stop is asked

Request == {"poll", "start", "resume", "terminate", "save_and_quit"}
Run == 1 .. MaxRuns

ASSUME MonitorAssumption ==
    /\ Serves \in [Conn -> SUBSET Request]
    /\ MaxRuns \in Nat
    /\ AfterStart \in BOOLEAN
    /\ StopsIn \subseteq {"Idle", "Running", "Saving", "Failed"}

VARIABLES
    state,      \* EngineInner::state
    conn,       \* each connection's effects still to run
    run,        \* the launches, with their processes
    slot,       \* exit_watch::SLOT
    record,     \* status.cbor
    lock,       \* the run holding status.lock, or 0
    files,      \* terminate_request, save_and_quit, the checkpoints, and
                \* whether intersection_records.json, if there, can be read
    mon         \* the monitor: where in its tick, and MonitorContext

vars == <<state, conn, run, slot, record, lock, files, mon>>
disk == <<record, lock, files>>

Connection == [pc : {"idle", "scrub", "kill", "spawn", "mark", "touch"},
               req : Request, run : {0} \cup Run]
IdleConnection == [pc |-> "idle", req |-> "poll", run |-> 0]

\* The solver is booting from its exec to status_writer::init, up while it
\* writes its record, closing once that is terminal.
RunState == [launcher : {"unused", "requested", "alive", "gone"},
             solver : {"unborn", "booting", "up", "saving", "closing", "gone"},
             load : BOOLEAN, frame : Frame, signaled : BOOLEAN]
UnusedRun == [launcher |-> "unused", solver |-> "unborn", load |-> FALSE,
              frame |-> 0, signaled |-> FALSE]

Slot == [launch : {0} \cup Run, exit : BOOLEAN]
FreeSlot == [launch |-> 0, exit |-> FALSE]

RecordPhase == {"Absent", "Torn", "Starting", "Running", "Saving", "Ended"}
Record == [phase : RecordPhase, run : {0} \cup Run, frame : Frame,
           outcome : {"", "finished", "saved", "panic", "abrupt"}]
NoRecord == [phase |-> "Absent", run |-> 0, frame |-> 0, outcome |-> ""]
TornRecord == [NoRecord EXCEPT !.phase = "Torn"]
\* Mutant: a record names the frame to come.
ProgressAhead(r, phase, frame) ==
    [phase |-> phase, run |-> r, frame |-> frame + 1, outcome |-> ""]

Progress(r, phase, frame) ==
    [phase |-> phase, run |-> r, frame |-> frame, outcome |-> ""]

Files == [terminate_request : BOOLEAN, save_and_quit : BOOLEAN,
          checkpoint : BOOLEAN, readable : BOOLEAN]

\* solver_started_at against the startup grace.
Grace == {"none", "fresh", "elapsed"}
Monitor == [pc : {"tick", "scan", "disarm", "adopt", "post", "post_report",
                  "read", "decide", "seal", "report"},
            seen : ServerState, last : {"Idle", "Running", "Saving", "Failed"},
            started : Grace, rec : Record, kind : {""} \cup CrashKind]
IdleMonitor == [pc |-> "tick", seen |-> DefaultState, last |-> "Idle",
                started |-> "none", rec |-> NoRecord, kind |-> ""]

Active(solver) == solver \in {"Running", "Saving"}

\* The process scan sees a process by its name, which the launcher lacks.
ProcessExists(r) == run[r].solver \in {"booting", "up", "saving", "closing"}
SolverBusy == \E r \in Run : ProcessExists(r)

Init ==
    /\ \E p \in Project :
          state = [DefaultState EXCEPT !.name = p, !.root = p,
                                       !.data = "Uploaded", !.build = "Built"]
    /\ conn = [c \in Conn |-> IdleConnection]
    /\ run = [r \in Run |-> UnusedRun]
    /\ slot = FreeSlot
    /\ record = NoRecord /\ lock = 0
    /\ files \in [terminate_request : {FALSE}, save_and_quit : {FALSE},
                  checkpoint : BOOLEAN, readable : {TRUE}]
    /\ mon = IdleMonitor

-----------------------------------------------------------------------------
(* Requests                                                                *)

IsNext(r) ==
    /\ run[r].launcher = "unused"
    /\ \A q \in 1 .. r - 1 : run[q].launcher # "unused"

\* Every request first re-selects its project and so re-reads the checkpoints;
\* a poll, and an event whose guard fails, does nothing more.
Refreshed ==
    RefreshProject(state,
        [name |-> state.name, has_data |-> TRUE, has_param |-> TRUE,
         upload_id |-> state.upload_id, data_hash |-> state.data_hash,
         param_hash |-> state.param_hash, total_frames |-> state.total_frames,
         is_resumable |-> files.checkpoint])

Poll(c) ==
    /\ conn[c].pc = "idle" /\ "poll" \in Serves[c]
    /\ state' = Refreshed
    /\ UNCHANGED <<conn, run, slot, disk, mon>>

EmitLaunch(c, r, req, load) ==
    /\ conn[c].pc = "idle" /\ req \in Serves[c] /\ IsNext(r)
    /\ run' = [run EXCEPT ![r].launcher = "requested", ![r].load = load]
    /\ conn' = [conn EXCEPT ![c] = [pc |-> "scrub", req |-> req, run |-> r]]
    /\ UNCHANGED <<slot, disk, mon>>

RequestStart(c, r) ==
    /\ CanStart(Refreshed)
    /\ state' = StartRequested(Refreshed)
    /\ EmitLaunch(c, r, "start", FALSE)

RequestResume(c, r) ==
    /\ CanResume(Refreshed)
    /\ state' = ResumeRequested(Refreshed)
    /\ EmitLaunch(c, r, "resume", TRUE)

\* The add-on draws Terminate and Save and Quit while its last poll shows a run,
\* however old that poll is: they cross the end of a run, and come as often as
\* they like after it.  Its API and its MCP tools send them before any run too.
Offered == /\ state.solver \in StopsIn
           /\ AfterStart => \E r \in Run : run[r].launcher # "unused"

RequestTerminate(c) ==
    /\ conn[c].pc = "idle" /\ "terminate" \in Serves[c] /\ Offered
    /\ state' = TerminateRequested(Refreshed)
    /\ conn' = [conn EXCEPT ![c].pc = "mark", ![c].req = "terminate"]
    /\ UNCHANGED <<run, slot, disk, mon>>

RequestSaveAndQuit(c) ==
    /\ conn[c].pc = "idle" /\ "save_and_quit" \in Serves[c] /\ Offered
    /\ state' = SaveAndQuitRequested(Refreshed)
    /\ conn' = [conn EXCEPT ![c].pc = "touch", ![c].req = "save_and_quit"]
    /\ UNCHANGED <<run, slot, disk, mon>>

-----------------------------------------------------------------------------
(* Effects                                                                 *)

\* launch_solver first clears what an earlier run left; the lock stays.
Scrub(c) ==
    /\ conn[c].pc = "scrub"
    /\ record' = NoRecord
    /\ files' = [files EXCEPT !.terminate_request = FALSE,
                              !.save_and_quit = FALSE]
    /\ conn' = [conn EXCEPT ![c].pc = "kill"]
    /\ UNCHANGED <<state, run, slot, lock, mon>>

\* terminate_solver: SIGTERM to every solver process there is, not awaited.
KillSolvers(c) ==
    /\ conn[c].pc = "kill"
    /\ run' = [r \in Run |-> IF ProcessExists(r)
                                THEN [run[r] EXCEPT !.signaled = TRUE]
                                ELSE run[r]]
    /\ conn' = IF conn[c].run # 0
                  THEN [conn EXCEPT ![c].pc = "spawn"]
                  ELSE [conn EXCEPT ![c] = IdleConnection]
    /\ UNCHANGED <<state, slot, disk, mon>>

\* Mutant: arming keeps the status the slot shows.
SpawnKeepsExit(c) ==
    /\ conn[c].pc = "spawn"
    /\ slot' = [slot EXCEPT !.launch = conn[c].run]
    /\ run' = [run EXCEPT ![conn[c].run].launcher = "alive"]
    /\ conn' = [conn EXCEPT ![c] = IdleConnection]
    /\ UNCHANGED <<state, disk, mon>>

\* exit_watch::arm, then spawn.
Spawn(c) ==
    LET r == conn[c].run
    IN /\ conn[c].pc = "spawn"
       /\ slot' = [launch |-> r, exit |-> FALSE]
       /\ run' = [run EXCEPT ![r].launcher = "alive"]
       /\ conn' = [conn EXCEPT ![c] = IdleConnection]
       /\ UNCHANGED <<state, disk, mon>>

\* No run script, no log file, or a failed spawn after arm and release.
SpawnFails(c) ==
    LET r == conn[c].run
    IN /\ conn[c].pc = "spawn"
       /\ slot' \in {slot, FreeSlot}
       /\ run' = [run EXCEPT ![r].launcher = "gone", ![r].solver = "gone"]
       /\ state' = ErrorOccurred(state)
       /\ conn' = [conn EXCEPT ![c] = IdleConnection]
       /\ UNCHANGED <<disk, mon>>

\* DoKillSolver stamps terminate_request before it kills.
MarkTerminate(c) ==
    /\ conn[c].pc = "mark"
    /\ files' = [files EXCEPT !.terminate_request = TRUE]
    /\ conn' = [conn EXCEPT ![c].pc = "kill"]
    /\ UNCHANGED <<state, run, slot, record, lock, mon>>

TouchSaveAndQuit(c) ==
    /\ conn[c].pc = "touch"
    /\ files' = [files EXCEPT !.save_and_quit = TRUE]
    /\ conn' = [conn EXCEPT ![c] = IdleConnection]
    /\ UNCHANGED <<state, run, slot, record, lock, mon>>

-----------------------------------------------------------------------------
(* The launcher and the solver                                             *)

Exec(r) ==
    /\ run[r].launcher = "alive" /\ run[r].solver = "unborn"
    /\ run' = [run EXCEPT ![r].solver = "booting"]
    /\ UNCHANGED <<state, conn, slot, disk, mon>>

\* The script fails before the solver exists, or the solver refuses its
\* arguments (a resume without a checkpoint) before its status writer.
BootFails(r) ==
    /\ run[r].launcher = "alive" /\ run[r].solver \in {"unborn", "booting"}
    /\ run' = [run EXCEPT ![r].solver = "gone"]
    /\ UNCHANGED <<state, conn, slot, disk, mon>>

\* setup() wipes the output of a fresh run, its lock file, its checkpoints and
\* its intersections with it but not save_and_quit; status_writer::init scrubs,
\* locks and starts the record.  A resume finding the lock held goes on without.
InitSolver(r) ==
    /\ run[r].solver = "booting"
    /\ run[r].load => files.checkpoint
    /\ run' = [run EXCEPT ![r].solver = "up"]
    /\ lock' = IF run[r].load /\ lock # 0 THEN lock ELSE r
    /\ record' = Progress(r, "Starting", 0)
    /\ files' = [files EXCEPT !.terminate_request = FALSE,
                              !.checkpoint = run[r].load,
                              !.readable = @ \/ ~run[r].load]
    /\ UNCHANGED <<state, conn, slot, mon>>

\* Mutant: the last writer wins.
OverwriteTerminal(rec) == record' = rec

\* status::write_terminal: the first terminal outcome on disk stays.
WriteTerminal(rec) == record' = IF record.phase = "Ended" THEN record ELSE rec

End(r, outcome) ==
    /\ run' = [run EXCEPT ![r].solver = "closing"]
    /\ WriteTerminal([phase |-> "Ended", run |-> r, frame |-> run[r].frame,
                      outcome |-> outcome])

\* One frame written, a checkpoint with it when auto-save is due.
Advance(r) ==
    /\ run[r].solver = "up" /\ run[r].frame < MaxFrame
    /\ ~files.save_and_quit
    /\ run' = [run EXCEPT ![r].frame = @ + 1]
    /\ record' = Progress(r, "Running", run[r].frame + 1)
    /\ \E saved \in BOOLEAN : files' = [files EXCEPT !.checkpoint = @ \/ saved]
    /\ UNCHANGED <<state, conn, slot, lock, mon>>

BeginSave(r) ==
    /\ run[r].solver = "up" /\ files.save_and_quit
    /\ run' = [run EXCEPT ![r].solver = "saving"]
    /\ record' = Progress(r, "Saving", run[r].frame)
    /\ UNCHANGED <<state, conn, slot, lock, files, mon>>

EndSave(r) ==
    /\ run[r].solver = "saving"
    /\ files' = [files EXCEPT !.save_and_quit = FALSE, !.checkpoint = TRUE]
    /\ End(r, "saved")
    /\ UNCHANGED <<state, conn, slot, lock, mon>>

Finish(r) ==
    /\ run[r].solver = "up" /\ run[r].frame = MaxFrame
    /\ ~files.save_and_quit
    /\ \E saved \in BOOLEAN : files' = [files EXCEPT !.checkpoint = @ \/ saved]
    /\ End(r, "finished")
    /\ UNCHANGED <<state, conn, slot, lock, mon>>

\* A failed initialize() or a panic stamps its own outcome.
Panic(r) ==
    /\ run[r].solver \in {"up", "saving"}
    /\ End(r, "panic")
    /\ UNCHANGED <<state, conn, slot, lock, files, mon>>

\* So does a failed advance, and writes intersection_records.json after it,
\* renamed into place but not synced: what is found there need not be readable.
AdvanceFails(r) ==
    /\ run[r].solver = "up" /\ run[r].frame < MaxFrame
    /\ End(r, "panic")
    /\ \E readable \in BOOLEAN : files' = [files EXCEPT !.readable = readable]
    /\ UNCHANGED <<state, conn, slot, lock, mon>>

Unlocked(r) == lock' = IF lock = r THEN 0 ELSE lock

Exit(r) ==
    /\ run[r].solver = "closing"
    /\ run' = [run EXCEPT ![r].solver = "gone"]
    /\ Unlocked(r)
    /\ UNCHANGED <<state, conn, slot, record, files, mon>>

\* A SIGTERM, a SIGKILL or a fault, at worst in the middle of write_progress.
Die(r) ==
    /\ ProcessExists(r)
    /\ run' = [run EXCEPT ![r].solver = "gone"]
    /\ Unlocked(r)
    /\ \/ UNCHANGED record
       \/ run[r].solver \in {"up", "saving"} /\ record' = TornRecord
    /\ UNCHANGED <<state, conn, slot, files, mon>>

DieOfSignal(r) == run[r].signaled /\ Die(r)

\* Mutant: the waiter does not look whose launch the slot is armed for.
RecordAnyLaunch(r) ==
    /\ run[r].launcher = "alive" /\ run[r].solver = "gone"
    /\ run' = [run EXCEPT ![r].launcher = "gone"]
    /\ slot' = [slot EXCEPT !.exit = slot.launch # 0]
    /\ UNCHANGED <<state, conn, disk, mon>>

\* Mutant: a launcher that could not be reaped keeps the slot.
KeepUnreaped(r) ==
    /\ run[r].launcher = "alive" /\ run[r].solver = "gone"
    /\ run' = [run EXCEPT ![r].launcher = "gone"]
    /\ slot' \in {[slot EXCEPT !.exit = @ \/ slot.launch = r], slot}
    /\ UNCHANGED <<state, conn, disk, mon>>

\* The launcher exits after its solver, and its waiter either records the
\* status in the slot, if that still belongs to this launch, or, when it could
\* not be reaped, releases it.
ReapLauncher(r) ==
    /\ run[r].launcher = "alive" /\ run[r].solver = "gone"
    /\ run' = [run EXCEPT ![r].launcher = "gone"]
    /\ IF slot.launch = r
          THEN slot' \in {[slot EXCEPT !.exit = TRUE], FreeSlot}
          ELSE slot' = slot
    /\ UNCHANGED <<state, conn, disk, mon>>

-----------------------------------------------------------------------------
(* The monitor's tick                                                      *)

\* The running edge, then the early return of a tick with nothing to poll.
Edge(m, s) ==
    IF ~Active(s.solver)
    THEN [IdleMonitor EXCEPT !.last = s.solver]
    ELSE [m EXCEPT !.pc = "read", !.seen = s, !.last = s.solver,
                   !.started = IF m.last = "Idle" THEN "fresh" ELSE @]

\* The post-mortem block comes before the edge, for an idle run without frames.
PostOrEdge(m, s) ==
    IF s.solver = "Idle" /\ s.frame = 0
    THEN [m EXCEPT !.pc = "post", !.seen = s]
    ELSE Edge(m, s)

Snapshot ==
    /\ mon.pc = "tick"
    /\ mon' = IF state.solver = "Idle"
                 THEN [mon EXCEPT !.pc = "scan", !.seen = state]
                 ELSE Edge(mon, state)
    /\ UNCHANGED <<state, conn, run, slot, disk>>

Scan ==
    /\ mon.pc = "scan"
    /\ mon' = IF SolverBusy THEN [mon EXCEPT !.pc = "disarm"]
                            ELSE PostOrEdge(mon, mon.seen)
    /\ UNCHANGED <<state, conn, run, slot, disk>>

\* exit_watch::disarm, whichever launch of the project holds the slot.
Disarm ==
    /\ mon.pc = "disarm"
    /\ slot' = FreeSlot
    /\ mon' = [mon EXCEPT !.pc = "adopt"]
    /\ UNCHANGED <<state, conn, run, disk>>

\* The adopted run is taken to be past its startup grace.
Adopt ==
    /\ mon.pc = "adopt"
    /\ state' = IF CanAdopt(state) THEN ExternalSolverAdopted(state, TRUE)
                                   ELSE state
    /\ mon' = PostOrEdge([mon EXCEPT !.started = "elapsed",
                                     !.last = state'.solver], state')
    /\ UNCHANGED <<conn, run, slot, disk>>

Post ==
    /\ mon.pc = "post"
    /\ mon' = IF record.phase = "Ended"
                 THEN [mon EXCEPT !.pc = "post_report", !.rec = record]
                 ELSE Edge(mon, mon.seen)
    /\ UNCHANGED <<state, conn, run, slot, disk>>

\* The verdict a terminal record carries.
Verdict(s, rec) ==
    IF rec.outcome \in CrashKind THEN SolverCrashed(s, rec.outcome, 0)
    ELSE SolverFinished(s, rec.outcome = "saved" \/ files.checkpoint)

FrameOf(s, rec, seen) ==
    IF rec.frame # seen.frame THEN SolverFrameUpdated(s, rec.frame) ELSE s

EndTick == mon' = [IdleMonitor EXCEPT !.last = mon.last, !.started = mon.started]

\* report_crash reads intersection_records.json first.  If that cannot be read
\* the tick is over with an error: nothing is said, the mirror stays as it was.
Unreported(rec) == rec.outcome \in CrashKind /\ ~files.readable

PostReport ==
    LET s == FrameOf(state, mon.rec, mon.seen)
    IN /\ mon.pc = "post_report"
       /\ IF Unreported(mon.rec)
             THEN state' = s /\ EndTick
             ELSE /\ state' = Verdict(s, mon.rec)
                  /\ mon' = Edge([mon EXCEPT !.last = state'.solver, !.kind = "",
                                             !.rec = NoRecord], state')
       /\ UNCHANGED <<conn, run, slot, disk>>

Read ==
    /\ mon.pc = "read"
    /\ mon' = [mon EXCEPT !.pc = "decide", !.rec = record]
    /\ UNCHANGED <<state, conn, run, slot, disk>>

\* Mutant: the process scan alone, which a launcher and its boot escape.
NoSolverSeen == ~SolverBusy

\* launcher_witness, our_launcher_was_reaped, terminate_intended.
Reaped == slot.launch # 0 /\ slot.exit
LauncherGone == IF slot.launch # 0 THEN slot.exit ELSE ~SolverBusy
TerminateIntended == files.terminate_request \/ state.solver = "Idle"

\* finish_solver and report_crash leave the mirror at Idle, the timer unset.
Settled == mon' = IdleMonitor

\* What the record says of frames and initialisation, before any verdict.
Observed ==
    LET s == FrameOf(state, mon.rec, mon.seen)
    IN IF mon.seen.initialized \/ mon.rec.phase = "Starting" THEN s
       ELSE SolverInitialized(s)

DecideTerminal ==
    /\ mon.pc = "decide" /\ mon.rec.phase = "Ended"
    /\ IF Unreported(mon.rec) THEN state' = Observed /\ EndTick
                              ELSE state' = Verdict(Observed, mon.rec) /\ Settled
    /\ UNCHANGED <<conn, run, slot, disk>>

\* A record without an outcome: alive, or dead without a word.
Alive(rec) ==
    \/ lock # 0
    \/ rec.run # 0 /\ ProcessExists(rec.run) /\ ~Reaped

DecideLive ==
    /\ mon.pc = "decide" /\ mon.rec.phase \in {"Starting", "Running", "Saving"}
    /\ \/ /\ Alive(mon.rec)
          /\ state' = IF mon.rec.phase = "Saving" /\ mon.seen.solver = "Running"
                         THEN SolverSaving(Observed) ELSE Observed
          /\ EndTick
       \/ /\ ~Alive(mon.rec)
          /\ mon.started # "elapsed" \/ ~LauncherGone
          /\ state' = Observed
          /\ EndTick
       \/ /\ ~Alive(mon.rec) /\ mon.started = "elapsed" /\ LauncherGone
          /\ IF TerminateIntended
                THEN /\ state' = SolverFinished(Observed, files.checkpoint)
                     /\ Settled
                ELSE /\ state' = Observed
                     /\ mon' = [mon EXCEPT !.pc = "seal", !.kind = "abrupt"]
    /\ UNCHANGED <<conn, run, slot, disk>>

\* No record: the solver never reached its status writer.
DecideAbsent ==
    /\ mon.pc = "decide" /\ mon.rec.phase = "Absent"
    /\ IF /\ mon.started = "elapsed" /\ lock = 0
          /\ ~TerminateIntended /\ LauncherGone
          THEN mon' = [mon EXCEPT !.pc = "report", !.kind = "launch_failed"]
          ELSE EndTick
    /\ UNCHANGED <<state, conn, run, slot, disk>>

DecideTorn ==
    /\ mon.pc = "decide" /\ mon.rec.phase = "Torn"
    /\ IF mon.started = "elapsed" /\ lock = 0 /\ LauncherGone
          THEN IF TerminateIntended
                  THEN /\ state' = SolverFinished(state, files.checkpoint)
                       /\ Settled
                  ELSE /\ mon' = [mon EXCEPT !.pc = "seal", !.kind = "abrupt"]
                       /\ UNCHANGED state
          ELSE EndTick /\ UNCHANGED state
    /\ UNCHANGED <<conn, run, slot, disk>>

\* Mutant: the verdict is reported and not sealed.
SkipSeal ==
    /\ mon.pc = "seal"
    /\ mon' = [mon EXCEPT !.pc = "report"]
    /\ UNCHANGED <<state, conn, run, slot, disk>>

\* seal_abrupt_crash and seal_torn_record_crash.
Seal ==
    /\ mon.pc = "seal"
    /\ WriteTerminal([mon.rec EXCEPT !.phase = "Ended", !.outcome = mon.kind])
    /\ mon' = [mon EXCEPT !.pc = "report"]
    /\ UNCHANGED <<state, conn, run, slot, lock, files>>

Report ==
    /\ mon.pc = "report"
    /\ IF files.readable
          THEN state' = SolverCrashed(state, mon.kind, 0) /\ Settled
          ELSE UNCHANGED state /\ EndTick
    /\ UNCHANGED <<conn, run, slot, disk>>

\* The grace (3 s) is taken to outlast the effects of a launch, which are a few
\* file operations and two scans of the process table.  A tick tests it once,
\* before it reads the record.
GraceElapses ==
    /\ mon.started = "fresh" /\ mon.pc # "decide"
    /\ \A c \in Conn : conn[c].pc \notin {"scrub", "kill", "spawn"} \/ conn[c].run = 0
    /\ mon' = [mon EXCEPT !.started = "elapsed"]
    /\ UNCHANGED <<state, conn, run, slot, disk>>

-----------------------------------------------------------------------------
EffectStep(c) ==
    Scrub(c) \/ KillSolvers(c) \/ Spawn(c) \/ SpawnFails(c)
    \/ MarkTerminate(c) \/ TouchSaveAndQuit(c)

\* What a run does by itself; only a signal it was sent makes it die.
RunStep(r) ==
    \/ Exec(r) \/ BootFails(r) \/ InitSolver(r)
    \/ Advance(r) \/ BeginSave(r) \/ EndSave(r) \/ Finish(r) \/ Panic(r)
    \/ AdvanceFails(r) \/ Exit(r) \/ DieOfSignal(r)

MonitorStep ==
    \/ Snapshot \/ Scan \/ Disarm \/ Adopt \/ Post \/ PostReport \/ Read
    \/ DecideTerminal \/ DecideLive \/ DecideAbsent \/ DecideTorn
    \/ Seal \/ Report

Next ==
    \/ \E c \in Conn :
          \/ Poll(c) \/ RequestTerminate(c) \/ RequestSaveAndQuit(c)
          \/ \E r \in Run : RequestStart(c, r) \/ RequestResume(c, r)
          \/ EffectStep(c)
    \/ \E r \in Run : RunStep(r) \/ Die(r) \/ ReapLauncher(r)
    \/ MonitorStep \/ GraceElapses

Spec == Init /\ [][Next]_vars

\* The monitor ticks for ever, the grace runs out between two ticks, effects
\* run, a launcher is waited for and a solver gets on with its frames.
Fairness ==
    /\ WF_vars(MonitorStep) /\ SF_vars(GraceElapses)
    /\ \A c \in Conn : WF_vars(EffectStep(c))
    /\ \A r \in Run : WF_vars(RunStep(r)) /\ WF_vars(ReapLauncher(r))

FairSpec == Spec /\ Fairness

-----------------------------------------------------------------------------
(* Properties                                                              *)

\* Every variable keeps its type.
TypeOK ==
    /\ state \in ServerState
    /\ conn \in [Conn -> Connection]
    /\ run \in [Run -> RunState]
    /\ slot \in Slot /\ record \in Record /\ lock \in {0} \cup Run
    /\ files \in Files /\ mon \in Monitor

\* A run under way, from the spawn of its launcher to its last frame.
Computing(r) == /\ run[r].launcher = "alive"
                /\ run[r].solver \in {"unborn", "booting", "up", "saving"}

\* FAILED says that the run is over: no run goes on behind it.  executor/
\* solver.rs:225 scrubs the record of the run before, which "must not be read
\* by the monitor before the fresh solver writes its own".
NoFalseCrash == state.solver = "Failed" => \A r \in Run : ~Computing(r)

\* What the disk says of a crash: the crash, or else, if the solver wrote its
\* last words after the monitor had read its record, those words.
Sealed(kind) ==
    /\ record.phase = "Ended"
    /\ \/ record.outcome = kind
       \/ kind = "abrupt" /\ record.outcome \in {"finished", "saved", "panic"}

\* A crash of a run that had a record is on disk before anyone hears of it: a
\* panic as that panic, a death without a word as one unless the solver had a
\* word after all, which seal_abrupt_crash lets stand.  Then a reconnect does
\* not read back "the SAME cause" (monitor.rs:540): FAILED is reported over a
\* record that says finished.
CrashIsSealed ==
    state.solver = "Failed" /\ state.crash_kind # "launch_failed"
        => Sealed(state.crash_kind)

\* The first terminal outcome of a run stays until the next run is started,
\* whether the solver or the monitor wrote it and whoever comes second.
OutcomeIsFinal ==
    [][record.phase = "Ended"
         => record' = record \/ record'.phase \in {"Absent", "Starting"}]_vars

\* A run under way that is reported as running or saving gets a verdict, with
\* two exceptions: it was asked to terminate (the request is on disk then, and
\* nobody is told of its end), or intersection_records.json cannot be read, and
\* every tick ends in that error before it reports.  A Save and Quit that finds
\* no run under way is not spoken of.
UnderWay(r) == /\ run[r].launcher \in {"requested", "alive"}
               /\ run[r].solver # "gone"
GetsVerdict ==
    Active(state.solver) /\ (\E r \in Run : UnderWay(r)) ~>
      ~Active(state.solver) \/ files.terminate_request \/ ~files.readable

\* monitor.rs:731: a run that "was intentionally stopped" must not "be
\* reclassified as a crash": what the server killed on request, and what wrote
\* no outcome of its own, never turns up as FAILED.
TerminatedIsNoCrash ==
    [][state.solver # "Failed" /\ state'.solver = "Failed"
         => state'.crash_kind = "panic" \/ \A r \in Run : ~run[r].signaled]_vars

\* state.rs:108: the crash tag is "cleared wherever error is cleared, so a stale
\* tag can never outlive the message it names": after any sequence of crashes,
\* starts and failed launches, the headline and the report are of one crash.
CrashTagIsCurrent ==
    state.crash_kind # "" => state.error = state.crash_kind

\* exit_watch: a status in the slot means that the launch it is armed for is
\* over, however many launchers of earlier runs exit meanwhile.
SlotIsHonest ==
    slot.exit => slot.launch # 0 /\ run[slot.launch].launcher = "gone"

\* The slot implements the promise of LaunchExits: no interleaving of launches,
\* waiters and adoptions shows one launch's exit as another's.
Exits == INSTANCE LaunchExits WITH
    Launches <- Run,
    armed <- slot.launch,
    shown <- IF slot.exit THEN slot.launch ELSE 0,
    over <- {r \in Run : run[r].launcher = "gone"}
ImplementsLaunchExits == Exits!Spec
=============================================================================
