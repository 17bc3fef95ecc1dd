------------------------- MODULE SolverMonitor_proof ------------------------
(***************************************************************************)
(* Theorems about SolverMonitor, for any connections, runs and frames.     *)
(*                                                                         *)
(* The exit slot is honest because no two waiters and no two launches ever *)
(* share a launch: a connection that launches holds a run of its own, not  *)
(* spawned yet (LaunchesAreOwned), and the slot is only ever armed for a   *)
(* run that was spawned (SlotIsSpawned).  MonitorKnowsKind is what the     *)
(* types need besides: the monitor has a cause when it seals or reports.   *)
(*                                                                         *)
(* The last part is about the first run of a project: that FAILED says it  *)
(* is over, what of its crash is on disk, and that its outcome is final.   *)
(***************************************************************************)
EXTENDS SolverMonitor, ServerTransitions_proof

\* A launch's effects hold a run of their own, whose launcher is not spawned.
LaunchesAreOwned ==
    \A c \in Conn :
        /\ conn[c].pc = "idle" => conn[c].run = 0
        /\ conn[c].pc = "spawn" => conn[c].run # 0
        /\ conn[c].run # 0 => run[conn[c].run].launcher = "requested"
        /\ \A d \in Conn :
              conn[c].run # 0 /\ conn[d].run = conn[c].run => d = c

SlotIsSpawned ==
    slot.launch # 0 => run[slot.launch].launcher \in {"alive", "gone"}

MonitorKnowsKind ==
    /\ mon.pc = "seal" => mon.kind = "abrupt"
    /\ mon.pc = "report" => mon.kind \in CrashKind

WellFormed == /\ TypeOK /\ LaunchesAreOwned /\ SlotIsSpawned
              /\ MonitorKnowsKind

-----------------------------------------------------------------------------
(* What the values written into the variables are made of.                 *)
LEMMA ValueTypes ==
    /\ 0 \in Frame /\ 0 \in Upload
    /\ IdleConnection \in Connection /\ UnusedRun \in RunState
    /\ FreeSlot \in Slot /\ NoRecord \in Record /\ TornRecord \in Record
    /\ IdleMonitor \in Monitor
<1>1. 0 \in Frame /\ 0 \in Upload
  BY TransitionsAssumption DEF Frame, Upload
<1>2. IdleConnection \in Connection /\ FreeSlot \in Slot
  BY DEF IdleConnection, Connection, Request, FreeSlot, Slot
<1>3. UnusedRun \in RunState
  BY <1>1 DEF UnusedRun, RunState
<1>4. NoRecord \in Record
  BY <1>1 DEF NoRecord, Record, RecordPhase
<1>5. TornRecord \in Record
  BY <1>4 DEF TornRecord, Record, RecordPhase
<1>6. IdleMonitor \in Monitor
  BY <1>4, DefaultStateType DEF IdleMonitor, Monitor, Grace
<1> QED
  BY <1>1, <1>2, <1>3, <1>4, <1>5, <1>6

(* Every request's refresh of its project keeps a state a state, and says  *)
(* nothing of the solver.                                                  *)
LEMMA RefreshedType ==
    ASSUME TypeOK
    PROVE  /\ Refreshed \in ServerState
           /\ Refreshed.solver = state.solver
           /\ Refreshed.crash_kind = state.crash_kind
           /\ Refreshed.error = state.error
<1>1. /\ state \in ServerState /\ files \in Files
      /\ files.checkpoint \in BOOLEAN
  BY DEF TypeOK, Files
<1> DEFINE total == IF state.total_frames > 0 THEN state.total_frames
                                              ELSE state.total_frames
           resumable == IF state.build = "Built" THEN files.checkpoint
                                                 ELSE state.resumable
<1>2. total \in Frame /\ resumable \in BOOLEAN
  BY <1>1 DEF ServerState
<1>3. Refreshed =
        [state EXCEPT !.root = state.name, !.data = "Uploaded",
                      !.upload_id = state.upload_id,
                      !.data_hash = state.data_hash,
                      !.param_hash = state.param_hash,
                      !.total_frames = total, !.resumable = resumable]
  BY <1>1 DEF Refreshed, RefreshProject, DataOf, ServerState
<1> HIDE DEF total, resumable
<1> QED
  BY <1>1, <1>2, <1>3 DEF ServerState

(* What the monitor derives from a record is a state.                      *)
LEMMA ReportTypes ==
    ASSUME TypeOK, NEW s \in ServerState, NEW seen \in ServerState,
           NEW rec \in Record
    PROVE  /\ Verdict(s, rec) \in ServerState
           /\ FrameOf(s, rec, seen) \in ServerState
<1>1. files.checkpoint \in BOOLEAN /\ rec.frame \in Frame
  BY DEF TypeOK, Files, Record
<1>2. (rec.outcome = "saved" \/ files.checkpoint) \in BOOLEAN
  OBVIOUS
<1>3. 0 \in Frame /\ 0 \in Upload
  BY ValueTypes
<1>4. CASE rec.outcome \in CrashKind
  BY <1>1, <1>3, <1>4, MonitorEventsType DEF Verdict, FrameOf
<1>5. CASE rec.outcome \notin CrashKind
  <2>1. SolverFinished(s, rec.outcome = "saved" \/ files.checkpoint) \in ServerState
    BY <1>2, <1>3, MonitorEventsType DEF CrashKind
  <2>2. SolverFrameUpdated(s, rec.frame) \in ServerState
    BY <1>1, <1>3, MonitorEventsType DEF CrashKind
  <2> QED
    BY <1>5, <2>1, <2>2 DEF Verdict, FrameOf
<1> QED
  BY <1>4, <1>5

(* So is what a tick observed before its verdict.                          *)
LEMMA ObservedType == ASSUME TypeOK PROVE Observed \in ServerState
<1>1. /\ state \in ServerState /\ mon.rec \in Record
      /\ mon.seen \in ServerState
  BY DEF TypeOK, Monitor
<1>2. FrameOf(state, mon.rec, mon.seen) \in ServerState
  BY <1>1, ReportTypes
<1>3. SolverInitialized(FrameOf(state, mon.rec, mon.seen)) \in ServerState
  BY <1>2, ValueTypes, MonitorEventsType DEF CrashKind
<1> QED
  BY <1>2, <1>3 DEF Observed

(* The early returns of a tick keep the monitor's context well-typed.      *)
LEMMA EdgeType ==
    ASSUME NEW m \in Monitor, NEW s \in ServerState
    PROVE  Edge(m, s) \in Monitor /\ PostOrEdge(m, s) \in Monitor
<1>1. Edge(m, s) \in Monitor
  <2>1. s.solver \in {"Idle", "Running", "Saving", "Failed"}
    BY DEF ServerState
  <2>2. [IdleMonitor EXCEPT !.last = s.solver] \in Monitor
    BY <2>1, ValueTypes DEF Monitor
  <2>3. \A g \in Grace :
          [m EXCEPT !.pc = "read", !.seen = s, !.last = s.solver,
                    !.started = g] \in Monitor
    BY <2>1 DEF Monitor
  <2>4. m.started \in Grace /\ "fresh" \in Grace
    BY DEF Monitor, Grace
  <2> DEFINE g == IF m.last = "Idle" THEN "fresh" ELSE m.started
  <2>5. g \in Grace
    BY <2>4
  <2>6. Edge(m, s) = IF ~Active(s.solver) THEN [IdleMonitor EXCEPT !.last = s.solver]
                     ELSE [m EXCEPT !.pc = "read", !.seen = s, !.last = s.solver,
                                    !.started = g]
    BY DEF Edge
  <2> HIDE DEF g
  <2> QED
    BY <2>2, <2>3, <2>5, <2>6
<1>2. [m EXCEPT !.pc = "post", !.seen = s] \in Monitor
  BY DEF Monitor
<1> QED
  BY <1>1, <1>2 DEF PostOrEdge

(* An update of one run that says nothing of the others.                   *)
LEMMA RunTypes ==
    ASSUME TypeOK, NEW r \in Run
    PROVE  /\ run[r] \in RunState
           /\ \A p \in {"unborn", "booting", "up", "saving", "closing", "gone"} :
                 [run EXCEPT ![r].solver = p] \in [Run -> RunState]
           /\ \A p \in {"unused", "requested", "alive", "gone"} :
                 [run EXCEPT ![r].launcher = p] \in [Run -> RunState]
<1>1. run[r] \in RunState /\ run \in [Run -> RunState]
  BY DEF TypeOK
<1>2. ASSUME NEW p \in {"unborn", "booting", "up", "saving", "closing", "gone"}
      PROVE  [run EXCEPT ![r].solver = p] \in [Run -> RunState]
  BY <1>1 DEF RunState
<1>3. ASSUME NEW p \in {"unused", "requested", "alive", "gone"}
      PROVE  [run EXCEPT ![r].launcher = p] \in [Run -> RunState]
  BY <1>1 DEF RunState
<1> QED
  BY <1>1, <1>2, <1>3

(* The first terminal record wins, and a run ends with one.                *)
LEMMA TerminalType ==
    ASSUME TypeOK, NEW rec \in Record, WriteTerminal(rec)
    PROVE  record' \in Record
BY DEF TypeOK, WriteTerminal

LEMMA EndType ==
    ASSUME TypeOK, NEW r \in Run,
           NEW outcome \in {"finished", "saved", "panic", "abrupt"},
           End(r, outcome)
    PROVE  run' \in [Run -> RunState] /\ record' \in Record
<1>1. run[r].frame \in Frame
  BY RunTypes DEF RunState
<1>2. [phase |-> "Ended", run |-> r, frame |-> run[r].frame,
       outcome |-> outcome] \in Record
  BY <1>1 DEF Record, RecordPhase
<1> QED
  BY <1>2, RunTypes, TerminalType DEF End

(* Requests and their effects keep the types.                              *)
LEMMA ConnTypeStep ==
    ASSUME WellFormed, NEW c \in Conn,
           \/ Poll(c) \/ RequestTerminate(c) \/ RequestSaveAndQuit(c)
           \/ \E r \in Run : RequestStart(c, r) \/ RequestResume(c, r)
           \/ EffectStep(c)
    PROVE  TypeOK'
<1>0. /\ TypeOK /\ LaunchesAreOwned
      /\ conn[c] \in Connection /\ conn \in [Conn -> Connection]
  BY DEF WellFormed, TypeOK
<1>1. ASSUME NEW r \in Run, NEW req \in {"start", "resume"}, NEW load \in BOOLEAN,
             EmitLaunch(c, r, req, load), state' \in ServerState
      PROVE  TypeOK'
  <2>1. run' \in [Run -> RunState]
    <3>1. [run[r] EXCEPT !.launcher = "requested", !.load = load] \in RunState
      BY ZenonT(40), <1>0, RunTypes DEF RunState
    <3>2. run' = [run EXCEPT ![r] = [run[r] EXCEPT !.launcher = "requested",
                                                   !.load = load]]
      BY <1>0, <1>1 DEF EmitLaunch, TypeOK, RunState
    <3> QED
      BY <1>0, <3>1, <3>2 DEF TypeOK
  <2>2. conn' \in [Conn -> Connection]
    BY <1>0, <1>1 DEF EmitLaunch, Connection, Request
  <2> QED
    BY <1>0, <1>1, <2>1, <2>2 DEF EmitLaunch, TypeOK, disk
<1>2. CASE Poll(c)
  BY <1>0, <1>2, RefreshedType DEF Poll, TypeOK, disk
<1>3. ASSUME NEW r \in Run, RequestStart(c, r) PROVE TypeOK'
  BY <1>0, <1>1, <1>3, RefreshedType, SolverRequestsType DEF RequestStart
<1>4. ASSUME NEW r \in Run, RequestResume(c, r) PROVE TypeOK'
  BY <1>0, <1>1, <1>4, RefreshedType, SolverRequestsType DEF RequestResume
<1>5. CASE RequestTerminate(c)
  <2>1. [conn[c] EXCEPT !.pc = "mark", !.req = "terminate"] \in Connection
    BY <1>0 DEF Connection, Request
  <2>2. conn' \in [Conn -> Connection]
    BY <1>0, <1>5, <2>1 DEF RequestTerminate, Connection, Request
  <2> QED
    BY <1>0, <1>5, <2>2, RefreshedType, SolverRequestsType
       DEF RequestTerminate, TypeOK, disk
<1>6. CASE RequestSaveAndQuit(c)
  <2>1. conn' \in [Conn -> Connection]
    BY <1>0, <1>6 DEF RequestSaveAndQuit, Connection, Request
  <2> QED
    BY <1>0, <1>6, <2>1, RefreshedType, SolverRequestsType
       DEF RequestSaveAndQuit, TypeOK, disk
<1>7. CASE Scrub(c)
  BY <1>0, <1>7, ValueTypes DEF Scrub, TypeOK, Connection, Files
<1>8. CASE KillSolvers(c)
  <2>1. \A r \in Run : run[r] \in RunState
                       /\ [run[r] EXCEPT !.signaled = TRUE] \in RunState
    BY ZenonT(40), <1>0, RunTypes DEF RunState
  <2>2. run' \in [Run -> RunState]
    BY <1>8, <2>1, Zenon DEF KillSolvers
  <2>3. conn' \in [Conn -> Connection]
    BY <1>0, <1>8, ValueTypes DEF KillSolvers, Connection
  <2> QED
    BY <1>0, <1>8, <2>2, <2>3 DEF KillSolvers, TypeOK, disk
<1>9. CASE Spawn(c)
  <2>1. conn[c].run \in Run
    BY <1>0, <1>9 DEF Spawn, LaunchesAreOwned, Connection
  <2>2. run' \in [Run -> RunState]
    BY <1>0, <1>9, <2>1, RunTypes DEF Spawn
  <2> QED
    BY <1>0, <1>9, <2>1, <2>2, ValueTypes DEF Spawn, TypeOK, Slot, disk
<1>10. CASE SpawnFails(c)
  <2>1. conn[c].run \in Run
    BY <1>0, <1>10 DEF SpawnFails, LaunchesAreOwned, Connection
  <2>2. [run[conn[c].run] EXCEPT !.launcher = "gone", !.solver = "gone"] \in RunState
    BY ZenonT(40), <1>0, <2>1, RunTypes DEF RunState
  <2>3. run' = [run EXCEPT ![conn[c].run] =
                  [run[conn[c].run] EXCEPT !.launcher = "gone", !.solver = "gone"]]
    BY <1>0, <1>10, <2>1 DEF SpawnFails, TypeOK, RunState
  <2>4. run' \in [Run -> RunState]
    BY <1>0, <2>1, <2>2, <2>3 DEF TypeOK
  <2> QED
    BY <1>0, <1>10, <2>4, ValueTypes, DeleteAndErrorType
       DEF SpawnFails, TypeOK, disk
<1>11. CASE MarkTerminate(c)
  BY <1>0, <1>11 DEF MarkTerminate, TypeOK, Connection, Files
<1>12. CASE TouchSaveAndQuit(c)
  BY <1>0, <1>12, ValueTypes DEF TouchSaveAndQuit, TypeOK, Files
<1> QED
  BY <1>2, <1>3, <1>4, <1>5, <1>6, <1>7, <1>8, <1>9, <1>10, <1>11, <1>12
     DEF EffectStep

(* A run keeps the types: its processes, its record and the slot.          *)
LEMMA RunTypeStep ==
    ASSUME TypeOK, NEW r \in Run, RunStep(r) \/ Die(r) \/ ReapLauncher(r)
    PROVE  TypeOK'
<1>0. /\ run[r] \in RunState /\ run[r].frame \in Frame /\ files \in Files
      /\ run \in [Run -> RunState]
  BY DEF TypeOK, RunState
<1>1. ASSUME NEW b \in BOOLEAN
      PROVE  [files EXCEPT !.checkpoint = @ \/ b] \in Files
  <2>1. (files.checkpoint \/ b) \in BOOLEAN
    OBVIOUS
  <2>2. \A x \in BOOLEAN : [files EXCEPT !.checkpoint = x] \in Files
    BY <1>0 DEF Files
  <2> QED
    BY <2>1, <2>2, Zenon
<1>2. ASSUME NEW phase \in RecordPhase, NEW frame \in Frame
      PROVE  Progress(r, phase, frame) \in Record
  BY DEF Progress, Record
<1>3. Unlocked(r) => lock' \in {0} \cup Run
  BY DEF Unlocked, TypeOK
<1>4. CASE Exec(r) \/ BootFails(r)
  <2>1. run' \in [Run -> RunState]
    <3>1. CASE Exec(r)
      BY <3>1, RunTypes DEF Exec
    <3>2. CASE BootFails(r)
      BY <3>2, RunTypes DEF BootFails
    <3> QED
      BY <1>4, <3>1, <3>2
  <2>2. UNCHANGED <<state, conn, slot, disk, mon>>
    BY <1>4 DEF Exec, BootFails
  <2> QED
    BY <2>1, <2>2 DEF TypeOK, disk
<1>5. CASE InitSolver(r)
  <2>1. record' \in Record /\ run' \in [Run -> RunState] /\ lock' \in {0} \cup Run
    BY <1>2, <1>5, ValueTypes, RunTypes DEF InitSolver, TypeOK, RecordPhase
  <2>2. files' \in Files
    <3>1. /\ run[r].load \in BOOLEAN
          /\ (files.readable \/ ~run[r].load) \in BOOLEAN
      BY <1>0 DEF RunState
    <3>2. \A l, b \in BOOLEAN :
             [files EXCEPT !.terminate_request = FALSE, !.checkpoint = l,
                           !.readable = b] \in Files
      BY <1>0 DEF Files
    <3>3. files' = [files EXCEPT !.terminate_request = FALSE,
                                 !.checkpoint = run[r].load,
                                 !.readable = files.readable \/ ~run[r].load]
      BY <1>0, <1>5 DEF InitSolver, Files
    <3> QED
      BY <3>1, <3>2, <3>3, Zenon
  <2> QED
    BY <1>5, <2>1, <2>2 DEF InitSolver, TypeOK
<1>6. CASE Advance(r)
  <2>1. run[r].frame + 1 \in Frame
    BY <1>0, <1>6, TransitionsAssumption DEF Advance, Frame
  <2>2. record' \in Record
    BY <1>2, <1>6, <2>1 DEF Advance, RecordPhase
  <2>3. run' \in [Run -> RunState]
    BY <1>0, <1>6, <2>1 DEF Advance, RunState
  <2>4. files' \in Files
    BY <1>1, <1>6, Zenon DEF Advance
  <2> QED
    BY <1>6, <2>2, <2>3, <2>4 DEF Advance, TypeOK
<1>7. CASE BeginSave(r)
  BY <1>0, <1>2, <1>7, RunTypes DEF BeginSave, TypeOK, RecordPhase
<1>8. CASE EndSave(r)
  BY <1>0, <1>8, EndType DEF EndSave, TypeOK, Files
<1>9. CASE Finish(r)
  <2>1. files' \in Files
    BY <1>1, <1>9, Zenon DEF Finish
  <2> QED
    BY <1>9, <2>1, EndType DEF Finish, TypeOK
<1>10. CASE Panic(r)
  BY <1>10, EndType DEF Panic, TypeOK
<1>14. CASE AdvanceFails(r)
  <2>1. files' \in Files
    BY <1>0, <1>14 DEF AdvanceFails, Files
  <2>2. run' \in [Run -> RunState] /\ record' \in Record
    BY <1>14, EndType DEF AdvanceFails
  <2> QED
    BY <1>14, <2>1, <2>2 DEF AdvanceFails, TypeOK
<1>11. CASE Exit(r)
  BY <1>3, <1>11, RunTypes DEF Exit, TypeOK
<1>12. CASE Die(r) \/ DieOfSignal(r)
  <2>1. Die(r)
    BY <1>12 DEF DieOfSignal
  <2>2. run' \in [Run -> RunState] /\ lock' \in {0} \cup Run
    BY <1>3, <2>1, RunTypes DEF Die
  <2>3. record' \in Record
    BY <2>1, ValueTypes DEF Die, TypeOK
  <2>4. UNCHANGED <<state, conn, slot, files, mon>>
    BY <2>1 DEF Die
  <2> QED
    BY <2>2, <2>3, <2>4 DEF TypeOK
<1>13. CASE ReapLauncher(r)
  <2>1. run' \in [Run -> RunState]
    BY <1>13, RunTypes DEF ReapLauncher
  <2>2. slot \in Slot /\ [slot EXCEPT !.exit = TRUE] \in Slot /\ FreeSlot \in Slot
    BY ValueTypes DEF TypeOK, Slot
  <2>3. slot' \in Slot
    BY <1>13, <2>2 DEF ReapLauncher
  <2>4. UNCHANGED <<state, conn, disk, mon>>
    BY <1>13 DEF ReapLauncher
  <2> QED
    BY <2>1, <2>3, <2>4 DEF TypeOK, disk
<1> QED
  BY <1>4, <1>5, <1>6, <1>7, <1>8, <1>9, <1>10, <1>11, <1>12, <1>13, <1>14
     DEF RunStep

(* A tick keeps the types, of a monitor that knows the cause it reports.   *)
LEMMA MonitorTypeStep ==
    ASSUME WellFormed, MonitorStep \/ GraceElapses
    PROVE  TypeOK'
<1>0. /\ TypeOK /\ MonitorKnowsKind /\ mon \in Monitor /\ state \in ServerState
      /\ record \in Record /\ mon.rec \in Record /\ mon.seen \in ServerState
      /\ files.checkpoint \in BOOLEAN /\ 0 \in Frame /\ 0 \in Upload
  BY ValueTypes DEF WellFormed, TypeOK, Monitor, Files
<1>1. EndTick => mon' \in Monitor
  BY <1>0, ValueTypes DEF EndTick, Monitor
<1>2. Settled => mon' \in Monitor
  BY ValueTypes DEF Settled
<1>3. \A b \in BOOLEAN, s \in ServerState :
          SolverFinished(s, b) \in ServerState /\ SolverSaving(s) \in ServerState
  BY <1>0, MonitorEventsType DEF CrashKind
<1>4. CASE Snapshot
  BY <1>0, <1>4, EdgeType DEF Snapshot, TypeOK, Monitor, disk
<1>5. CASE Scan
  BY <1>0, <1>5, EdgeType DEF Scan, TypeOK, Monitor, disk
<1>6. CASE Disarm
  BY <1>0, <1>6, ValueTypes DEF Disarm, TypeOK, Monitor, disk
<1>7. CASE Adopt
  <2>1. state' \in ServerState
    BY <1>0, <1>7, MonitorEventsType DEF Adopt, CrashKind
  <2>2. [mon EXCEPT !.started = "elapsed", !.last = state'.solver] \in Monitor
    BY <1>0, <2>1 DEF Monitor, Grace, ServerState
  <2>3. mon' \in Monitor
    BY <1>7, <2>1, <2>2, EdgeType DEF Adopt
  <2> QED
    BY <1>0, <1>7, <2>1, <2>3 DEF Adopt, TypeOK, disk
<1>8. CASE Post
  BY <1>0, <1>8, EdgeType DEF Post, TypeOK, Monitor, disk
<1>9. CASE PostReport
  <2>1. state' \in ServerState
    BY <1>0, <1>9, ReportTypes DEF PostReport
  <2>2. [mon EXCEPT !.last = state'.solver, !.kind = "", !.rec = NoRecord] \in Monitor
    BY <1>0, <2>1, ValueTypes DEF Monitor, ServerState
  <2>3. mon' \in Monitor
    BY <1>1, <1>9, <2>1, <2>2, EdgeType DEF PostReport
  <2> QED
    BY <1>0, <1>9, <2>1, <2>3 DEF PostReport, TypeOK, disk
<1>10. CASE Read
  BY <1>0, <1>10 DEF Read, TypeOK, Monitor, disk
<1>11. CASE DecideTerminal
  <2>1. state' \in ServerState
    BY <1>0, <1>11, ObservedType, ReportTypes DEF DecideTerminal
  <2>2. mon' \in Monitor
    BY <1>1, <1>2, <1>11 DEF DecideTerminal
  <2> QED
    BY <1>0, <1>11, <2>1, <2>2 DEF DecideTerminal, TypeOK, disk
<1>12. CASE DecideLive
  <2>1. state' \in ServerState
    BY <1>0, <1>3, <1>12, ObservedType DEF DecideLive
  <2>2. [mon EXCEPT !.pc = "seal", !.kind = "abrupt"] \in Monitor
    BY <1>0 DEF Monitor, CrashKind
  <2>3. mon' \in Monitor
    BY <1>1, <1>2, <1>12, <2>2 DEF DecideLive
  <2> QED
    BY <1>0, <1>12, <2>1, <2>3 DEF DecideLive, TypeOK, disk
<1>13. CASE DecideAbsent
  BY <1>0, <1>1, <1>13 DEF DecideAbsent, TypeOK, Monitor, CrashKind, disk
<1>14. CASE DecideTorn
  <2>1. state' \in ServerState
    BY <1>0, <1>3, <1>14 DEF DecideTorn
  <2>2. [mon EXCEPT !.pc = "seal", !.kind = "abrupt"] \in Monitor
    BY <1>0 DEF Monitor, CrashKind
  <2>3. mon' \in Monitor
    BY <1>1, <1>2, <1>14, <2>2 DEF DecideTorn
  <2> QED
    BY <1>0, <1>14, <2>1, <2>3 DEF DecideTorn, TypeOK, disk
<1>15. CASE Seal
  <2>1. [mon.rec EXCEPT !.phase = "Ended", !.outcome = mon.kind] \in Record
    BY <1>0, <1>15 DEF Seal, MonitorKnowsKind, Record, RecordPhase
  <2>2. record' \in Record
    BY <1>0, <1>15, <2>1, TerminalType DEF Seal
  <2> QED
    BY <1>0, <1>15, <2>2 DEF Seal, TypeOK, Monitor
<1>16. CASE Report
  <2>1. state' \in ServerState
    BY <1>0, <1>16, MonitorEventsType DEF Report, MonitorKnowsKind
  <2>2. mon' \in Monitor
    BY <1>1, <1>2, <1>16 DEF Report
  <2> QED
    BY <1>0, <1>16, <2>1, <2>2 DEF Report, TypeOK, disk
<1>17. CASE GraceElapses
  BY <1>0, <1>17 DEF GraceElapses, TypeOK, Monitor, Grace, disk
<1> QED
  BY <1>4, <1>5, <1>6, <1>7, <1>8, <1>9, <1>10, <1>11, <1>12, <1>13, <1>14,
     <1>15, <1>16, <1>17 DEF MonitorStep

(* Every step keeps the types.                                             *)
LEMMA TypeStep == ASSUME WellFormed, [Next]_vars PROVE TypeOK'
<1>1. TypeOK
  BY DEF WellFormed
<1>2. CASE UNCHANGED vars
  BY <1>1, <1>2 DEF TypeOK, vars
<1> QED
  BY <1>1, <1>2, ConnTypeStep, RunTypeStep, MonitorTypeStep DEF Next

(* Which steps move the launcher of a run, the slot or a launch under way: *)
(* the requests and effects of a launch, the waiter and the monitor's      *)
(* adoption.  All the others leave the three alone.                        *)
LEMMA LaunchFrame ==
    ASSUME TypeOK,
           \/ \E c \in Conn : Poll(c) \/ Scrub(c) \/ MarkTerminate(c)
                              \/ TouchSaveAndQuit(c) \/ KillSolvers(c)
                              \/ RequestTerminate(c) \/ RequestSaveAndQuit(c)
           \/ \E r \in Run : RunStep(r) \/ Die(r)
           \/ MonitorStep /\ ~Disarm
           \/ GraceElapses
           \/ UNCHANGED vars
    PROVE  /\ slot' = slot
           /\ \A r \in Run : run'[r].launcher = run[r].launcher
<1>0. run \in [Run -> RunState]
  BY DEF TypeOK
<1>1. ASSUME NEW r \in Run, NEW p
      PROVE  \A q \in Run :
                [run EXCEPT ![r].solver = p][q].launcher = run[q].launcher
  BY <1>0 DEF RunState
<1>2. ASSUME NEW c \in Conn,
             \/ Poll(c) \/ Scrub(c) \/ MarkTerminate(c) \/ TouchSaveAndQuit(c)
             \/ RequestTerminate(c) \/ RequestSaveAndQuit(c)
      PROVE  slot' = slot /\ run' = run
  BY <1>2 DEF Poll, Scrub, MarkTerminate, TouchSaveAndQuit, RequestTerminate,
              RequestSaveAndQuit
<1>3. ASSUME NEW c \in Conn, KillSolvers(c)
      PROVE  slot' = slot /\ \A r \in Run : run'[r].launcher = run[r].launcher
  <2>1. \A r \in Run : [run[r] EXCEPT !.signaled = TRUE].launcher = run[r].launcher
    BY <1>0 DEF RunState
  <2> QED
    BY <1>3, <2>1 DEF KillSolvers
<1>4. ASSUME NEW r \in Run, RunStep(r) \/ Die(r)
      PROVE  slot' = slot /\ \A q \in Run : run'[q].launcher = run[q].launcher
  <2>1. CASE Exec(r)
    BY <1>1, <2>1 DEF Exec
  <2>2. CASE BootFails(r)
    BY <1>1, <2>2 DEF BootFails
  <2>3. CASE InitSolver(r)
    BY <1>1, <2>3 DEF InitSolver
  <2>4. CASE Advance(r)
    BY <1>0, <2>4 DEF Advance, RunState
  <2>5. CASE BeginSave(r)
    BY <1>1, <2>5 DEF BeginSave
  <2>6. CASE EndSave(r)
    BY <1>1, <2>6 DEF EndSave, End
  <2>7. CASE Finish(r)
    BY <1>1, <2>7 DEF Finish, End
  <2>8. CASE Panic(r)
    BY <1>1, <2>8 DEF Panic, End
  <2>11. CASE AdvanceFails(r)
    BY <1>1, <2>11 DEF AdvanceFails, End
  <2>9. CASE Exit(r)
    BY <1>1, <2>9 DEF Exit
  <2>10. CASE Die(r) \/ DieOfSignal(r)
    <3>1. Die(r)
      BY <2>10 DEF DieOfSignal
    <3> QED
      BY <1>1, <3>1 DEF Die
  <2> QED
    BY <1>4, <2>1, <2>2, <2>3, <2>4, <2>5, <2>6, <2>7, <2>8, <2>9, <2>10, <2>11
       DEF RunStep
<1>5. (MonitorStep /\ ~Disarm) \/ GraceElapses \/ UNCHANGED vars
         => slot' = slot /\ run' = run
  BY DEF MonitorStep, Snapshot, Scan, Adopt, Post, PostReport, Read,
         DecideTerminal, DecideLive, DecideAbsent, DecideTorn, Seal, Report,
         GraceElapses, vars
<1> QED
  BY <1>2, <1>3, <1>4, <1>5

(* A launch under way keeps a run of its own until it is spawned.          *)
LEMMA OwnedStep == ASSUME WellFormed, [Next]_vars PROVE LaunchesAreOwned'
<1>0. TypeOK /\ LaunchesAreOwned /\ conn \in [Conn -> Connection]
      /\ run \in [Run -> RunState]
  BY DEF WellFormed, TypeOK
<1>1. ASSUME NEW c \in Conn, NEW r \in Run, RequestStart(c, r) \/ RequestResume(c, r)
      PROVE  LaunchesAreOwned'
  <2>1. PICK req \in Request, load \in BOOLEAN : EmitLaunch(c, r, req, load)
    BY <1>1 DEF RequestStart, RequestResume, Request
  <2>2. run[r].launcher = "unused"
    BY <2>1 DEF EmitLaunch, IsNext
  <2>3. \A d \in Conn : conn[d].run # r
    <3>1. r # 0
      BY MonitorAssumption DEF Run
    <3> QED
      BY <1>0, <2>2, <3>1 DEF LaunchesAreOwned
  <2>4. /\ conn'[c] = [pc |-> "scrub", req |-> req, run |-> r]
        /\ \A d \in Conn : d # c => conn'[d] = conn[d]
    BY <1>0, <2>1 DEF EmitLaunch
  <2>5. /\ run'[r].launcher = "requested"
        /\ \A q \in Run : q # r => run'[q] = run[q]
    BY <1>0, <2>1 DEF EmitLaunch, RunState
  <2>6. \A d \in Conn : conn[d].run \in {0} \cup Run
    BY <1>0 DEF Connection
  <2>7. \A d \in Conn : d # c => conn'[d].run # r
    BY <2>3, <2>4
  <2> QED
    BY <1>0, <2>4, <2>5, <2>6, <2>7 DEF LaunchesAreOwned
<1>2. ASSUME NEW c \in Conn, Spawn(c) \/ SpawnFails(c) PROVE LaunchesAreOwned'
  <2>1. conn[c].run # 0 /\ conn[c].run \in Run
    BY <1>0, <1>2 DEF Spawn, SpawnFails, LaunchesAreOwned, Connection
  <2>2. /\ conn'[c] = IdleConnection
        /\ \A d \in Conn : d # c => conn'[d] = conn[d]
    BY <1>0, <1>2 DEF Spawn, SpawnFails
  <2>3. \A d \in Conn : d # c => conn[d].run # conn[c].run
    BY <1>0, <2>1 DEF LaunchesAreOwned
  <2>4. \A q \in Run : q # conn[c].run => run'[q] = run[q]
    BY <1>0, <1>2 DEF Spawn, SpawnFails
  <2>5. \A d \in Conn : conn[d].run \in {0} \cup Run
    BY <1>0 DEF Connection
  <2>6. IdleConnection.run = 0 /\ IdleConnection.pc = "idle"
    BY DEF IdleConnection
  <2> QED
    BY <1>0, <2>2, <2>3, <2>4, <2>5, <2>6 DEF LaunchesAreOwned
<1>3. ASSUME NEW c \in Conn,
             \/ Scrub(c) \/ MarkTerminate(c) \/ KillSolvers(c)
             \/ TouchSaveAndQuit(c) \/ RequestTerminate(c) \/ RequestSaveAndQuit(c)
      PROVE  LaunchesAreOwned'
  <2>1. \A r \in Run : run'[r].launcher = run[r].launcher
    BY <1>0, <1>3, LaunchFrame
  <2>2. \A d \in Conn : conn[d] \in Connection
    BY <1>0
  <2>3. \A d \in Conn : d # c => conn'[d] = conn[d]
    BY <1>0, <1>3 DEF Scrub, MarkTerminate, KillSolvers, TouchSaveAndQuit,
                      RequestTerminate, RequestSaveAndQuit
  <2>4. \/ /\ conn'[c].pc \in {"kill", "mark", "touch"}
           /\ conn'[c].run = conn[c].run
        \/ /\ conn'[c].pc = "spawn" /\ conn[c].run # 0
           /\ conn'[c].run = conn[c].run
        \/ conn'[c].pc = "idle" /\ conn'[c].run = 0
    <3>1. CASE Scrub(c) \/ MarkTerminate(c)
      BY <1>0, <3>1 DEF Scrub, MarkTerminate, Connection
    <3>2. CASE KillSolvers(c) \/ TouchSaveAndQuit(c)
      BY <1>0, <3>2 DEF KillSolvers, TouchSaveAndQuit, Connection, IdleConnection
    <3>3. CASE RequestTerminate(c)
      BY <1>0, <3>3 DEF RequestTerminate, Connection
    <3>4. CASE RequestSaveAndQuit(c)
      BY <1>0, <3>4 DEF RequestSaveAndQuit, Connection
    <3> QED
      BY <1>3, <3>1, <3>2, <3>3, <3>4
  <2> QED
    BY <1>0, <2>1, <2>2, <2>3, <2>4 DEF LaunchesAreOwned, Connection
<1>4. ASSUME NEW r \in Run, ReapLauncher(r) PROVE LaunchesAreOwned'
  <2>1. /\ conn' = conn
        /\ \A q \in Run : run[q].launcher = "requested" => run'[q] = run[q]
    BY <1>0, <1>4 DEF ReapLauncher
  <2>2. \A d \in Conn : conn[d].run \in {0} \cup Run
    BY <1>0 DEF Connection
  <2> QED
    BY <1>0, <2>1, <2>2 DEF LaunchesAreOwned
<1>5. ASSUME conn' = conn, \A r \in Run : run'[r].launcher = run[r].launcher
      PROVE  LaunchesAreOwned'
  <2>1. \A d \in Conn : conn[d].run \in {0} \cup Run
    BY <1>0 DEF Connection
  <2> QED
    BY <1>0, <1>5, <2>1 DEF LaunchesAreOwned
<1>6. ASSUME NEW c \in Conn, Poll(c) PROVE LaunchesAreOwned'
  BY <1>5, <1>6 DEF Poll
<1>7. ASSUME NEW r \in Run, RunStep(r) \/ Die(r) PROVE LaunchesAreOwned'
  <2>1. conn' = conn
    BY <1>7 DEF RunStep, Exec, BootFails, InitSolver, Advance, BeginSave, EndSave,
                Finish, Panic, AdvanceFails, Exit, DieOfSignal, Die
  <2> QED
    BY <1>0, <1>5, <1>7, <2>1, LaunchFrame
<1>8. CASE MonitorStep \/ GraceElapses \/ UNCHANGED vars
  <2>1. conn' = conn /\ run' = run
    BY <1>8 DEF MonitorStep, Snapshot, Scan, Disarm, Adopt, Post, PostReport, Read,
                DecideTerminal, DecideLive, DecideAbsent, DecideTorn, Seal, Report,
                GraceElapses, vars
  <2> QED
    BY <1>5, <2>1
<1> QED
  BY <1>1, <1>2, <1>3, <1>4, <1>6, <1>7, <1>8 DEF Next, EffectStep

(* The slot: what each step makes of the launch it is armed for, and of    *)
(* the status it shows.                                                    *)
LEMMA SlotStep ==
    ASSUME WellFormed, SlotIsHonest, [Next]_vars
    PROVE  SlotIsSpawned' /\ SlotIsHonest'
<1>0. /\ TypeOK /\ LaunchesAreOwned /\ SlotIsSpawned /\ SlotIsHonest
      /\ run \in [Run -> RunState] /\ slot \in Slot
      /\ slot.launch \in {0} \cup Run
  BY DEF WellFormed, TypeOK, Slot
<1>1. FreeSlot.launch = 0 /\ FreeSlot.exit = FALSE
  BY DEF FreeSlot
<1>2. ASSUME NEW c \in Conn, NEW r \in Run, RequestStart(c, r) \/ RequestResume(c, r)
      PROVE  SlotIsSpawned' /\ SlotIsHonest'
  <2>1. slot' = slot /\ run[r].launcher = "unused"
    BY <1>2 DEF RequestStart, RequestResume, EmitLaunch, IsNext
  <2>2. \A q \in Run : q # r => run'[q] = run[q]
    BY <1>0, <1>2 DEF RequestStart, RequestResume, EmitLaunch
  <2> QED
    BY <1>0, <2>1, <2>2 DEF SlotIsSpawned, SlotIsHonest
<1>3. ASSUME NEW c \in Conn, Spawn(c) PROVE SlotIsSpawned' /\ SlotIsHonest'
  <2>1. conn[c].run \in Run
    BY <1>0, <1>3 DEF TypeOK, LaunchesAreOwned, Spawn, Connection
  <2>2. /\ slot'.launch = conn[c].run /\ slot'.exit = FALSE
        /\ run'[conn[c].run].launcher = "alive"
    BY <1>0, <1>3, <2>1 DEF Spawn, RunState
  <2> QED
    BY <2>2 DEF SlotIsSpawned, SlotIsHonest
<1>4. ASSUME NEW c \in Conn, SpawnFails(c) PROVE SlotIsSpawned' /\ SlotIsHonest'
  <2>1. conn[c].run \in Run
    BY <1>0, <1>4 DEF TypeOK, LaunchesAreOwned, SpawnFails, Connection
  <2>2. /\ slot' \in {slot, FreeSlot}
        /\ run'[conn[c].run].launcher = "gone"
        /\ \A q \in Run : q # conn[c].run => run'[q] = run[q]
    BY <1>0, <1>4, <2>1 DEF SpawnFails, RunState
  <2>3. CASE slot' = slot
    BY <1>0, <2>2, <2>3 DEF SlotIsSpawned, SlotIsHonest
  <2>4. CASE slot' = FreeSlot
    BY <1>1, <2>4 DEF SlotIsSpawned, SlotIsHonest
  <2> QED
    BY <2>2, <2>3, <2>4
<1>5. ASSUME NEW r \in Run, ReapLauncher(r) PROVE SlotIsSpawned' /\ SlotIsHonest'
  <2>1. /\ run[r].launcher = "alive" /\ run'[r].launcher = "gone"
        /\ \A q \in Run : q # r => run'[q] = run[q]
    BY <1>0, <1>5 DEF ReapLauncher, RunState
  <2>2. \/ slot.launch = r /\ slot'.launch = r
        \/ slot' = FreeSlot
        \/ slot.launch # r /\ slot' = slot
    BY <1>0, <1>5 DEF ReapLauncher, Slot
  <2>3. CASE slot' = slot \/ slot'.launch = r
    BY <1>0, <2>1, <2>3, MonitorAssumption DEF SlotIsSpawned, SlotIsHonest, Run
  <2>4. CASE slot' = FreeSlot
    BY <1>1, <2>4 DEF SlotIsSpawned, SlotIsHonest
  <2> QED
    BY <2>2, <2>3, <2>4
<1>6. CASE Disarm
  BY <1>1, <1>6 DEF Disarm, SlotIsSpawned, SlotIsHonest
<1>7. ASSUME slot' = slot, \A r \in Run : run'[r].launcher = run[r].launcher
      PROVE  SlotIsSpawned' /\ SlotIsHonest'
  BY <1>0, <1>7 DEF SlotIsSpawned, SlotIsHonest
<1> QED
  BY <1>0, <1>2, <1>3, <1>4, <1>5, <1>6, <1>7, LaunchFrame DEF Next, EffectStep

(* The monitor names a cause before it seals or reports.                   *)
LEMMA KindStep == ASSUME WellFormed, [Next]_vars PROVE MonitorKnowsKind'
<1>0. /\ TypeOK /\ MonitorKnowsKind /\ mon \in Monitor
  BY DEF WellFormed, TypeOK
<1>1. \A m \in Monitor, s \in ServerState :
          PostOrEdge(m, s).pc \in {"tick", "read", "post"}
          /\ Edge(m, s).pc \in {"tick", "read"}
  <2> SUFFICES ASSUME NEW m \in Monitor, NEW s \in ServerState
               PROVE  /\ PostOrEdge(m, s).pc \in {"tick", "read", "post"}
                      /\ Edge(m, s).pc \in {"tick", "read"}
    OBVIOUS
  <2>1. [IdleMonitor EXCEPT !.last = s.solver].pc = "tick"
    BY DEF IdleMonitor
  <2>2. \A g : [m EXCEPT !.pc = "read", !.seen = s, !.last = s.solver,
                        !.started = g].pc = "read"
    BY DEF Monitor
  <2>3. [m EXCEPT !.pc = "post", !.seen = s].pc = "post"
    BY DEF Monitor
  <2>4. Edge(m, s).pc \in {"tick", "read"}
    BY <2>1, <2>2 DEF Edge
  <2> QED
    BY <2>3, <2>4 DEF PostOrEdge
<1>2. CASE mon' = mon
  BY <1>0, <1>2 DEF MonitorKnowsKind
<1>3. (EndTick \/ Settled) => mon'.pc = "tick"
  <2>1. IdleMonitor.pc = "tick" /\ IdleMonitor \in Monitor
    BY ValueTypes DEF IdleMonitor
  <2> QED
    BY <2>1 DEF EndTick, Settled, Monitor
<1>4. ASSUME mon'.pc \notin {"seal", "report"} PROVE MonitorKnowsKind'
  BY <1>4 DEF MonitorKnowsKind
<1>5. CASE Snapshot \/ Scan \/ Disarm \/ Post \/ Read
  <2>1. state \in ServerState /\ mon.seen \in ServerState
    BY <1>0 DEF TypeOK, Monitor
  <2>2. \A p \in {"scan", "disarm", "adopt", "post_report", "decide"} :
            \A rec \in Record, s \in ServerState :
               /\ [mon EXCEPT !.pc = p].pc = p
               /\ [mon EXCEPT !.pc = p, !.seen = s].pc = p
               /\ [mon EXCEPT !.pc = p, !.rec = rec].pc = p
    BY <1>0 DEF Monitor
  <2>3. record \in Record
    BY <1>0 DEF TypeOK
  <2>4. mon'.pc \notin {"seal", "report"}
    <3>1. CASE Snapshot
      BY <1>0, <1>1, <2>1, <2>2, <2>3, <3>1 DEF Snapshot
    <3>2. CASE Scan
      BY <1>0, <1>1, <2>1, <2>2, <2>3, <3>2 DEF Scan
    <3>3. CASE Disarm
      BY <2>2, <2>3, <3>3, <1>0 DEF Disarm, Monitor
    <3>4. CASE Post
      BY <1>0, <1>1, <2>1, <2>2, <2>3, <3>4 DEF Post
    <3>5. CASE Read
      BY <2>2, <2>3, <3>5 DEF Read
    <3> QED
      BY <1>5, <3>1, <3>2, <3>3, <3>4, <3>5
  <2> QED
    BY <1>4, <2>4
<1>6. CASE Adopt
  <2>1. state' \in ServerState
    BY <1>6, TypeStep DEF Next, MonitorStep, TypeOK
  <2>2. [mon EXCEPT !.started = "elapsed", !.last = state'.solver] \in Monitor
    BY <1>0, <2>1 DEF Monitor, Grace, ServerState
  <2> QED
    BY <1>1, <1>4, <1>6, <2>1, <2>2 DEF Adopt
<1>7. CASE PostReport
  <2>1. state' \in ServerState
    BY <1>7, TypeStep DEF Next, MonitorStep, TypeOK
  <2>2. [mon EXCEPT !.last = state'.solver, !.kind = "", !.rec = NoRecord] \in Monitor
    BY <1>0, <2>1, ValueTypes DEF Monitor, ServerState
  <2> QED
    BY <1>1, <1>3, <1>4, <1>7, <2>1, <2>2 DEF PostReport
<1>8. CASE DecideTerminal \/ DecideLive \/ DecideAbsent \/ DecideTorn \/ Seal \/ Report
  <2>1. \A k \in {"abrupt", "launch_failed"} : \A p \in {"seal", "report"} :
            [mon EXCEPT !.pc = p, !.kind = k].pc = p
            /\ [mon EXCEPT !.pc = p, !.kind = k].kind = k
    BY <1>0 DEF Monitor
  <2>2. [mon EXCEPT !.pc = "report"].pc = "report"
        /\ [mon EXCEPT !.pc = "report"].kind = mon.kind
    BY <1>0 DEF Monitor
  <2>3. CASE DecideTerminal \/ DecideLive \/ DecideAbsent \/ DecideTorn
    BY <1>3, <2>1, <2>3 DEF DecideTerminal, DecideLive, DecideAbsent, DecideTorn,
                            MonitorKnowsKind, CrashKind
  <2>4. CASE Seal
    BY <1>0, <2>2, <2>4 DEF Seal, MonitorKnowsKind, CrashKind
  <2>5. CASE Report
    BY <1>3, <1>4, <2>5 DEF Report
  <2> QED
    BY <1>8, <2>3, <2>4, <2>5
<1>9. CASE GraceElapses
  <2>1. mon'.pc = mon.pc /\ mon'.kind = mon.kind
    BY <1>0, <1>9 DEF GraceElapses, Monitor
  <2> QED
    BY <1>0, <2>1 DEF MonitorKnowsKind
<1>10. ASSUME NEW c \in Conn,
              \/ Poll(c) \/ RequestTerminate(c) \/ RequestSaveAndQuit(c)
              \/ \E r \in Run : RequestStart(c, r) \/ RequestResume(c, r)
              \/ EffectStep(c)
       PROVE  mon' = mon
  BY <1>10 DEF Poll, RequestTerminate, RequestSaveAndQuit, RequestStart, RequestResume,
               EmitLaunch, EffectStep, Scrub, KillSolvers, Spawn, SpawnFails,
               MarkTerminate, TouchSaveAndQuit
<1>11. ASSUME NEW r \in Run, RunStep(r) \/ Die(r) \/ ReapLauncher(r)
       PROVE  mon' = mon
  BY <1>11 DEF RunStep, Exec, BootFails, InitSolver, Advance, BeginSave, EndSave,
               Finish, Panic, AdvanceFails, Exit, DieOfSignal, Die,
               ReapLauncher
<1>12. UNCHANGED vars => mon' = mon
  BY DEF vars
<1> QED
  BY <1>2, <1>5, <1>6, <1>7, <1>8, <1>9, <1>10, <1>11, <1>12 DEF Next, MonitorStep

(* The initial state satisfies all of it.                                  *)
LEMMA InitWellFormed == Init => WellFormed /\ SlotIsHonest
<1> SUFFICES ASSUME Init PROVE WellFormed /\ SlotIsHonest
  OBVIOUS
<1>1. TypeOK
  <2>1. state \in ServerState
    BY ZenonT(40), DefaultStateType DEF Init, ServerState
  <2>2. /\ conn \in [Conn -> Connection] /\ run \in [Run -> RunState]
        /\ slot \in Slot /\ record \in Record /\ mon \in Monitor
    BY ValueTypes DEF Init
  <2>3. lock \in {0} \cup Run /\ files \in Files
    BY DEF Init, Files
  <2> QED
    BY <2>1, <2>2, <2>3 DEF TypeOK
<1>2. LaunchesAreOwned
  BY DEF Init, LaunchesAreOwned, IdleConnection
<1>3. SlotIsSpawned /\ SlotIsHonest /\ MonitorKnowsKind
  BY DEF Init, SlotIsSpawned, SlotIsHonest, MonitorKnowsKind, FreeSlot, IdleMonitor
<1> QED
  BY <1>1, <1>2, <1>3 DEF WellFormed

(* Runs, launches and the monitor are well-formed in every state.          *)
LEMMA AlwaysWellFormed == Spec => [](WellFormed /\ SlotIsHonest)
<1>1. WellFormed /\ SlotIsHonest /\ [Next]_vars => WellFormed' /\ SlotIsHonest'
  BY TypeStep, OwnedStep, SlotStep, KindStep DEF WellFormed
<1> QED
  BY InitWellFormed, <1>1, PTL DEF Spec

(* Every variable of the runs, the record and the monitor keeps its type.  *)
THEOREM MonitorTypeCorrect == Spec => []TypeOK
<1>1. WellFormed => TypeOK
  BY DEF WellFormed
<1> QED
  BY AlwaysWellFormed, <1>1, PTL

(* A status in the exit slot means that the launch it is armed for is      *)
(* over, for any number of launches, waiters, adoptions and connections.   *)
THEOREM ExitSlotIsHonest == Spec => []SlotIsHonest
BY AlwaysWellFormed, PTL

(* What a transition does to the crash tag and the message beside it: every *)
(* event but a crash drops both, keeps both, or drops the tag.             *)
Tagged(s) == s.crash_kind # "" => s.error = s.crash_kind

(* Every event of a run keeps the tag with its message.                    *)
LEMMA EventsKeepTags ==
    ASSUME NEW s \in ServerState
    PROVE  /\ Tagged(StartRequested(s)) /\ Tagged(ResumeRequested(s))
           /\ Tagged(ErrorOccurred(s))
           /\ \A kind, v : Tagged(SolverCrashed(s, kind, v))
           /\ Tagged(s) => /\ Tagged(TerminateRequested(s))
                           /\ Tagged(SaveAndQuitRequested(s))
                           /\ Tagged(SolverSaving(s))
                           /\ Tagged(SolverInitialized(s))
                           /\ \A frame : Tagged(SolverFrameUpdated(s, frame))
                           /\ \A b : Tagged(SolverFinished(s, b))
                           /\ \A b : Tagged(ExternalSolverAdopted(s, b))
<1>1. Tagged(StartRequested(s)) /\ Tagged(ResumeRequested(s))
  BY DEF Tagged, StartRequested, ResumeRequested, ServerState
<1>2. Tagged(ErrorOccurred(s))
  BY DEF Tagged, ErrorOccurred, ServerState
<1>3. ASSUME NEW kind, NEW v PROVE Tagged(SolverCrashed(s, kind, v))
  BY DEF Tagged, SolverCrashed, ServerState
<1>4. ASSUME Tagged(s)
      PROVE  /\ Tagged(TerminateRequested(s)) /\ Tagged(SaveAndQuitRequested(s))
             /\ Tagged(SolverSaving(s)) /\ Tagged(SolverInitialized(s))
  BY <1>4 DEF Tagged, TerminateRequested, SaveAndQuitRequested, SolverSaving,
              SolverInitialized, ServerState
<1>5. ASSUME Tagged(s), NEW x
      PROVE  /\ Tagged(SolverFrameUpdated(s, x)) /\ Tagged(SolverFinished(s, x))
             /\ Tagged(ExternalSolverAdopted(s, x))
  BY <1>5 DEF Tagged, SolverFrameUpdated, SolverFinished, ExternalSolverAdopted,
              ServerState
<1> QED
  BY <1>1, <1>2, <1>3, <1>4, <1>5

(* No step parts a crash tag from its message.                             *)
LEMMA TagStep ==
    ASSUME WellFormed, CrashTagIsCurrent, [Next]_vars
    PROVE  CrashTagIsCurrent'
<1>0. /\ TypeOK /\ Tagged(state) /\ state \in ServerState
      /\ Observed \in ServerState /\ mon.rec \in Record
      /\ mon.seen \in ServerState
  BY ObservedType DEF WellFormed, TypeOK, Monitor, CrashTagIsCurrent, Tagged
<1>1. Refreshed \in ServerState /\ Tagged(Refreshed)
  BY <1>0, RefreshedType DEF Tagged
<1>2. SUFFICES Tagged(state')
  BY DEF CrashTagIsCurrent, Tagged
<1>3. ASSUME NEW s \in ServerState, Tagged(s), NEW rec, NEW seen
      PROVE  Tagged(FrameOf(s, rec, seen)) /\ Tagged(Verdict(s, rec))
  BY <1>3, EventsKeepTags DEF FrameOf, Verdict
<1>4. Tagged(Observed)
  <2>1. /\ FrameOf(state, mon.rec, mon.seen) \in ServerState
        /\ Tagged(FrameOf(state, mon.rec, mon.seen))
    BY <1>0, <1>3, ReportTypes
  <2> QED
    BY <2>1, EventsKeepTags DEF Observed
<1>5. CASE state' = state
  BY <1>0, <1>5
<1>6. ASSUME NEW c \in Conn,
             \/ Poll(c) \/ RequestTerminate(c) \/ RequestSaveAndQuit(c)
             \/ \E r \in Run : RequestStart(c, r) \/ RequestResume(c, r)
             \/ SpawnFails(c)
      PROVE  Tagged(state')
  BY <1>0, <1>1, <1>6, EventsKeepTags
     DEF Poll, RequestTerminate, RequestSaveAndQuit, RequestStart, RequestResume,
         SpawnFails
<1>7. CASE Adopt \/ Report
  BY <1>0, <1>7, EventsKeepTags DEF Adopt, Report
<1>8. CASE PostReport
  <2>1. /\ FrameOf(state, mon.rec, mon.seen) \in ServerState
        /\ Tagged(FrameOf(state, mon.rec, mon.seen))
    BY <1>0, <1>3, ReportTypes
  <2> QED
    BY <1>3, <1>8, <2>1 DEF PostReport
<1>9. CASE DecideTerminal \/ DecideTorn
  BY <1>0, <1>3, <1>4, <1>9, EventsKeepTags DEF DecideTerminal, DecideTorn
<1>10. CASE DecideLive
  BY <1>0, <1>4, <1>10, EventsKeepTags DEF DecideLive
<1>11. ASSUME NEW c \in Conn, EffectStep(c), ~SpawnFails(c)
       PROVE  state' = state
  BY <1>11 DEF EffectStep, Scrub, KillSolvers, Spawn, MarkTerminate, TouchSaveAndQuit
<1>12. ASSUME NEW r \in Run, RunStep(r) \/ Die(r) \/ ReapLauncher(r)
       PROVE  state' = state
  BY <1>12 DEF RunStep, Exec, BootFails, InitSolver, Advance, BeginSave, EndSave,
               Finish, Panic, AdvanceFails, Exit, DieOfSignal, Die,
               ReapLauncher
<1>13. CASE \/ Snapshot \/ Scan \/ Disarm \/ Post \/ Read \/ DecideAbsent
            \/ Seal \/ GraceElapses \/ UNCHANGED vars
  BY <1>5, <1>13 DEF Snapshot, Scan, Disarm, Post, Read, DecideAbsent, Seal,
                     GraceElapses, vars
<1> QED
  BY <1>5, <1>6, <1>7, <1>8, <1>9, <1>10, <1>11, <1>12, <1>13
     DEF Next, MonitorStep, EffectStep

(* The headline a client shows for a crash and the report it shows under   *)
(* it are of one crash, for any requests, runs and deaths.                 *)
THEOREM CrashTagNamesItsReport == Spec => []CrashTagIsCurrent
<1>1. Init => CrashTagIsCurrent
  <2>1. SUFFICES ASSUME Init PROVE CrashTagIsCurrent
    OBVIOUS
  <2>2. state.crash_kind = "" 
    BY <2>1 DEF Init, DefaultState
  <2> QED
    BY <2>2 DEF CrashTagIsCurrent
<1>2. WellFormed /\ CrashTagIsCurrent /\ [Next]_vars => CrashTagIsCurrent'
  BY TagStep
<1> QED
  BY <1>1, <1>2, AlwaysWellFormed, PTL DEF Spec

(* A step of the server, a run or the monitor is a step of LaunchExits: a  *)
(* spawn arms the slot, a waiter or a failed spawn ends a launch, an       *)
(* adoption disarms, and nothing else shows.                               *)
LEMMA ExitsStep ==
    ASSUME WellFormed, SlotIsHonest, [Next]_vars
    PROVE  [Exits!Next]_(Exits!vars)
<1> DEFINE ended == {r \in Run : run[r].launcher = "gone"}
           exited == IF slot.exit THEN slot.launch ELSE 0
<1>0. /\ TypeOK /\ LaunchesAreOwned /\ SlotIsSpawned
      /\ run \in [Run -> RunState] /\ slot \in Slot
      /\ slot.launch \in {0} \cup Run
  BY DEF WellFormed, TypeOK, Slot
<1>1. FreeSlot.launch = 0 /\ FreeSlot.exit = FALSE
  BY DEF FreeSlot
<1>2. ASSUME slot' = slot, \A r \in Run : run'[r].launcher = run[r].launcher
      PROVE  UNCHANGED Exits!vars
  BY <1>2 DEF Exits!vars
<1>3. ASSUME NEW c \in Conn, NEW r \in Run, RequestStart(c, r) \/ RequestResume(c, r)
      PROVE  UNCHANGED Exits!vars
  <2>1. slot' = slot /\ run[r].launcher = "unused" /\ run'[r].launcher = "requested"
    BY <1>0, <1>3 DEF RequestStart, RequestResume, EmitLaunch, IsNext, RunState
  <2>2. \A q \in Run : q # r => run'[q] = run[q]
    BY <1>0, <1>3 DEF RequestStart, RequestResume, EmitLaunch
  <2>3. ended' = ended
    BY <2>1, <2>2
  <2> QED
    BY <2>1, <2>3 DEF Exits!vars
<1>4. ASSUME NEW c \in Conn, Spawn(c) PROVE \E r \in Run : Exits!Arm(r)
  <2>1. PICK r \in Run : r = conn[c].run /\ run[r].launcher = "requested"
    BY <1>0, <1>4 DEF TypeOK, LaunchesAreOwned, Spawn, Connection
  <2>2. slot'.launch = r /\ slot'.exit = FALSE
    BY <1>4, <2>1 DEF Spawn
  <2>3. run'[r].launcher = "alive" /\ \A q \in Run : q # r => run'[q] = run[q]
    BY <1>0, <1>4, <2>1 DEF Spawn, RunState
  <2>4. r \notin ended /\ ended' = ended
    BY <2>1, <2>3
  <2> QED
    BY <2>2, <2>4 DEF Exits!Arm
<1>5. ASSUME NEW c \in Conn, SpawnFails(c) PROVE \E r \in Run : Exits!End(r)
  <2>1. PICK r \in Run : r = conn[c].run /\ run[r].launcher = "requested"
    BY <1>0, <1>5 DEF TypeOK, LaunchesAreOwned, SpawnFails, Connection
  <2>2. run'[r].launcher = "gone" /\ \A q \in Run : q # r => run'[q] = run[q]
    BY <1>0, <1>5, <2>1 DEF SpawnFails, RunState
  <2>3. r \notin ended /\ ended' = ended \cup {r}
    BY <2>1, <2>2
  <2>4. \/ slot' = slot
        \/ slot'.launch = 0 /\ slot'.exit = FALSE
    BY <1>1, <1>5 DEF SpawnFails
  <2> QED
    BY <2>3, <2>4 DEF Exits!End
<1>6. ASSUME NEW r \in Run, ReapLauncher(r) PROVE Exits!End(r)
  <2>1. run[r].launcher = "alive" /\ run'[r].launcher = "gone"
        /\ \A q \in Run : q # r => run'[q] = run[q]
    BY <1>0, <1>6 DEF ReapLauncher, RunState
  <2>2. r \notin ended /\ ended' = ended \cup {r}
    BY <2>1
  <2>3. \/ slot' = slot
        \/ slot.launch = r /\ slot'.launch = r /\ slot'.exit = TRUE
        \/ slot'.launch = 0 /\ slot'.exit = FALSE
    BY <1>0, <1>1, <1>6 DEF ReapLauncher, Slot
  <2> QED
    BY <2>2, <2>3 DEF Exits!End
<1>7. CASE Disarm
  <2>1. slot'.launch = 0 /\ slot'.exit = FALSE /\ run' = run
    BY <1>1, <1>7 DEF Disarm
  <2> QED
    BY <2>1 DEF Exits!Disarm, Exits!Next
<1> QED
  BY <1>0, <1>2, <1>3, <1>4, <1>5, <1>6, <1>7, LaunchFrame
     DEF Next, EffectStep, Exits!Next

(* The server's one exit slot implements LaunchExits, whatever the         *)
(* launches, their waiters and the monitor do to it: one launch's exit is  *)
(* never shown as another's.                                               *)
THEOREM ExitSlotImplementsLaunchExits == Spec => ImplementsLaunchExits
<1>1. Init => Exits!Init
  <2>1. ASSUME Init PROVE Exits!Init
    <3>1. \A r \in Run : run[r].launcher = "unused"
      BY <2>1 DEF Init, UnusedRun
    <3>2. slot.launch = 0 /\ slot.exit = FALSE
      BY <2>1 DEF Init, FreeSlot
    <3> QED
      BY <3>1, <3>2 DEF Exits!Init
  <2> QED
    BY <2>1
<1>2. WellFormed /\ SlotIsHonest /\ [Next]_vars => [Exits!Next]_(Exits!vars)
  BY ExitsStep
<1> QED
  BY <1>1, <1>2, AlwaysWellFormed, PTL DEF Spec, ImplementsLaunchExits, Exits!Spec

(* What LaunchExits promises whoever reads the slot, and so the server: a  *)
(* status that the slot shows is the status of the launch it is armed for, *)
(* and that launch is over.  The monitor may take it for the end of the    *)
(* run it asks about (executor/solver.rs, exit_watch::snapshot).           *)
THEOREM ExitIsOfTheArmedLaunch == Spec => []Exits!ShownIsOver
<1>1. Exits!Init => Exits!ShownIsOver
  BY DEF Exits!Init, Exits!ShownIsOver
<1>2. Exits!ShownIsOver /\ [Exits!Next]_(Exits!vars) => Exits!ShownIsOver'
  <2> SUFFICES ASSUME Exits!ShownIsOver, [Exits!Next]_(Exits!vars)
               PROVE  Exits!ShownIsOver'
    OBVIOUS
  <2>1. CASE Exits!Disarm
    BY <2>1 DEF Exits!Disarm, Exits!ShownIsOver
  <2>2. ASSUME NEW r \in Run, Exits!Arm(r) PROVE Exits!ShownIsOver'
    BY <2>2 DEF Exits!Arm, Exits!ShownIsOver
  <2>3. ASSUME NEW r \in Run, Exits!End(r) PROVE Exits!ShownIsOver'
    BY <2>3 DEF Exits!End, Exits!ShownIsOver
  <2>4. CASE UNCHANGED Exits!vars
    BY <2>4 DEF Exits!vars, Exits!ShownIsOver
  <2> QED
    BY <2>1, <2>2, <2>3, <2>4 DEF Exits!Next
<1> QED
  BY <1>1, <1>2, ExitSlotImplementsLaunchExits, PTL
     DEF ImplementsLaunchExits, Exits!Spec

-----------------------------------------------------------------------------
(* The first run of a project                                              *)

\* One run is ever asked for, and no stop before it.
FirstRun == MaxRuns = 1 /\ AfterStart

launcher == run[1].launcher
solver == run[1].solver
Live == {"Starting", "Running", "Saving"}

\* A launch under way has effects left to run.
LaunchIsUnderWay ==
    /\ \A c \in Conn : conn[c].pc = "scrub" => conn[c].run # 0
    /\ launcher = "requested" =>
         \E c \in Conn : conn[c].run = 1 /\ conn[c].pc \in {"scrub", "kill", "spawn"}

\* The run's processes live inside one another, and the lock inside them.
RunIsNested ==
    /\ launcher \in {"unused", "requested"} => solver = "unborn"
    /\ launcher = "gone" => solver = "gone"
    /\ lock = 1 <=> solver \in {"up", "saving", "closing"}

\* The record says how far the solver is while it is there to write it.
Outcome == {"finished", "saved", "panic", "abrupt"}
RecordFollows ==
    /\ record.phase = "Ended" => record.outcome \in Outcome
    /\ solver \in {"unborn", "booting"} => record.phase = "Absent"
    /\ solver \in {"up", "saving"} => record.phase \in Live
    /\ solver = "closing" => record.phase = "Ended"

\* What the monitor holds of the record and has made of it was true and stays
\* true enough.
ReadIsTrue ==
    /\ mon.pc \in {"decide", "seal"} =>
         /\ mon.rec.phase = "Ended" => record = mon.rec
         /\ mon.rec.phase # "Absent" => solver \notin {"unborn", "booting"}
         /\ mon.rec.phase = "Torn" => solver = "gone"
    /\ mon.pc = "post_report" => record = mon.rec /\ record.phase = "Ended"
    /\ mon.pc \in {"seal", "report"} => solver = "gone"
    /\ mon.pc = "report" /\ mon.kind # "launch_failed" => Sealed(mon.kind)
    /\ mon.pc \in {"disarm", "adopt"} => solver # "unborn"

\* A launcher that the slot does not watch has been seen with its solver.
SlotFollows == launcher = "alive" /\ slot.launch = 0 => solver # "unborn"

\* The grace runs for a launch that was asked for, and runs out once it is made.
GraceFollows ==
    /\ Active(state.solver) \/ Active(mon.seen.solver) \/ mon.started # "none"
         => launcher # "unused"
    /\ mon.started = "elapsed" => launcher \in {"alive", "gone"}

FailedIsOver ==
    state.solver = "Failed" =>
        /\ solver \in {"closing", "gone"}
        /\ state.crash_kind # "launch_failed" => Sealed(state.crash_kind)

FirstRunInv ==
    /\ LaunchIsUnderWay /\ RunIsNested /\ RecordFollows /\ ReadIsTrue
    /\ SlotFollows /\ GraceFollows /\ FailedIsOver

(* There is the one run, and it has a launcher and a solver.               *)
LEMMA TheRun ==
    ASSUME FirstRun, WellFormed
    PROVE  /\ Run = {1} /\ run \in [{1} -> RunState] /\ run[1] \in RunState
           /\ launcher \in {"unused", "requested", "alive", "gone"}
           /\ solver \in {"unborn", "booting", "up", "saving", "closing", "gone"}
           /\ lock \in {0, 1}
<1>1. Run = {1}
  BY DEF FirstRun, Run
<1> QED
  BY <1>1 DEF WellFormed, TypeOK, RunState, launcher, solver

Becomes(l, s) == launcher' = l /\ solver' = s
Same == Becomes(launcher, solver)

(* An update of the run says nothing of its other fields.                  *)
LEMMA RunUpdates ==
    ASSUME FirstRun, WellFormed
    PROVE  /\ \A l : run' = [run EXCEPT ![1].launcher = l] => Becomes(l, solver)
           /\ \A s : run' = [run EXCEPT ![1].solver = s] => Becomes(launcher, s)
           /\ \A l, s : run' = [run EXCEPT ![1].launcher = l, ![1].solver = s]
                           => Becomes(l, s)
           /\ \A l, b : run' = [run EXCEPT ![1].launcher = l, ![1].load = b]
                           => Becomes(l, solver)
           /\ \A f : run' = [run EXCEPT ![1].frame = f] => Same
           /\ run' = run => Same
<1>1. run \in [{1} -> RunState] /\ run[1] \in RunState
  BY TheRun
<1>2. \A l : LET x == [run[1] EXCEPT !.launcher = l] IN
        x.launcher = l /\ x.solver = run[1].solver
  BY <1>1 DEF RunState
<1>3. \A s : LET x == [run[1] EXCEPT !.solver = s] IN
        x.launcher = run[1].launcher /\ x.solver = s
  BY <1>1 DEF RunState
<1>4. \A l, s : LET x == [run[1] EXCEPT !.launcher = l, !.solver = s] IN
        x.launcher = l /\ x.solver = s
  BY <1>1 DEF RunState
<1>5. \A l, b : LET x == [run[1] EXCEPT !.launcher = l, !.load = b] IN
        x.launcher = l /\ x.solver = run[1].solver
  BY <1>1 DEF RunState
<1>6. \A f : LET x == [run[1] EXCEPT !.frame = f] IN
        x.launcher = run[1].launcher /\ x.solver = run[1].solver
  BY <1>1 DEF RunState
<1>8. \A l : run' = [run EXCEPT ![1].launcher = l] => Becomes(l, solver)
  BY <1>1, <1>2 DEF Becomes, launcher, solver
<1>9. \A s : run' = [run EXCEPT ![1].solver = s] => Becomes(launcher, s)
  BY <1>1, <1>3 DEF Becomes, launcher, solver
<1>10. \A l, s : run' = [run EXCEPT ![1].launcher = l, ![1].solver = s]
                   => Becomes(l, s)
  BY <1>1, <1>4 DEF Becomes, launcher, solver
<1>11. \A l, b : run' = [run EXCEPT ![1].launcher = l, ![1].load = b]
                   => Becomes(l, solver)
  BY <1>1, <1>5 DEF Becomes, launcher, solver
<1>12. \A f : run' = [run EXCEPT ![1].frame = f] => Same
  BY <1>1, <1>6 DEF Becomes, launcher, solver, Same
<1> QED
  BY <1>8, <1>9, <1>10, <1>11, <1>12 DEF Becomes, launcher, solver, Same

(* How a step moves the run's processes, its record and its lock.          *)
LEMMA EvidenceMoves ==
    ASSUME FirstRun, WellFormed, [Next]_vars
    PROVE  \/ Same /\ record' = record /\ lock' = lock
           \/ /\ Same /\ record' = NoRecord /\ lock' = lock
              /\ \E c \in Conn : Scrub(c)
           \/ Same /\ Seal /\ lock' = lock
           \/ /\ Same /\ solver = "up" /\ record'.phase = "Running" /\ lock' = lock
           \/ /\ record' = record /\ lock' = lock
              /\ \/ launcher = "unused" /\ Becomes("requested", solver)
                 \/ /\ launcher = "requested" /\ Becomes("alive", solver)
                    /\ \E c \in Conn : Spawn(c) /\ conn[c].run = 1
                 \/ /\ launcher = "requested" /\ Becomes("gone", "gone")
                 \/ /\ launcher = "alive" /\ solver = "unborn"
                    /\ Becomes("alive", "booting")
                 \/ /\ launcher = "alive" /\ solver \in {"unborn", "booting"}
                    /\ Becomes("alive", "gone")
                 \/ /\ launcher = "alive" /\ solver = "gone"
                    /\ Becomes("gone", "gone")
           \/ /\ solver = "booting" /\ Becomes(launcher, "up")
              /\ record'.phase = "Starting" /\ lock' = 1
           \/ /\ solver = "up" /\ Becomes(launcher, "saving")
              /\ record'.phase = "Saving" /\ lock' = lock
           \/ /\ solver \in {"up", "saving"} /\ Becomes(launcher, "closing")
              /\ lock' = lock
              /\ IF record.phase = "Ended"
                    THEN record' = record
                    ELSE record'.phase = "Ended" /\ record'.outcome \in Outcome
           \/ /\ solver \in {"booting", "up", "saving", "closing"}
              /\ Becomes(launcher, "gone")
              /\ lock' = IF lock = 1 THEN 0 ELSE lock
              /\ \/ record' = record
                 \/ solver \in {"up", "saving"} /\ record'.phase = "Torn"
<1>1. Run = {1} /\ run[1] \in RunState /\ lock \in {0, 1}
  BY TheRun
<1>2. ASSUME NEW c \in Conn,
             \/ Poll(c) \/ RequestTerminate(c) \/ RequestSaveAndQuit(c)
             \/ MarkTerminate(c) \/ TouchSaveAndQuit(c)
      PROVE  Same /\ record' = record /\ lock' = lock
  BY <1>2, RunUpdates
     DEF Poll, RequestTerminate, RequestSaveAndQuit, MarkTerminate,
         TouchSaveAndQuit, disk
<1>3. ASSUME NEW c \in Conn, Scrub(c)
      PROVE  Same /\ record' = NoRecord /\ lock' = lock
  BY <1>3, RunUpdates DEF Scrub
<1>4. ASSUME NEW c \in Conn, KillSolvers(c)
      PROVE  Same /\ record' = record /\ lock' = lock
  <2>1. LET x == [run[1] EXCEPT !.signaled = TRUE] IN
        x.launcher = run[1].launcher /\ x.solver = run[1].solver
    BY <1>1 DEF RunState
  <2>2. run'[1] = IF ProcessExists(1) THEN [run[1] EXCEPT !.signaled = TRUE]
                                      ELSE run[1]
    BY <1>1, <1>4, Zenon DEF KillSolvers
  <2> QED
    BY <1>4, <2>1, <2>2 DEF KillSolvers, Same, Becomes, launcher, solver, disk
<1>5. ASSUME NEW c \in Conn, NEW r \in Run, RequestStart(c, r) \/ RequestResume(c, r)
      PROVE  /\ record' = record /\ lock' = lock
             /\ launcher = "unused" /\ Becomes("requested", solver)
  <2>1. PICK req, load : EmitLaunch(c, r, req, load)
    BY <1>5 DEF RequestStart, RequestResume
  <2>2. r = 1 /\ run[1].launcher = "unused"
    BY <1>1, <2>1 DEF EmitLaunch, IsNext
  <2> QED
    BY <2>1, <2>2, RunUpdates DEF EmitLaunch, disk, launcher
<1>6. ASSUME NEW c \in Conn, Spawn(c) \/ SpawnFails(c)
      PROVE  /\ record' = record /\ lock' = lock
             /\ launcher = "requested" /\ conn[c].run = 1
             /\ Spawn(c) => Becomes("alive", solver)
             /\ SpawnFails(c) => Becomes("gone", "gone")
  <2>1. conn[c].pc = "spawn" /\ conn[c].run \in {0} \cup Run
    BY <1>6 DEF Spawn, SpawnFails, WellFormed, TypeOK, Connection
  <2>2. conn[c].run = 1 /\ launcher = "requested"
    BY <1>1, <2>1 DEF WellFormed, LaunchesAreOwned, launcher
  <2>3. Spawn(c) => run' = [run EXCEPT ![1].launcher = "alive"]
    BY <2>2 DEF Spawn
  <2>4. SpawnFails(c) => run' = [run EXCEPT ![1].launcher = "gone", ![1].solver = "gone"]
    BY <2>2 DEF SpawnFails
  <2> QED
    BY <1>6, <2>2, <2>3, <2>4, RunUpdates DEF Spawn, SpawnFails, disk
<1>7. Exec(1) => /\ record' = record /\ lock' = lock
                 /\ launcher = "alive" /\ solver = "unborn" /\ Becomes("alive", "booting")
  BY RunUpdates DEF Exec, disk, launcher, solver
<1>8. BootFails(1) => /\ record' = record /\ lock' = lock
                      /\ launcher = "alive" /\ solver \in {"unborn", "booting"}
                      /\ Becomes("alive", "gone")
  BY RunUpdates DEF BootFails, disk, launcher, solver
<1>9. ASSUME InitSolver(1)
      PROVE  /\ solver = "booting" /\ Becomes(launcher, "up")
             /\ record'.phase = "Starting" /\ lock' = 1
  <2>1. run' = [run EXCEPT ![1].solver = "up"] /\ solver = "booting"
    BY <1>9 DEF InitSolver, solver
  <2>2. record' = Progress(1, "Starting", 0)
    BY <1>9 DEF InitSolver
  <2>3. lock' = IF run[1].load /\ lock # 0 THEN lock ELSE 1
    BY <1>9 DEF InitSolver
  <2>4. lock' = 1
    BY <1>1, <2>3
  <2> QED
    BY <2>1, <2>2, <2>4, RunUpdates DEF Progress
<1>10. ASSUME Advance(1)
       PROVE  /\ Same /\ solver = "up" /\ record'.phase = "Running" /\ lock' = lock
  <2>1. run' = [run EXCEPT ![1].frame = run[1].frame + 1]
    BY <1>10, TheRun DEF Advance
  <2>2. Same
    BY <2>1, RunUpdates
  <2>3. record' = Progress(1, "Running", run[1].frame + 1) /\ lock' = lock
    BY <1>10 DEF Advance
  <2>4. record'.phase = "Running"
    BY <2>3 DEF Progress
  <2>5. solver = "up"
    BY <1>10, Zenon DEF Advance, solver
  <2> QED
    BY <2>2, <2>3, <2>4, <2>5
<1>11. ASSUME BeginSave(1)
       PROVE  /\ solver = "up" /\ Becomes(launcher, "saving")
              /\ record'.phase = "Saving" /\ lock' = lock
  <2>1. run' = [run EXCEPT ![1].solver = "saving"]
    BY <1>11 DEF BeginSave
  <2>2. record' = Progress(1, "Saving", run[1].frame) /\ lock' = lock
    BY <1>11 DEF BeginSave
  <2>3. record'.phase = "Saving"
    BY <2>2 DEF Progress
  <2>4. solver = "up"
    BY <1>11, Zenon DEF BeginSave, solver
  <2> QED
    BY <2>1, <2>2, <2>3, <2>4, RunUpdates
<1>12. EndSave(1) \/ Finish(1) \/ Panic(1) \/ AdvanceFails(1) =>
         /\ solver \in {"up", "saving"} /\ Becomes(launcher, "closing")
         /\ lock' = lock
         /\ IF record.phase = "Ended"
               THEN record' = record
               ELSE record'.phase = "Ended" /\ record'.outcome \in Outcome
  <2>1. ASSUME NEW outcome \in Outcome, End(1, outcome)
        PROVE  /\ Becomes(launcher, "closing")
               /\ IF record.phase = "Ended"
                     THEN record' = record
                     ELSE record'.phase = "Ended" /\ record'.outcome \in Outcome
    BY <2>1, RunUpdates DEF End, WriteTerminal
  <2> QED
    BY <2>1 DEF EndSave, Finish, Panic, AdvanceFails, Outcome, solver
<1>13. Exit(1) \/ Die(1) =>
         /\ solver \in {"booting", "up", "saving", "closing"}
         /\ Becomes(launcher, "gone")
         /\ lock' = IF lock = 1 THEN 0 ELSE lock
         /\ \/ record' = record
            \/ solver \in {"up", "saving"} /\ record'.phase = "Torn"
  BY RunUpdates
     DEF Exit, Die, Unlocked, ProcessExists, TornRecord, NoRecord, solver
<1>14. ReapLauncher(1) =>
         /\ record' = record /\ lock' = lock
         /\ launcher = "alive" /\ solver = "gone" /\ Becomes("gone", "gone")
  BY RunUpdates DEF ReapLauncher, disk, launcher, solver
<1>15. MonitorStep \/ GraceElapses \/ UNCHANGED vars =>
         Same /\ lock' = lock /\ (record' = record \/ Seal)
  BY RunUpdates
     DEF MonitorStep, Snapshot, Scan, Disarm, Adopt, Post, PostReport, Read,
         DecideTerminal, DecideLive, DecideAbsent, DecideTorn, Seal, Report,
         GraceElapses, vars, disk
<1>16. ASSUME NEW r \in Run, RunStep(r) \/ Die(r) \/ ReapLauncher(r)
       PROVE  \/ Exec(1) \/ BootFails(1) \/ InitSolver(1) \/ Advance(1)
              \/ BeginSave(1) \/ EndSave(1) \/ Finish(1) \/ Panic(1)
              \/ AdvanceFails(1) \/ Exit(1) \/ Die(1) \/ ReapLauncher(1)
  BY <1>1, <1>16 DEF RunStep, DieOfSignal
<1>17. CASE \E c \in Conn :
               \/ Poll(c) \/ RequestTerminate(c) \/ RequestSaveAndQuit(c)
               \/ \E r \in Run : RequestStart(c, r) \/ RequestResume(c, r)
               \/ EffectStep(c)
  BY <1>2, <1>3, <1>4, <1>5, <1>6, <1>17 DEF EffectStep
<1>18. CASE \E r \in Run : RunStep(r) \/ Die(r) \/ ReapLauncher(r)
  BY <1>7, <1>8, <1>9, <1>10, <1>11, <1>12, <1>13, <1>14, <1>16, <1>18
<1> QED
  BY <1>15, <1>17, <1>18 DEF Next

(* The run goes one way, its record with it, and a terminal record stays.  *)
LEMMA RunGoesOn ==
    ASSUME FirstRun, WellFormed, FirstRunInv, [Next]_vars
    PROVE  /\ RunIsNested' /\ RecordFollows'
           /\ record.phase = "Ended" => record' = record
           /\ solver # "unborn" => solver' # "unborn"
           /\ solver \notin {"unborn", "booting"} => solver' \notin {"unborn", "booting"}
           /\ solver \in {"closing", "gone"} => solver' \in {"closing", "gone"}
           /\ solver = "gone" => solver' = "gone"
           /\ launcher # "unused" => launcher' # "unused"
           /\ launcher \in {"alive", "gone"} => launcher' \in {"alive", "gone"}
<1>1. RunIsNested /\ RecordFollows
  BY DEF FirstRunInv
<1>2. ASSUME NEW c \in Conn, Scrub(c) PROVE solver = "unborn"
  <2>1. conn[c].run = 1
    BY <1>2, TheRun
       DEF Scrub, FirstRunInv, LaunchIsUnderWay, WellFormed, TypeOK, Connection
  <2> QED
    BY <1>1, <2>1 DEF WellFormed, LaunchesAreOwned, RunIsNested, launcher
<1>3. ASSUME Seal
      PROVE  /\ solver = "gone"
             /\ IF record.phase = "Ended"
                   THEN record' = record
                   ELSE record'.phase = "Ended" /\ record'.outcome \in Outcome
  <2>1. mon.pc = "seal" /\ mon.rec \in Record /\ mon.kind = "abrupt"
    BY <1>3 DEF Seal, WellFormed, TypeOK, Monitor, MonitorKnowsKind
  <2>2. LET rec == [mon.rec EXCEPT !.phase = "Ended", !.outcome = mon.kind]
        IN  rec.phase = "Ended" /\ rec.outcome = mon.kind
    BY <2>1 DEF Record
  <2> QED
    BY <1>3, <2>1, <2>2 DEF Seal, WriteTerminal, FirstRunInv, ReadIsTrue, Outcome
<1>4. NoRecord.phase = "Absent"
  BY DEF NoRecord
<1> QED
  BY <1>1, <1>2, <1>3, <1>4, TheRun, EvidenceMoves
     DEF Same, Becomes, RunIsNested, RecordFollows, Live

(* Requests, effects and runs leave the monitor alone, its steps the run.  *)
LEMMA MonitorFrame ==
    ASSUME FirstRun, WellFormed, [Next]_vars
    PROVE  mon' = mon \/ ((MonitorStep \/ GraceElapses) /\ Same)
<1>1. ASSUME NEW c \in Conn,
             \/ Poll(c) \/ RequestTerminate(c) \/ RequestSaveAndQuit(c)
             \/ \E r \in Run : RequestStart(c, r) \/ RequestResume(c, r)
             \/ EffectStep(c)
      PROVE  mon' = mon
  BY <1>1 DEF Poll, RequestTerminate, RequestSaveAndQuit, RequestStart,
              RequestResume, EmitLaunch, EffectStep, Scrub, KillSolvers, Spawn,
              SpawnFails, MarkTerminate, TouchSaveAndQuit
<1>2. ASSUME NEW r \in Run, RunStep(r) \/ Die(r) \/ ReapLauncher(r)
      PROVE  mon' = mon
  BY <1>2 DEF RunStep, Exec, BootFails, InitSolver, Advance, BeginSave, EndSave,
              Finish, Panic, AdvanceFails, Exit, DieOfSignal, Die, ReapLauncher
<1>3. MonitorStep \/ GraceElapses => run' = run
  BY DEF MonitorStep, Snapshot, Scan, Disarm, Adopt, Post, PostReport, Read,
         DecideTerminal, DecideLive, DecideAbsent, DecideTorn, Seal, Report,
         GraceElapses
<1> QED
  BY <1>1, <1>2, <1>3, RunUpdates DEF Next, vars

(* The early returns of a tick: where they leave it, and what it holds.    *)
LEMMA EdgeMoves ==
    ASSUME NEW m \in Monitor, NEW s \in ServerState
    PROVE  /\ Edge(m, s).pc \in {"tick", "read"}
           /\ PostOrEdge(m, s).pc \in {"tick", "read", "post"}
           /\ Active(Edge(m, s).seen.solver) => Active(s.solver)
           /\ Edge(m, s).started \in {"none", "fresh", m.started}
           /\ Edge(m, s).started # "none" => Active(s.solver)
           /\ Active(PostOrEdge(m, s).seen.solver) => Active(s.solver)
           /\ PostOrEdge(m, s).started \in {"none", "fresh", m.started}
           /\ PostOrEdge(m, s).started # "none"
                 => Active(s.solver) \/ m.started # "none"
<1> DEFINE over == [IdleMonitor EXCEPT !.last = s.solver]
           post == [m EXCEPT !.pc = "post", !.seen = s]
           ahead(g) == [m EXCEPT !.pc = "read", !.seen = s, !.last = s.solver,
                                 !.started = g]
           grace == IF m.last = "Idle" THEN "fresh" ELSE m.started
<1>1. /\ over.pc = "tick" /\ over.started = "none"
      /\ over.seen.solver = "Idle"
  BY DEF IdleMonitor, DefaultState
<1>2. post.pc = "post" /\ post.seen = s /\ post.started = m.started
  BY DEF Monitor
<1>3. \A g : ahead(g).pc = "read" /\ ahead(g).seen = s /\ ahead(g).started = g
  BY DEF Monitor
<1>4. Edge(m, s) = IF ~Active(s.solver) THEN over ELSE ahead(grace)
  BY DEF Edge
<1>5. PostOrEdge(m, s) =
        IF s.solver = "Idle" /\ s.frame = 0 THEN post ELSE Edge(m, s)
  BY DEF PostOrEdge
<1>6. grace \in {"fresh", m.started} /\ ~Active("Idle")
  BY DEF Active
<1> HIDE DEF over, post, ahead, grace
<1>7. /\ Edge(m, s).pc \in {"tick", "read"}
      /\ Active(Edge(m, s).seen.solver) => Active(s.solver)
      /\ Edge(m, s).started \in {"none", "fresh", m.started}
      /\ Edge(m, s).started # "none" => Active(s.solver)
  <2>1. CASE Active(s.solver)
    BY <1>3, <1>4, <1>6, <2>1
  <2>2. CASE ~Active(s.solver)
    BY <1>1, <1>4, <1>6, <2>2
  <2> QED
    BY <2>1, <2>2
<1> QED
  BY <1>2, <1>5, <1>7

(* Where a step of the monitor leads to, and on which evidence.            *)
LEMMA TickMoves ==
    ASSUME WellFormed, MonitorStep \/ GraceElapses
    PROVE  \/ mon'.pc \in {"tick", "scan", "read", "post"}
           \/ /\ mon'.pc = mon.pc /\ mon'.rec = mon.rec /\ mon'.kind = mon.kind
              /\ record' = record
           \/ mon'.pc = "disarm" /\ SolverBusy
           \/ mon'.pc = "adopt" /\ mon.pc = "disarm"
           \/ /\ mon'.pc = "post_report" /\ mon'.rec = record
              /\ record' = record /\ record.phase = "Ended"
           \/ mon'.pc = "decide" /\ record' = record /\ mon'.rec = record
           \/ /\ mon'.pc = "seal" /\ mon.pc = "decide" /\ mon'.rec = mon.rec
              /\ lock = 0 /\ mon.rec.phase \in Live \cup {"Torn"}
              /\ record' = record
           \/ mon'.pc = "report" /\ mon'.kind = mon.kind /\ Seal
           \/ /\ mon'.pc = "report" /\ mon'.kind = "launch_failed"
              /\ mon.pc = "decide" /\ mon.started = "elapsed"
              /\ lock = 0 /\ LauncherGone
<1>0. /\ TypeOK /\ mon \in Monitor /\ state \in ServerState
      /\ mon.seen \in ServerState /\ IdleMonitor \in Monitor
  BY ValueTypes DEF WellFormed, TypeOK, Monitor
<1>1. \A p \in STRING : \A x :
         /\ [mon EXCEPT !.pc = p].pc = p
         /\ [mon EXCEPT !.pc = p, !.seen = x].pc = p
         /\ [mon EXCEPT !.pc = p, !.rec = x].pc = p
         /\ [mon EXCEPT !.pc = p, !.rec = x].rec = x
         /\ [mon EXCEPT !.pc = p].kind = mon.kind
  BY <1>0 DEF Monitor
<1>2. \A p \in {"seal", "report"}, k \in {"abrupt", "launch_failed"} :
         LET m == [mon EXCEPT !.pc = p, !.kind = k] IN
         m.pc = p /\ m.rec = mon.rec /\ m.kind = k
  BY <1>0 DEF Monitor
<1> DEFINE sealing == [mon EXCEPT !.pc = "seal", !.kind = "abrupt"]
           failing == [mon EXCEPT !.pc = "report", !.kind = "launch_failed"]
<1>3. EndTick \/ Settled => mon'.pc = "tick"
  BY <1>0 DEF EndTick, Settled, IdleMonitor, Monitor
<1>16. sealing.pc = "seal" /\ sealing.rec = mon.rec
  BY <1>2
<1>17. failing.pc = "report" /\ failing.kind = "launch_failed"
  BY <1>2
<1> HIDE DEF sealing, failing
<1>4. CASE Snapshot
  BY <1>0, <1>1, <1>4, EdgeMoves DEF Snapshot
<1>5. CASE Scan
  BY <1>0, <1>1, <1>5, EdgeMoves DEF Scan
<1>6. CASE Disarm
  BY <1>1, <1>6 DEF Disarm
<1>7. CASE Adopt \/ PostReport
  <2>1. mon'.pc \in {"tick", "read", "post"}
    <3>1. state' \in ServerState
      BY <1>7, TypeStep DEF Next, MonitorStep, TypeOK
    <3>2. [mon EXCEPT !.started = "elapsed", !.last = state'.solver] \in Monitor
      BY <1>0, <3>1 DEF Monitor, Grace, ServerState
    <3>3. [mon EXCEPT !.last = state'.solver, !.kind = "", !.rec = NoRecord]
            \in Monitor
      BY <1>0, <3>1, ValueTypes DEF Monitor, ServerState
    <3> QED
      BY <1>3, <1>7, <3>1, <3>2, <3>3, EdgeMoves DEF Adopt, PostReport
  <2> QED
    BY <2>1
<1>8. CASE Post
  <2>1. CASE record.phase = "Ended"
    BY <1>1, <1>8, <2>1 DEF Post, disk
  <2>2. CASE record.phase # "Ended"
    BY <1>0, <1>8, <2>2, EdgeMoves DEF Post
  <2> QED
    BY <2>1, <2>2
<1>9. CASE Read
  BY <1>1, <1>9 DEF Read, disk
<1>10. CASE DecideTerminal \/ Report
  BY <1>3, <1>10 DEF DecideTerminal, Report
<1>11. CASE DecideLive
  <2>1. ~Alive(mon.rec) => lock = 0
    BY DEF Alive
  <2>2. \/ mon'.pc = "tick"
        \/ ~Alive(mon.rec) /\ mon' = sealing
    BY <1>3, <1>11 DEF DecideLive, sealing
  <2>3. record' = record /\ mon.pc = "decide" /\ mon.rec.phase \in Live
    BY <1>11 DEF DecideLive, disk, Live
  <2> QED
    BY <1>16, <2>1, <2>2, <2>3
<1>12. CASE DecideAbsent
  BY <1>3, <1>12, <1>17 DEF DecideAbsent, failing
<1>13. CASE DecideTorn
  <2>1. \/ mon'.pc = "tick"
        \/ lock = 0 /\ mon' = sealing
    BY <1>3, <1>13 DEF DecideTorn, sealing
  <2>2. record' = record /\ mon.pc = "decide" /\ mon.rec.phase = "Torn"
    BY <1>13 DEF DecideTorn, disk
  <2> QED
    BY <1>16, <2>1, <2>2
<1>14. CASE Seal
  BY <1>1, <1>14 DEF Seal
<1>15. CASE GraceElapses
  BY <1>0, <1>15 DEF GraceElapses, Monitor, disk
<1> QED
  BY <1>4, <1>5, <1>6, <1>7, <1>8, <1>9, <1>10, <1>11, <1>12, <1>13, <1>14,
     <1>15 DEF MonitorStep

(* What the monitor holds of the record stays true enough: a report finds  *)
(* the solver gone, and the lock, the slot and the scan cannot all mislead *)
(* it.                                                                     *)
LEMMA ReadStep ==
    ASSUME FirstRun, WellFormed, SlotIsHonest, FirstRunInv, [Next]_vars
    PROVE  ReadIsTrue'
<1>0. /\ RunIsNested /\ RecordFollows /\ ReadIsTrue /\ SlotFollows /\ GraceFollows
      /\ RunIsNested' /\ RecordFollows'
  BY RunGoesOn DEF FirstRunInv
<1>1. CASE \/ mon' = mon
           \/ mon'.pc = mon.pc /\ mon'.rec = mon.rec /\ mon'.kind = mon.kind
  <2>1. \A k : Sealed(k) => Sealed(k)'
    BY RunGoesOn DEF Sealed
  <2> QED
    BY <1>0, <1>1, <2>1, TheRun, RunGoesOn DEF ReadIsTrue
<1>2. ASSUME mon' # mon PROVE (MonitorStep \/ GraceElapses) /\ solver' = solver
  BY <1>2, MonitorFrame DEF Same, Becomes
<1>3. ASSUME SolverBusy PROVE solver # "unborn"
  BY <1>3, TheRun DEF SolverBusy, ProcessExists, solver
<1>4. ASSUME LauncherGone, lock = 0, mon.started = "elapsed" PROVE solver = "gone"
  <2>1. solver \in {"unborn", "booting", "gone"} /\ launcher \in {"alive", "gone"}
    BY <1>0, <1>4, TheRun DEF RunIsNested, GraceFollows
  <2>2. CASE slot.launch # 0
    <3>1. slot.launch = 1 /\ slot.exit
      BY <1>4, <2>2, TheRun DEF LauncherGone, WellFormed, TypeOK, Slot
    <3>2. launcher = "gone"
      BY <3>1 DEF SlotIsHonest, launcher
    <3> QED
      BY <1>0, <3>2 DEF RunIsNested
  <2>3. CASE slot.launch = 0
    <3>1. ~SolverBusy
      BY <1>4, <2>3 DEF LauncherGone
    <3>2. solver # "booting"
      BY <3>1, TheRun DEF SolverBusy, ProcessExists, solver
    <3> QED
      BY <1>0, <2>1, <2>3, <3>2 DEF RunIsNested, SlotFollows
  <2> QED
    BY <2>2, <2>3
<1>5. ASSUME mon' # mon, mon'.pc = "decide", mon'.rec = record, record' = record
      PROVE  ReadIsTrue'
  <2>1. /\ record.phase # "Absent" => solver \notin {"unborn", "booting"}
        /\ record.phase = "Torn" => solver = "gone"
    BY <1>0, TheRun DEF RecordFollows, Live
  <2> QED
    BY <1>2, <1>5, <2>1 DEF ReadIsTrue
<1>6. ASSUME mon' # mon, mon'.pc = "seal", mon.pc = "decide", mon'.rec = mon.rec,
             lock = 0, mon.rec.phase \in Live \cup {"Torn"}, record' = record
      PROVE  ReadIsTrue'
  <2>1. solver = "gone"
    BY <1>0, <1>6, TheRun DEF ReadIsTrue, RunIsNested, Live
  <2> QED
    BY <1>0, <1>2, <1>6, <2>1 DEF ReadIsTrue
<1>7. ASSUME mon' # mon, mon'.pc = "report", mon'.kind = mon.kind, Seal
      PROVE  ReadIsTrue'
  <2>1. mon.pc = "seal" /\ solver = "gone"
    BY <1>0, <1>7 DEF Seal, ReadIsTrue
  <2>2. mon.rec \in Record
    BY DEF WellFormed, TypeOK, Monitor
  <2>3. LET rec == [mon.rec EXCEPT !.phase = "Ended", !.outcome = mon.kind]
        IN  rec.phase = "Ended" /\ rec.outcome = mon.kind
    BY <2>2 DEF Record
  <2>4. mon.kind = "abrupt" /\ (record.phase = "Ended" => record.outcome \in Outcome)
    BY <1>0, <2>1 DEF WellFormed, MonitorKnowsKind, RecordFollows
  <2>5. Sealed("abrupt")'
    <3>1. CASE record.phase = "Ended"
      BY <1>7, <2>4, <3>1 DEF Seal, WriteTerminal, Sealed, Outcome
    <3>2. CASE record.phase # "Ended"
      BY <1>7, <2>3, <2>4, <3>2 DEF Seal, WriteTerminal, Sealed
    <3> QED
      BY <3>1, <3>2
  <2> QED
    BY <1>2, <1>7, <2>1, <2>4, <2>5 DEF ReadIsTrue, Sealed
<1>8. ASSUME mon' # mon, mon'.pc = "report", mon'.kind = "launch_failed",
             mon.started = "elapsed", lock = 0, LauncherGone
      PROVE  ReadIsTrue'
  BY <1>2, <1>4, <1>8 DEF ReadIsTrue
<1>9. ASSUME mon' # mon,
             \/ mon'.pc = "disarm" /\ SolverBusy
             \/ mon'.pc = "adopt" /\ mon.pc = "disarm"
             \/ /\ mon'.pc = "post_report" /\ mon'.rec = record
                /\ record' = record /\ record.phase = "Ended"
      PROVE  ReadIsTrue'
  BY <1>0, <1>2, <1>3, <1>9 DEF ReadIsTrue
<1>10. mon'.pc \in {"tick", "scan", "read", "post"} => ReadIsTrue'
  BY DEF ReadIsTrue
<1> QED
  BY <1>1, <1>2, <1>5, <1>6, <1>7, <1>8, <1>9, <1>10, TickMoves

(* A launch under way goes on to be made.                                  *)
LEMMA LaunchStep ==
    ASSUME FirstRun, WellFormed, FirstRunInv, [Next]_vars
    PROVE  LaunchIsUnderWay'
<1>0. /\ LaunchIsUnderWay /\ conn \in [Conn -> Connection]
      /\ \A c \in Conn : conn[c] \in Connection /\ conn[c].run \in {0, 1}
  BY TheRun DEF FirstRunInv, WellFormed, TypeOK, Connection
<1>1. ASSUME NEW c \in Conn, NEW r \in Run, RequestStart(c, r) \/ RequestResume(c, r)
      PROVE  LaunchIsUnderWay'
  <2>1. PICK req, load : EmitLaunch(c, r, req, load)
    BY <1>1 DEF RequestStart, RequestResume
  <2>2. /\ r = 1 /\ conn'[c] = [pc |-> "scrub", req |-> req, run |-> r]
        /\ \A d \in Conn : d # c => conn'[d] = conn[d]
    BY <1>0, <2>1, TheRun DEF EmitLaunch
  <2>3. conn'[c].pc = "scrub" /\ conn'[c].run = 1
    BY <2>2
  <2> QED
    BY <1>0, <2>2, <2>3 DEF LaunchIsUnderWay
<1>2. ASSUME NEW c \in Conn, Spawn(c) \/ SpawnFails(c)
      PROVE  LaunchIsUnderWay'
  <2>1. conn[c].run = 1
    BY <1>0, <1>2 DEF Spawn, SpawnFails, WellFormed, LaunchesAreOwned
  <2>2. launcher' # "requested"
    <3>1. Spawn(c) => run' = [run EXCEPT ![1].launcher = "alive"]
      BY <2>1 DEF Spawn
    <3>2. SpawnFails(c) => run' = [run EXCEPT ![1].launcher = "gone",
                                              ![1].solver = "gone"]
      BY <2>1 DEF SpawnFails
    <3> QED
      BY <1>2, <3>1, <3>2, RunUpdates DEF Becomes
  <2>3. \A d \in Conn : conn'[d].pc = "scrub" => conn'[d] = conn[d]
    BY <1>0, <1>2 DEF Spawn, SpawnFails, IdleConnection
  <2> QED
    BY <1>0, <2>2, <2>3 DEF LaunchIsUnderWay
<1>3. ASSUME NEW c \in Conn,
             \/ Scrub(c) \/ KillSolvers(c) \/ MarkTerminate(c)
             \/ TouchSaveAndQuit(c) \/ RequestTerminate(c) \/ RequestSaveAndQuit(c)
      PROVE  LaunchIsUnderWay'
  <2>1. run' = run \/ KillSolvers(c)
    BY <1>3 DEF Scrub, MarkTerminate, TouchSaveAndQuit, RequestTerminate,
                RequestSaveAndQuit
  <2>2. launcher' = launcher
    BY <1>3, LaunchFrame, TheRun DEF WellFormed, launcher
  <2>3. \A d \in Conn : d # c => conn'[d] = conn[d]
    BY <1>0, <1>3 DEF Scrub, KillSolvers, MarkTerminate, TouchSaveAndQuit,
                      RequestTerminate, RequestSaveAndQuit
  <2>4. /\ conn'[c].pc # "scrub"
        /\ conn[c].run = 1 /\ conn[c].pc \in {"scrub", "kill", "spawn"}
              => conn'[c].run = 1 /\ conn'[c].pc \in {"kill", "spawn"}
    <3>1. CASE Scrub(c) \/ MarkTerminate(c)
      BY <1>0, <3>1 DEF Scrub, MarkTerminate, Connection
    <3>2. CASE KillSolvers(c)
      BY <1>0, <3>2 DEF KillSolvers, Connection, IdleConnection
    <3>3. CASE TouchSaveAndQuit(c)
      BY <1>0, <3>3 DEF TouchSaveAndQuit, Connection, IdleConnection
    <3>4. CASE RequestTerminate(c) \/ RequestSaveAndQuit(c)
      BY <1>0, <3>4 DEF RequestTerminate, RequestSaveAndQuit, Connection
    <3> QED
      BY <1>3, <3>1, <3>2, <3>3, <3>4
  <2> QED
    BY <1>0, <2>2, <2>3, <2>4 DEF LaunchIsUnderWay
<1>4. ASSUME conn' = conn, launcher' = launcher \/ launcher' # "requested"
      PROVE  LaunchIsUnderWay'
  BY <1>0, <1>4 DEF LaunchIsUnderWay
<1>5. ASSUME NEW c \in Conn, Poll(c) PROVE LaunchIsUnderWay'
  BY <1>4, <1>5 DEF Poll, launcher
<1>6. ASSUME NEW r \in Run, RunStep(r) \/ Die(r) \/ ReapLauncher(r)
      PROVE  LaunchIsUnderWay'
  <2>1. conn' = conn
    BY <1>6 DEF RunStep, Exec, BootFails, InitSolver, Advance, BeginSave, EndSave,
                Finish, Panic, AdvanceFails, Exit, DieOfSignal, Die, ReapLauncher
  <2>2. RunStep(r) \/ Die(r) => launcher' = launcher
    BY LaunchFrame, TheRun DEF WellFormed, launcher
  <2>3. ReapLauncher(r) => launcher' = "gone"
    BY RunUpdates, TheRun DEF ReapLauncher, Becomes
  <2> QED
    BY <1>4, <1>6, <2>1, <2>2, <2>3
<1>7. CASE MonitorStep \/ GraceElapses \/ UNCHANGED vars
  <2>1. conn' = conn /\ run' = run
    BY <1>7 DEF MonitorStep, Snapshot, Scan, Disarm, Adopt, Post, PostReport, Read,
                DecideTerminal, DecideLive, DecideAbsent, DecideTorn, Seal, Report,
                GraceElapses, vars
  <2> QED
    BY <1>4, <2>1 DEF launcher
<1> QED
  BY <1>1, <1>2, <1>3, <1>5, <1>6, <1>7 DEF Next, EffectStep

(* What a step makes of the solver's phase and of the crash it names.      *)
LEMMA StateMoves ==
    ASSUME FirstRun, WellFormed, FirstRunInv, [Next]_vars
    PROVE  \/ /\ state'.solver = state.solver
              /\ state'.crash_kind = state.crash_kind \/ launcher = "requested"
           \/ state'.solver = "Idle"
           \/ Active(state'.solver) /\ launcher' # "unused"
           \/ /\ state'.solver = "Failed" /\ record.phase = "Ended"
              /\ record.outcome = state'.crash_kind
           \/ state'.solver = "Failed" /\ Report /\ state'.crash_kind = mon.kind
<1>0. /\ state \in ServerState /\ mon \in Monitor /\ mon.rec \in Record
      /\ RunIsNested /\ ReadIsTrue /\ GraceFollows /\ AfterStart
  BY DEF WellFormed, TypeOK, Monitor, FirstRunInv, FirstRun
<1>1. /\ Refreshed \in ServerState /\ Refreshed.solver = state.solver
      /\ Refreshed.crash_kind = state.crash_kind
  BY RefreshedType DEF WellFormed
<1>2. /\ \A s \in ServerState : \A f : LET x == SolverFrameUpdated(s, f) IN
            x.solver = s.solver /\ x.crash_kind = s.crash_kind
      /\ \A s \in ServerState : LET x == SolverInitialized(s) IN
            x.solver = s.solver /\ x.crash_kind = s.crash_kind
  BY DEF SolverFrameUpdated, SolverInitialized, ServerState
<1>3. /\ \A s \in ServerState : \A b : SolverFinished(s, b).solver = "Idle"
      /\ \A s \in ServerState :
            /\ SolverSaving(s).solver = "Saving"
            /\ ExternalSolverAdopted(s, TRUE).solver = "Running"
      /\ \A s \in ServerState :
            /\ StartRequested(s).solver = "Running"
            /\ ResumeRequested(s).solver = "Running"
            /\ TerminateRequested(s).solver = "Idle"
            /\ SaveAndQuitRequested(s).solver = "Saving"
            /\ ErrorOccurred(s).solver = s.solver
  BY DEF SolverFinished, SolverSaving, ExternalSolverAdopted, StartRequested,
         ResumeRequested, TerminateRequested, SaveAndQuitRequested, ErrorOccurred,
         ServerState
<1>4. \A s \in ServerState : \A k : LET c == SolverCrashed(s, k, 0) IN
         c.solver = "Failed" /\ c.crash_kind = k
  BY DEF SolverCrashed, ServerState
<1>5. LET s == FrameOf(state, mon.rec, mon.seen) IN
      s \in ServerState /\ s.solver = state.solver /\ s.crash_kind = state.crash_kind
  <2>1. FrameOf(state, mon.rec, mon.seen) \in ServerState
    BY <1>0, ReportTypes DEF WellFormed, TypeOK, Monitor
  <2> QED
    BY <1>0, <1>2, <2>1 DEF FrameOf
<1>6. /\ Observed \in ServerState /\ Observed.solver = state.solver
      /\ Observed.crash_kind = state.crash_kind
  BY <1>2, <1>5, ObservedType DEF Observed, WellFormed
<1>7. ASSUME NEW s \in ServerState
      PROVE  \/ Verdict(s, mon.rec).solver = "Idle"
             \/ /\ Verdict(s, mon.rec).solver = "Failed"
                /\ Verdict(s, mon.rec).crash_kind = mon.rec.outcome
  <2>1. SolverFinished(s, mon.rec.outcome = "saved" \/ files.checkpoint).solver
          = "Idle"
    BY DEF SolverFinished, ServerState
  <2>2. LET c == SolverCrashed(s, mon.rec.outcome, 0) IN
        c.solver = "Failed" /\ c.crash_kind = mon.rec.outcome
    BY <1>4
  <2> QED
    BY <2>1, <2>2 DEF Verdict
<1>8. ASSUME NEW c \in Conn, NEW r \in Run, RequestStart(c, r) \/ RequestResume(c, r)
      PROVE  Active(state'.solver) /\ launcher' # "unused"
  <2>1. state'.solver = "Running"
    <3>1. state' \in {StartRequested(Refreshed), ResumeRequested(Refreshed)}
      BY <1>8, Zenon DEF RequestStart, RequestResume
    <3> QED
      BY <1>1, <1>3, <3>1
  <2>2. PICK req, load : EmitLaunch(c, r, req, load)
    BY <1>8 DEF RequestStart, RequestResume
  <2>3. r = 1
    BY TheRun
  <2>4. run' = [run EXCEPT ![1].launcher = "requested", ![1].load = load]
    BY <2>2, <2>3, Zenon DEF EmitLaunch
  <2>5. Becomes("requested", solver)
    BY <2>4, RunUpdates
  <2> QED
    BY <2>1, <2>5 DEF Active, Becomes
<1>9. ASSUME NEW c \in Conn, RequestSaveAndQuit(c)
      PROVE  Active(state'.solver) /\ launcher' # "unused"
  <2>1. state'.solver = "Saving"
    BY <1>1, <1>3, <1>9 DEF RequestSaveAndQuit
  <2>2. launcher # "unused" /\ launcher' = launcher
    BY <1>0, <1>9, TheRun DEF RequestSaveAndQuit, Offered, launcher
  <2> QED
    BY <2>1, <2>2 DEF Active
<1>10. ASSUME NEW c \in Conn, SpawnFails(c)
       PROVE  state'.solver = state.solver /\ launcher = "requested"
  <2>1. conn[c].run = 1
    BY <1>10, TheRun DEF SpawnFails, WellFormed, LaunchesAreOwned, TypeOK, Connection
  <2> QED
    BY <1>0, <1>3, <1>10, <2>1
       DEF SpawnFails, WellFormed, LaunchesAreOwned, launcher
<1>11. CASE Adopt
  <2>1. mon.pc = "adopt" /\ state' \in {state, ExternalSolverAdopted(state, TRUE)}
    BY <1>11 DEF Adopt
  <2>2. launcher' # "unused"
    BY <1>0, <1>11, <2>1 DEF Adopt, ReadIsTrue, RunIsNested, launcher
  <2> QED
    BY <1>0, <1>3, <2>1, <2>2 DEF Active
<1>12. CASE DecideLive
  <2>1. mon.pc = "decide" /\ run' = run
    BY <1>12 DEF DecideLive
  <2>2. \/ state' = Observed \/ state' = SolverFinished(Observed, files.checkpoint)
        \/ state' = SolverSaving(Observed) /\ mon.seen.solver = "Running"
    BY <1>12 DEF DecideLive
  <2>3. SolverFinished(Observed, files.checkpoint).solver = "Idle"
    BY <1>6 DEF SolverFinished, ServerState
  <2>4. SolverSaving(Observed).solver = "Saving"
    BY <1>3, <1>6
  <2> QED
    BY <1>0, <1>6, <2>1, <2>2, <2>3, <2>4 DEF Active, GraceFollows, launcher
<1>13. CASE PostReport \/ DecideTerminal
  <2>1. \/ state'.solver = state.solver /\ state'.crash_kind = state.crash_kind
        \/ state'.solver = "Idle"
        \/ state'.solver = "Failed" /\ state'.crash_kind = mon.rec.outcome
    BY <1>5, <1>6, <1>7, <1>13 DEF PostReport, DecideTerminal
  <2>2. record = mon.rec /\ record.phase = "Ended"
    BY <1>0, <1>13 DEF PostReport, DecideTerminal, ReadIsTrue
  <2> QED
    BY <2>1, <2>2
<1>14. CASE Report
  BY <1>0, <1>4, <1>14 DEF Report
<1>15. CASE DecideTorn
  BY <1>0, <1>3, <1>15 DEF DecideTorn
<1>16. ASSUME NEW c \in Conn, Poll(c) \/ RequestTerminate(c)
       PROVE  \/ state'.solver = state.solver /\ state'.crash_kind = state.crash_kind
              \/ state'.solver = "Idle"
  BY <1>1, <1>3, <1>16 DEF Poll, RequestTerminate
<1>17. ASSUME NEW c \in Conn, \/ Scrub(c) \/ KillSolvers(c) \/ Spawn(c)
                              \/ MarkTerminate(c) \/ TouchSaveAndQuit(c)
       PROVE  state' = state
  BY <1>17 DEF Scrub, KillSolvers, Spawn, MarkTerminate, TouchSaveAndQuit
<1>18. ASSUME NEW r \in Run, RunStep(r) \/ Die(r) \/ ReapLauncher(r)
       PROVE  state' = state
  BY <1>18 DEF RunStep, Exec, BootFails, InitSolver, Advance, BeginSave, EndSave,
               Finish, Panic, AdvanceFails, Exit, DieOfSignal, Die,
               ReapLauncher
<1>19. CASE \/ Snapshot \/ Scan \/ Disarm \/ Post \/ Read \/ DecideAbsent \/ Seal
            \/ GraceElapses \/ UNCHANGED vars
  <2>1. state' = state
    BY <1>19 DEF Snapshot, Scan, Disarm, Post, Read, DecideAbsent, Seal,
                 GraceElapses, vars
  <2> QED
    BY <2>1
<1>20. CASE \E c \in Conn :
               \/ Poll(c) \/ RequestTerminate(c) \/ RequestSaveAndQuit(c)
               \/ \E r \in Run : RequestStart(c, r) \/ RequestResume(c, r)
               \/ EffectStep(c)
  BY <1>8, <1>9, <1>10, <1>16, <1>17, <1>20 DEF EffectStep
<1>21. CASE MonitorStep
  BY <1>11, <1>12, <1>13, <1>14, <1>15, <1>19, <1>21, Zenon DEF MonitorStep
<1>22. CASE \E r \in Run : RunStep(r) \/ Die(r) \/ ReapLauncher(r)
  BY <1>18, <1>22
<1> QED
  BY <1>19, <1>20, <1>21, <1>22, Zenon DEF Next

(* FAILED is only ever reached over the end of the run, its record first.  *)
LEMMA FailedStep ==
    ASSUME FirstRun, WellFormed, FirstRunInv, [Next]_vars
    PROVE  FailedIsOver'
<1>0. /\ RunIsNested /\ RecordFollows /\ ReadIsTrue /\ FailedIsOver
  BY DEF FirstRunInv
<1>1. record.phase = "Ended" => record' = record
  BY RunGoesOn
<1>2. solver \in {"closing", "gone"} => solver' \in {"closing", "gone"}
  BY RunGoesOn
<1>3. record.phase = "Ended" => solver \in {"closing", "gone"}
  BY <1>0, TheRun DEF RecordFollows, Live
<1>4. CASE /\ state'.solver = state.solver
           /\ state'.crash_kind = state.crash_kind \/ launcher = "requested"
  <2>1. launcher = "requested" => solver = "unborn"
    BY <1>0 DEF RunIsNested
  <2> QED
    BY <1>0, <1>1, <1>2, <1>4, <2>1 DEF FailedIsOver, Sealed
<1>5. CASE state'.solver = "Idle" \/ Active(state'.solver)
  BY <1>5 DEF FailedIsOver, Active
<1>6. CASE record.phase = "Ended" /\ record.outcome = state'.crash_kind
  BY <1>1, <1>2, <1>3, <1>6 DEF FailedIsOver, Sealed
<1>7. CASE Report /\ state'.crash_kind = mon.kind
  <2>1. mon.pc = "report"
    BY <1>7 DEF Report
  <2> QED
    BY <1>0, <1>1, <1>2, <1>7, <2>1 DEF ReadIsTrue, FailedIsOver, Sealed
<1> QED
  BY <1>4, <1>5, <1>6, <1>7, StateMoves

(* The slot is let go only of a run whose solver has been seen.            *)
LEMMA WatchStep ==
    ASSUME FirstRun, WellFormed, FirstRunInv, [Next]_vars
    PROVE  SlotFollows'
<1>0. /\ TypeOK /\ SlotFollows /\ ReadIsTrue
      /\ solver # "unborn" => solver' # "unborn"
  BY RunGoesOn DEF FirstRunInv, WellFormed
<1>1. ASSUME slot' = slot, launcher' = launcher PROVE SlotFollows'
  BY <1>0, <1>1 DEF SlotFollows
<1>2. ASSUME \/ \E c \in Conn : Poll(c) \/ Scrub(c) \/ MarkTerminate(c)
                                 \/ TouchSaveAndQuit(c) \/ KillSolvers(c)
                                 \/ RequestTerminate(c) \/ RequestSaveAndQuit(c)
             \/ \E r \in Run : RunStep(r) \/ Die(r)
             \/ MonitorStep /\ ~Disarm
             \/ GraceElapses
             \/ UNCHANGED vars
      PROVE  SlotFollows'
  BY <1>0, <1>1, <1>2, LaunchFrame, TheRun DEF launcher
<1>3. ASSUME NEW c \in Conn, NEW r \in Run, RequestStart(c, r) \/ RequestResume(c, r)
      PROVE  SlotFollows'
  <2>1. PICK req, load : EmitLaunch(c, r, req, load)
    BY <1>3 DEF RequestStart, RequestResume
  <2>2. r = 1
    BY TheRun
  <2>3. run' = [run EXCEPT ![1].launcher = "requested", ![1].load = load]
    BY <2>1, <2>2, Zenon DEF EmitLaunch
  <2>4. Becomes("requested", solver)
    BY <2>3, RunUpdates
  <2> QED
    BY <2>4 DEF Becomes, SlotFollows
<1>4. ASSUME NEW c \in Conn, Spawn(c) \/ SpawnFails(c) PROVE SlotFollows'
  <2>1. conn[c].run = 1
    BY <1>0, <1>4, TheRun
       DEF Spawn, SpawnFails, WellFormed, LaunchesAreOwned, TypeOK, Connection
  <2>2. CASE Spawn(c)
    <3>1. slot'.launch = 1
      BY <2>1, <2>2 DEF Spawn
    <3> QED
      BY <3>1 DEF SlotFollows
  <2>3. CASE SpawnFails(c)
    <3>1. run' = [run EXCEPT ![1].launcher = "gone", ![1].solver = "gone"]
      BY <2>1, <2>3 DEF SpawnFails
    <3>2. Becomes("gone", "gone")
      BY <3>1, RunUpdates
    <3> QED
      BY <3>2 DEF Becomes, SlotFollows
  <2> QED
    BY <1>4, <2>2, <2>3
<1>5. ASSUME NEW r \in Run, ReapLauncher(r) PROVE SlotFollows'
  <2>1. launcher' = "gone"
    BY <1>5, RunUpdates, TheRun DEF ReapLauncher, Becomes
  <2> QED
    BY <2>1 DEF SlotFollows
<1>6. CASE Disarm
  BY <1>0, <1>6 DEF Disarm, ReadIsTrue, SlotFollows
<1> QED
  BY <1>2, <1>3, <1>4, <1>5, <1>6 DEF Next, EffectStep

(* The grace is started for a launch that was asked for, and elapses once  *)
(* its effects are through.                                                *)
LEMMA GraceStep ==
    ASSUME FirstRun, WellFormed, FirstRunInv, [Next]_vars
    PROVE  GraceFollows'
<1>0. /\ TypeOK /\ mon \in Monitor /\ state \in ServerState
      /\ mon.seen \in ServerState /\ IdleMonitor \in Monitor
      /\ RunIsNested /\ ReadIsTrue /\ GraceFollows /\ LaunchIsUnderWay
  BY ValueTypes DEF WellFormed, TypeOK, Monitor, FirstRunInv
<1>1. /\ launcher # "unused" => launcher' # "unused"
      /\ launcher \in {"alive", "gone"} => launcher' \in {"alive", "gone"}
  BY RunGoesOn
<1>2. Active(state'.solver) => launcher' # "unused"
  BY <1>0, <1>1, StateMoves DEF GraceFollows, Active
<1>3. ASSUME Active(mon'.seen.solver) =>
                Active(mon.seen.solver) \/ Active(state.solver) \/ Active(state'.solver),
             mon'.started # "none" =>
                \/ mon.started # "none" \/ Active(mon.seen.solver)
                \/ Active(state.solver) \/ Active(state'.solver)
                \/ mon.pc = "adopt",
             mon'.started = "elapsed" => mon.started = "elapsed" \/ mon.pc = "adopt"
      PROVE  GraceFollows'
  <2>1. mon.pc = "adopt" => launcher \in {"alive", "gone"}
    BY <1>0, TheRun DEF ReadIsTrue, RunIsNested
  <2> QED
    BY <1>0, <1>1, <1>2, <1>3, <2>1 DEF GraceFollows
<1>4. CASE mon' = mon
  BY <1>3, <1>4
<1>5. ASSUME NEW m \in Monitor, NEW s \in ServerState,
             s = state \/ s = state' \/ s = mon.seen, mon' = Edge(m, s),
             m.started = mon.started \/ (mon.pc = "adopt" /\ m.started = "elapsed")
      PROVE  GraceFollows'
  BY <1>3, <1>5, EdgeMoves
<1>18. ASSUME NEW m \in Monitor, NEW s \in ServerState,
             s = state \/ s = state' \/ s = mon.seen, mon' = PostOrEdge(m, s),
             m.started = mon.started \/ (mon.pc = "adopt" /\ m.started = "elapsed")
      PROVE  GraceFollows'
  BY <1>3, <1>18, EdgeMoves
<1>6. CASE Snapshot
  <2>1. CASE state.solver = "Idle"
    <3>1. mon'.seen = state /\ mon'.started = mon.started
      BY <1>0, <1>6, <2>1 DEF Snapshot, Monitor
    <3> QED
      BY <1>3, <3>1
  <2>2. CASE state.solver # "Idle"
    <3>1. mon' = Edge(mon, state)
      BY <1>6, <2>2 DEF Snapshot
    <3> QED
      BY <1>0, <1>5, <3>1
  <2> QED
    BY <2>1, <2>2
<1>7. CASE Scan
  <2>1. CASE SolverBusy
    <3>1. mon'.seen = mon.seen /\ mon'.started = mon.started
      BY <1>0, <1>7, <2>1 DEF Scan, Monitor
    <3> QED
      BY <1>3, <3>1
  <2>2. CASE ~SolverBusy
    <3>1. mon' = PostOrEdge(mon, mon.seen)
      BY <1>7, <2>2 DEF Scan
    <3> QED
      BY <1>0, <1>18, <3>1
  <2> QED
    BY <2>1, <2>2
<1>8. CASE Disarm \/ Read
  <2>1. mon'.seen = mon.seen /\ mon'.started = mon.started
    BY <1>0, <1>8 DEF Disarm, Read, Monitor
  <2> QED
    BY <1>3, <2>1
<1>17. ~Active(IdleMonitor.seen.solver) /\ IdleMonitor.started = "none"
  <2>1. IdleMonitor.seen = DefaultState /\ IdleMonitor.started = "none"
    BY DEF IdleMonitor
  <2>2. DefaultState.solver = "Idle"
    BY DEF DefaultState
  <2> QED
    BY <2>1, <2>2 DEF Active
<1>11. EndTick => ~Active(mon'.seen.solver) /\ mon'.started = mon.started
  <2>1. EndTick => mon'.seen = IdleMonitor.seen /\ mon'.started = mon.started
    BY <1>0 DEF EndTick, Monitor
  <2> QED
    BY <1>17, <2>1
<1>9. CASE Adopt \/ PostReport
  <2>1. state' \in ServerState
    BY <1>9, TypeStep DEF Next, MonitorStep, TypeOK
  <2>2. CASE Adopt
    <3> DEFINE m == [mon EXCEPT !.started = "elapsed", !.last = state'.solver]
    <3>1. m \in Monitor /\ m.started = "elapsed"
      BY <1>0, <2>1 DEF Monitor, Grace, ServerState
    <3>2. mon' = PostOrEdge(m, state') /\ mon.pc = "adopt"
      BY <2>2 DEF Adopt
    <3> HIDE DEF m
    <3> QED
      BY <1>18, <2>1, <3>1, <3>2
  <2>3. CASE PostReport
    <3> DEFINE m == [mon EXCEPT !.last = state'.solver, !.kind = "", !.rec = NoRecord]
    <3>1. m \in Monitor /\ m.started = mon.started
      BY <1>0, <2>1, ValueTypes DEF Monitor, ServerState
    <3>2. EndTick \/ mon' = Edge(m, state')
      BY <2>3 DEF PostReport
    <3> HIDE DEF m
    <3> QED
      BY <1>3, <1>5, <1>11, <2>1, <3>1, <3>2
  <2> QED
    BY <1>9, <2>2, <2>3
<1>10. CASE Post
  <2>1. CASE record.phase = "Ended"
    <3>1. mon'.seen = mon.seen /\ mon'.started = mon.started
      BY <1>0, <1>10, <2>1 DEF Post, Monitor
    <3> QED
      BY <1>3, <3>1
  <2>2. CASE record.phase # "Ended"
    <3>1. mon' = Edge(mon, mon.seen)
      BY <1>10, <2>2 DEF Post
    <3> QED
      BY <1>0, <1>5, <3>1
  <2> QED
    BY <2>1, <2>2
<1>12. Settled => ~Active(mon'.seen.solver) /\ mon'.started = "none"
  BY <1>17 DEF Settled
<1>13. \A p, k :
          mon' = [mon EXCEPT !.pc = p, !.kind = k]
             => mon'.seen = mon.seen /\ mon'.started = mon.started
  BY <1>0 DEF Monitor
<1>14. \A p :
          mon' = [mon EXCEPT !.pc = p]
             => mon'.seen = mon.seen /\ mon'.started = mon.started
  BY <1>0 DEF Monitor
<1>15. CASE \/ DecideTerminal \/ DecideLive \/ DecideAbsent \/ DecideTorn
            \/ Seal \/ Report
  <2>1. \/ EndTick \/ Settled
        \/ mon' = [mon EXCEPT !.pc = "seal", !.kind = "abrupt"]
        \/ mon' = [mon EXCEPT !.pc = "report", !.kind = "launch_failed"]
        \/ mon' = [mon EXCEPT !.pc = "report"]
    BY <1>15 DEF DecideTerminal, DecideLive, DecideAbsent, DecideTorn, Seal, Report
  <2> QED
    BY <1>3, <1>11, <1>12, <1>13, <1>14, <2>1
<1>16. CASE GraceElapses
  <2>1. mon'.seen = mon.seen /\ mon.started = "fresh"
    BY <1>0, <1>16 DEF GraceElapses, Monitor
  <2>2. launcher' = launcher /\ state' = state
    BY <1>16 DEF GraceElapses, launcher
  <2>3. launcher # "requested"
    BY <1>0, <1>16 DEF GraceElapses, LaunchIsUnderWay
  <2>4. launcher \in {"alive", "gone"}
    BY <1>0, <2>1, <2>3, TheRun DEF GraceFollows
  <2> QED
    BY <1>0, <2>1, <2>2, <2>4 DEF GraceFollows
<1> QED
  BY <1>4, <1>6, <1>7, <1>8, <1>9, <1>10, <1>15, <1>16, MonitorFrame
     DEF MonitorStep

(* The monitor finds a first run as it was, in every state.                *)
LEMMA FirstRunIsRead ==
    ASSUME FirstRun
    PROVE  Spec => []FirstRunInv
<1>1. ASSUME Init PROVE FirstRunInv
  <2>1. launcher = "unused" /\ solver = "unborn"
    <3>1. 1 \in Run
      BY DEF FirstRun, Run
    <3>2. run[1] = UnusedRun
      BY <1>1, <3>1 DEF Init
    <3> QED
      BY <3>2 DEF UnusedRun, launcher, solver
  <2>2. state.solver = "Idle" /\ ~Active("Idle")
    <3>1. DefaultState.solver = "Idle" /\ DefaultState \in ServerState
      BY DefaultStateType DEF DefaultState
    <3> QED
      BY <1>1, <3>1 DEF Init, ServerState, Active
  <2>3. record.phase = "Absent" /\ lock = 0
    BY <1>1 DEF Init, NoRecord
  <2>4. /\ mon.pc = "tick" /\ mon.started = "none"
        /\ mon.seen.solver = "Idle"
    <3>1. mon.pc = "tick" /\ mon.started = "none" /\ mon.seen = DefaultState
      BY <1>1 DEF Init, IdleMonitor
    <3>2. DefaultState.solver = "Idle"
      BY DEF DefaultState
    <3> QED
      BY <3>1, <3>2
  <2>5. \A c \in Conn : conn[c].pc = "idle"
    BY <1>1 DEF Init, IdleConnection
  <2> QED
    BY <2>1, <2>2, <2>3, <2>4, <2>5
       DEF FirstRunInv, LaunchIsUnderWay, RunIsNested, RecordFollows, ReadIsTrue,
           SlotFollows, GraceFollows, FailedIsOver
<1>2. WellFormed /\ SlotIsHonest /\ FirstRunInv /\ [Next]_vars => FirstRunInv'
  BY RunGoesOn, ReadStep, LaunchStep, WatchStep, GraceStep, FailedStep
     DEF FirstRunInv
<1> QED
  BY <1>1, <1>2, AlwaysWellFormed, PTL DEF Spec

(* FAILED says that the first run of a project is over: no crash is        *)
(* reported while it goes on, however its processes, its record, its lock, *)
(* the exit slot and the monitor's tick interleave.                        *)
THEOREM FirstRunIsNotCalledCrashed ==
    ASSUME FirstRun
    PROVE  Spec => []NoFalseCrash
<1>1. WellFormed /\ FirstRunInv => NoFalseCrash
  BY TheRun DEF FirstRunInv, FailedIsOver, NoFalseCrash, Computing, solver
<1> QED
  BY <1>1, FirstRunIsRead, AlwaysWellFormed, PTL

(* A crash of the first run is on disk before anyone hears of it: as the   *)
(* cause reported, or, for a death without a word, as the outcome that the *)
(* solver wrote after the monitor had read its record.                     *)
THEOREM FirstCrashIsSealed ==
    ASSUME FirstRun
    PROVE  Spec => []CrashIsSealed
<1>1. FirstRunInv => CrashIsSealed
  BY DEF FirstRunInv, FailedIsOver, CrashIsSealed
<1> QED
  BY <1>1, FirstRunIsRead, PTL

(* The first terminal record of a first run stays, whether the solver or   *)
(* the monitor wrote it and whoever comes second.                          *)
THEOREM FirstOutcomeIsFinal ==
    ASSUME FirstRun
    PROVE  Spec => OutcomeIsFinal
<1>1. WellFormed /\ FirstRunInv /\ [Next]_vars
        => [record.phase = "Ended"
              => record' = record \/ record'.phase \in {"Absent", "Starting"}]_vars
  BY RunGoesOn
<1> QED
  BY <1>1, FirstRunIsRead, AlwaysWellFormed, PTL DEF Spec, OutcomeIsFinal
=============================================================================
