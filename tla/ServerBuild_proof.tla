-------------------------- MODULE ServerBuild_proof -------------------------
(***************************************************************************)
(* Theorems about ServerBuild, for any connections, projects, uploads,     *)
(* builds and restarts.                                                    *)
(*                                                                         *)
(* TypeOK is not inductive: a request applies the view it read, an effect  *)
(* names its build and a completed build reads the exemptions of its root, *)
(* and these are there only because of the steps before.  ConnWellFormed   *)
(* and TaskWellFormed say so, and with them the types, NoOrphanBuilding    *)
(* and HandleIsLive are each preserved by every step.                      *)
(*                                                                         *)
(* What the server promises to the owner of the one project it serves, for *)
(* any number of clients, uploads and builds, are relations between a      *)
(* build and the disk, and they hold because BUILDING is a lock: a build   *)
(* in flight keeps the state BUILDING, and BUILDING keeps out the next     *)
(* build and the next upload.  GuardInv says so.  With one project no      *)
(* other selection can take BUILDING away, without deletes nobody resets   *)
(* it.  Without restarts no worker is left over from a server that is gone *)
(* (WorkInv), and if uploads and builds come from one client none is under *)
(* way when the other begins (PayloadInv).                                 *)
(***************************************************************************)
EXTENDS ServerBuild, ServerTransitions_proof

\* A request has its view until it is applied, an effect has its build.
ConnWellFormed ==
    \A c \in Conn :
        /\ conn[c].pc = "select" => conn[c].view \in DiskView
        /\ conn[c].pc = "effect" /\ conn[c].req \in {"build", "cancel_build"}
              => conn[c].build \in Task

\* A worker, and a build it completed, has a project directory.
TaskWellFormed ==
    \A t \in Task :
        /\ task[t].pc \in {"worker", "orphan"} => task[t].root \in Project
        /\ task[t].pc = "report" /\ task[t].out = "completed"
              => task[t].root \in Project

WellFormed == TypeOK /\ ConnWellFormed /\ TaskWellFormed

(* What the values written into conn, task and disk are made of.           *)
LEMMA ValueTypes ==
    /\ 0 \in Upload /\ 0 \in Frame /\ MaxFrame \in Frame
    /\ IdleConnection \in Connection /\ UnusedTask \in BuildTask
    /\ EmptyDirectory \in Directory
<1>1. 0 \in Upload /\ 0 \in Frame /\ MaxFrame \in Frame
  BY TransitionsAssumption DEF Upload, Frame
<1>2. IdleConnection \in Connection
  BY <1>1 DEF IdleConnection, Connection, ConnPc, Request, NoView
<1>3. UnusedTask \in BuildTask
  BY <1>1 DEF UnusedTask, BuildTask, TaskPc, Outcome
<1>4. EmptyDirectory \in Directory
  BY <1>1 DEF EmptyDirectory, Directory
<1> QED
  BY <1>1, <1>2, <1>3, <1>4

(* The view of a project that a request reads off the disk is well-typed.  *)
LEMMA ViewType ==
    ASSUME NEW p \in Project, NEW has \in BOOLEAN, NEW app \in BOOLEAN,
           NEW u \in Upload, NEW f \in Frame, NEW e \in Upload
    PROVE  [name |-> p, has_data |-> has, has_param |-> has, has_app |-> app,
            is_resumable |-> FALSE, crash |-> "", upload_id |-> u,
            data_hash |-> u, param_hash |-> u, total_frames |-> f,
            exemptions |-> e] \in DiskView
BY DEF DiskView

(* The view of a project that a request reads off the disk is well-typed.  *)
LEMMA ReconciledType ==
    ASSUME TypeOK, NEW p \in Project, NEW n
    PROVE  Reconciled(p, n) \in DiskView
<1>1. disk[p] \in Directory
  BY DEF TypeOK
<1>2. /\ disk[p].payload \in Upload /\ disk[p].app \in Upload
      /\ disk[p].exemptions \in Upload /\ disk[p].total_frames \in Frame
  BY <1>1 DEF Directory
<1>3. (IF p = n \/ disk[p].app = 0 THEN 0 ELSE disk[p].exemptions) \in Upload
  BY <1>2, ValueTypes
<1> QED
  BY ZenonT(40), <1>2, <1>3, ViewType DEF Reconciled

(* A task keeps its type when a build or its worker updates it.            *)
LEMMA TaskTypes ==
    ASSUME TypeOK, NEW t \in Task
    PROVE  /\ task[t] \in BuildTask
           /\ \A pc \in TaskPc : [task[t] EXCEPT !.pc = pc] \in BuildTask
           /\ Returned(t) \in BuildTask
           /\ \A status \in {"ok", "error", "signal"} : Exited(t, status) \in BuildTask
<1>1. task[t] \in BuildTask
  BY DEF TypeOK
<1>2. ASSUME NEW pc \in TaskPc
      PROVE  [task[t] EXCEPT !.pc = pc] \in BuildTask
  BY <1>1 DEF BuildTask
<1>3. Returned(t) \in BuildTask
  BY <1>1, ValueTypes DEF Returned, BuildTask, TaskPc
<1>4. ASSUME NEW status \in {"ok", "error", "signal"}
      PROVE  Exited(t, status) \in BuildTask
  BY <1>1, <1>3, <1>4 DEF Exited, BuildTask
<1> QED
  BY <1>1, <1>2, <1>3, <1>4

(* A request keeps its type when it goes on to its effects.                *)
LEMMA ConnTypes ==
    ASSUME TypeOK, NEW c \in Conn
    PROVE  /\ \A t \in Task :
                  [conn[c] EXCEPT !.pc = "effect", !.build = t] \in Connection
           /\ \A n \in Project \cup {NoProject} :
                  [conn[c] EXCEPT !.pc = "effect", !.name = n] \in Connection
<1>1. conn[c] \in Connection
  BY DEF TypeOK
<1>2. ASSUME NEW t \in Task
      PROVE  [conn[c] EXCEPT !.pc = "effect", !.build = t] \in Connection
  BY <1>1 DEF Connection, ConnPc
<1>3. ASSUME NEW n \in Project \cup {NoProject}
      PROVE  [conn[c] EXCEPT !.pc = "effect", !.name = n] \in Connection
  BY <1>1 DEF Connection, ConnPc
<1> QED
  BY <1>2, <1>3

(* A server that goes down keeps the types: its tasks return or leave an   *)
(* orphan worker behind.                                                   *)
LEMMA AbandonType ==
    ASSUME TypeOK, NEW why \in {"idle_stop", "shutdown"}, Abandon(why)
    PROVE  TypeOK'
<1>1. task' \in [Task -> BuildTask]
  <2>1. ASSUME NEW t \in Task
        PROVE  task[t] \in BuildTask /\ Returned(t) \in BuildTask
               /\ [task[t] EXCEPT !.pc = "orphan", !.meta = FALSE] \in BuildTask
    <3>1. task[t] \in BuildTask /\ Returned(t) \in BuildTask
      BY TaskTypes
    <3> QED
      BY <3>1 DEF BuildTask, TaskPc
  <2> QED
    BY <2>1, Zenon DEF Abandon
<1>2. state' \in ServerState /\ conn' \in [Conn -> Connection]
  BY DefaultStateType, ValueTypes DEF Abandon
<1> QED
  BY <1>1, <1>2 DEF TypeOK, Abandon

(* Every step keeps the types, of well-formed requests and builds.         *)
LEMMA TypeStep == ASSUME WellFormed, [Next]_vars PROVE TypeOK'
<1>0. TypeOK /\ ConnWellFormed /\ TaskWellFormed
  BY DEF WellFormed
<1>1. ASSUME NEW c \in Conn, NEW p \in Project, AcceptUpload(c, p) PROVE TypeOK'
  <2>1. minted + 1 \in Upload
    BY <1>0, <1>1, TransitionsAssumption DEF TypeOK, AcceptUpload, Upload
  <2>2. [IdleConnection EXCEPT !.pc = "upload_write", !.name = p, !.req = "upload",
                               !.upload_id = minted + 1] \in Connection
    BY <2>1, ValueTypes DEF Connection, ConnPc, Request
  <2>3. conn' \in [Conn -> Connection] /\ minted' \in Upload
    BY <1>0, <1>1, <2>1, <2>2 DEF TypeOK, AcceptUpload
  <2> QED
    BY <1>0, <1>1, <2>3 DEF TypeOK, AcceptUpload, cancelVars
<1>2. ASSUME NEW c \in Conn, NEW p \in Project, NEW r \in Request, Accept(c, p, r) PROVE TypeOK'
  BY <1>0, <1>2, ValueTypes, ReconciledType
     DEF TypeOK, Accept, cancelVars, Connection, ConnPc
<1>3. ASSUME NEW c \in Conn, Select(c) PROVE TypeOK'
  <2>1. conn[c] \in Connection /\ conn[c].view \in DiskView
    BY <1>0, <1>3 DEF TypeOK, ConnWellFormed, Select
  <2>2. state' \in ServerState
    BY <1>0, <1>3, <2>1, ProjectSelectedType DEF TypeOK, Select
  <2>3. \A pc \in {"load", "request"} :
            [conn[c] EXCEPT !.pc = pc, !.view = NoView] \in Connection
    BY <2>1 DEF Connection, ConnPc
  <2>4. conn' \in [Conn -> Connection]
    BY <1>0, <1>3, <2>3 DEF TypeOK, Select
  <2> QED
    BY <1>0, <1>3, <2>2, <2>4 DEF TypeOK, Select, cancelVars
<1>4. ASSUME NEW c \in Conn, LoadApp(c) PROVE TypeOK'
  BY ZenonT(40), <1>0, <1>4, SetProjectContextType
     DEF TypeOK, LoadApp, cancelVars, Connection, ConnPc
<1>5. ASSUME NEW c \in Conn, EndRequest(c) PROVE TypeOK'
  BY <1>0, <1>5, ValueTypes
     DEF TypeOK, EndRequest, cancelVars
<1>6. ASSUME NEW c \in Conn, NEW t \in Task, RequestBuild(c, t) PROVE TypeOK'
  <2>1. state' \in ServerState
    BY <1>0, <1>6, BuildEventsType, ValueTypes DEF TypeOK, RequestBuild
  <2>2. task' \in [Task -> BuildTask]
    BY <1>0, <1>6, TaskTypes DEF TypeOK, RequestBuild, TaskPc
  <2>3. conn' \in [Conn -> Connection]
    BY <1>0, <1>6, ConnTypes DEF TypeOK, RequestBuild
  <2> QED
    BY <1>0, <1>6, <2>1, <2>2, <2>3 DEF TypeOK, RequestBuild, cancelVars
<1>7. ASSUME NEW c \in Conn, NEW t \in Task, RequestCancel(c, t) PROVE TypeOK'
  BY ZenonT(40), <1>0, <1>7, ValueTypes
     DEF TypeOK, RequestCancel, cancelVars, Connection, ConnPc
<1>8. ASSUME NEW c \in Conn, RequestDelete(c) PROVE TypeOK'
  <2>1. state' \in ServerState /\ state.root \in Project \cup {NoProject}
    BY <1>0, <1>8, DeleteAndErrorType DEF TypeOK, RequestDelete, ServerState
  <2>2. conn' \in [Conn -> Connection]
    BY <1>0, <1>8, <2>1, ConnTypes DEF TypeOK, RequestDelete
  <2> QED
    BY <1>0, <1>8, <2>1, <2>2 DEF TypeOK, RequestDelete, cancelVars
<1>9. ASSUME NEW c \in Conn, SpawnBuild(c) PROVE TypeOK'
  <2>1. conn[c].build \in Task
    BY <1>0, <1>9 DEF ConnWellFormed, SpawnBuild
  <2>2. task' \in [Task -> BuildTask]
    BY <1>0, <1>9, <2>1, TaskTypes DEF TypeOK, SpawnBuild, TaskPc
  <2>3. conn' \in [Conn -> Connection]
    BY <1>0, <1>9, ValueTypes DEF TypeOK, SpawnBuild
  <2>4. handle' \in {0} \cup Task /\ pending' \in BOOLEAN /\ tripped' \subseteq Task
    BY <1>0, <1>9, <2>1 DEF TypeOK, SpawnBuild
  <2> QED
    BY <1>0, <1>9, <2>2, <2>3, <2>4 DEF TypeOK, SpawnBuild
<1>10. ASSUME NEW c \in Conn, CancelActiveBuild(c) PROVE TypeOK'
  BY <1>0, <1>10, ValueTypes
     DEF TypeOK, ConnWellFormed, CancelActiveBuild, cancelVars
<1>11. ASSUME NEW c \in Conn, DeleteProjectData(c) PROVE TypeOK'
  BY <1>0, <1>11, ValueTypes
     DEF TypeOK, DeleteProjectData, cancelVars
<1>12. ASSUME NEW c \in Conn, WriteUpload(c) PROVE TypeOK'
  BY ZenonT(40), <1>0, <1>12, ValueTypes
     DEF TypeOK, WriteUpload, cancelVars, Connection, ConnPc, Directory
<1>13. ASSUME NEW c \in Conn, SetUploadContext(c) PROVE TypeOK'
  <2>1. conn[c] \in Connection
    BY <1>0 DEF TypeOK
  <2>2. state' \in ServerState
    BY <1>0, <1>13, <2>1, SetProjectContextType DEF TypeOK, SetUploadContext, Connection
  <2>3. \A b \in BOOLEAN :
            [conn[c] EXCEPT !.pc = "upload_land", !.on_disk = b] \in Connection
    BY <2>1 DEF Connection, ConnPc
  <2>4. (disk[conn[c].name].payload # 0) \in BOOLEAN
    OBVIOUS
  <2>5. conn' \in [Conn -> Connection]
    BY <1>0, <1>13, <2>3, <2>4, Zenon DEF TypeOK, SetUploadContext
  <2> QED
    BY <1>0, <1>13, <2>2, <2>5 DEF TypeOK, SetUploadContext, cancelVars
<1>14. ASSUME NEW c \in Conn, LandUpload(c) PROVE TypeOK'
  BY <1>0, <1>14, UploadLandedType, ValueTypes
     DEF TypeOK, LandUpload, cancelVars, Connection
<1>15. ASSUME NEW t \in Task, BeginBuild(t) PROVE TypeOK'
  <2>1. disk' \in [Project -> Directory]
    BY <1>0, <1>15, ValueTypes DEF TypeOK, BeginBuild, Directory
  <2>2. task[t] \in BuildTask /\ state.root \in Project \cup {NoProject}
    BY <1>0 DEF TypeOK, ServerState
  <2>3. /\ [task[t] EXCEPT !.pc = "worker", !.root = state.root] \in BuildTask
        /\ [task[t] EXCEPT !.pc = "gpu", !.root = state.root] \in BuildTask
        /\ [task[t] EXCEPT !.pc = "report", !.root = state.root,
                           !.out = "failed"] \in BuildTask
    BY <2>2 DEF BuildTask, TaskPc, Outcome
  <2>4. task' \in [Task -> BuildTask]
    BY <1>0, <1>15, <2>3 DEF TypeOK, BeginBuild
  <2> QED
    BY <1>0, <1>15, <2>1, <2>4 DEF TypeOK, BeginBuild, cancelVars
<1>16. ASSUME NEW t \in Task, ReportGpuFailure(t) PROVE TypeOK'
  BY ZenonT(40), <1>0, <1>16, BuildEventsType, ValueTypes
     DEF TypeOK, ReportGpuFailure, cancelVars, BuildTask, TaskPc
<1>17. ASSUME NEW t \in Task, ObserveCancel(t) PROVE TypeOK'
  BY <1>0, <1>17, ValueTypes
     DEF TypeOK, ObserveCancel, cancelVars, BuildTask
<1>18. ASSUME NEW t \in Task, ReadMetadata(t) PROVE TypeOK'
  BY ZenonT(40), <1>0, <1>18, BuildEventsType, ValueTypes
     DEF TypeOK, ReadMetadata, cancelVars, BuildTask
<1>19. ASSUME NEW t \in Task, DecideOutcome(t) PROVE TypeOK'
  <2>1. task[t] \in BuildTask
    BY <1>0 DEF TypeOK
  <2>2. \A out \in Outcome :
            [task[t] EXCEPT !.pc = "report", !.out = out] \in BuildTask
    BY <2>1 DEF BuildTask, TaskPc
  <2>3. task' \in [Task -> BuildTask]
    BY <1>0, <1>19, <2>2 DEF TypeOK, DecideOutcome, Outcome
  <2> QED
    BY <1>0, <1>19, <2>3 DEF TypeOK, DecideOutcome, cancelVars
<1>20. ASSUME NEW t \in Task, ReportBuild(t) PROVE TypeOK'
  <2>1. task[t] \in BuildTask /\ task[t].input \in Upload
    BY <1>0 DEF TypeOK, BuildTask
  <2>2. task[t].out = "completed" => disk[task[t].root].exemptions \in Upload
    BY <1>0, <1>20 DEF TypeOK, TaskWellFormed, ReportBuild, Directory
  <2>3. state' \in ServerState
    BY <1>0, <1>20, <2>1, <2>2, BuildEventsType, ValueTypes DEF TypeOK, ReportBuild
  <2>4. task' \in [Task -> BuildTask]
    BY <1>0, <1>20, TaskTypes DEF TypeOK, ReportBuild, TaskPc
  <2> QED
    BY <1>0, <1>20, <2>3, <2>4 DEF TypeOK, ReportBuild, cancelVars
<1>21. ASSUME NEW t \in Task, ClearHandle(t) PROVE TypeOK'
  BY <1>0, <1>21, TaskTypes
     DEF TypeOK, ClearHandle, cancelVars
<1>22. ASSUME NEW t \in Task, WorkerReads(t) PROVE TypeOK'
  <2>1. task[t].root \in Project
    BY <1>0, <1>22 DEF TaskWellFormed, WorkerReads, WorkerAlive
  <2>2. disk[task[t].root].payload \in Upload
    BY <1>0, <2>1 DEF TypeOK, Directory
  <2>3. task' \in [Task -> BuildTask]
    BY ZenonT(40), <1>0, <1>22, <2>2 DEF TypeOK, WorkerReads, BuildTask
  <2> QED
    BY <1>0, <1>22, <2>3 DEF TypeOK, WorkerReads, cancelVars
<1>23. ASSUME NEW t \in Task, WorkerPersists(t) PROVE TypeOK'
  BY ZenonT(40), <1>0, <1>23, ValueTypes
     DEF TypeOK, WorkerPersists, cancelVars, BuildTask, Directory
<1>24. ASSUME NEW t \in Task, WorkerSucceeds(t) PROVE TypeOK'
  <2>1. task' \in [Task -> BuildTask]
    BY <1>0, <1>24, TaskTypes DEF TypeOK, WorkerSucceeds
  <2>2. PICK exempted \in {0, task[t].input} :
            disk' = [disk EXCEPT
                       ![task[t].root].total_frames = MaxFrame,
                       ![task[t].root].exemptions =
                           IF exempted # 0 THEN exempted ELSE @]
    BY <1>24 DEF WorkerSucceeds
  <2>3. task[t].input \in Upload
    BY <1>0 DEF TypeOK, BuildTask
  <2>4. \A d \in Directory : \A e \in Upload :
            [d EXCEPT !.total_frames = MaxFrame, !.exemptions = e] \in Directory
    BY ValueTypes DEF Directory
  <2>5. disk' \in [Project -> Directory]
    BY <1>0, <2>2, <2>3, ValueTypes DEF TypeOK, Directory
  <2> QED
    BY <1>0, <1>24, <2>1, <2>5 DEF TypeOK, WorkerSucceeds, cancelVars
<1>25. ASSUME NEW t \in Task, WorkerFails(t) PROVE TypeOK'
  BY <1>0, <1>25, TaskTypes
     DEF TypeOK, WorkerFails, cancelVars
<1>26. ASSUME NEW t \in Task, WorkerInterrupted(t) PROVE TypeOK'
  BY <1>0, <1>26, TaskTypes
     DEF TypeOK, WorkerInterrupted, cancelVars
<1>27. ASSUME IdleStop PROVE TypeOK'
  BY <1>0, <1>27, AbandonType
     DEF IdleStop
<1>28. ASSUME Shutdown PROVE TypeOK'
  BY <1>0, <1>28, AbandonType
     DEF Shutdown
<1>29. ASSUME Restart PROVE TypeOK'
  BY <1>0, <1>29, BuildAssumption
     DEF TypeOK, Restart, cancelVars
<1>30. CASE UNCHANGED vars
  BY <1>0, <1>30 DEF TypeOK, vars, cancelVars
<1> QED
  BY <1>1, <1>2, <1>3, <1>4, <1>5, <1>6, <1>7, <1>8, <1>9, <1>10, <1>11, <1>12, <1>13, <1>14, <1>15, <1>16, <1>17, <1>18, <1>19, <1>20, <1>21, <1>22, <1>23, <1>24, <1>25, <1>26, <1>27, <1>28, <1>29, <1>30
     DEF Next, ConnStep, TaskStep, WorkerStep, WorkerEnds

(* A request keeps its view until it is applied and its build until the    *)
(* effect ran.                                                             *)
LEMMA ConnStepWellFormed == ASSUME WellFormed, [Next]_vars PROVE ConnWellFormed'
<1>0. TypeOK /\ ConnWellFormed
  BY DEF WellFormed
<1>1. ASSUME NEW c \in Conn, NEW p \in Project, AcceptUpload(c, p) PROVE ConnWellFormed'
  BY <1>0, <1>1 DEF TypeOK, ConnWellFormed, AcceptUpload, IdleConnection
<1>2. ASSUME NEW c \in Conn, NEW p \in Project, NEW r \in Request, Accept(c, p, r) PROVE ConnWellFormed'
  BY <1>0, <1>2, ReconciledType DEF TypeOK, ConnWellFormed, Accept, IdleConnection
<1>3. ASSUME NEW c \in Conn, Select(c) PROVE ConnWellFormed'
  BY <1>0, <1>3 DEF TypeOK, ConnWellFormed, Select
<1>4. ASSUME NEW c \in Conn, LoadApp(c) PROVE ConnWellFormed'
  BY <1>0, <1>4 DEF TypeOK, ConnWellFormed, LoadApp
<1>5. ASSUME NEW c \in Conn, EndRequest(c) PROVE ConnWellFormed'
  BY <1>0, <1>5 DEF TypeOK, ConnWellFormed, EndRequest, IdleConnection
<1>6. ASSUME NEW c \in Conn, NEW t \in Task, RequestBuild(c, t) PROVE ConnWellFormed'
  BY <1>0, <1>6 DEF TypeOK, ConnWellFormed, RequestBuild
<1>7. ASSUME NEW c \in Conn, NEW t \in Task, RequestCancel(c, t) PROVE ConnWellFormed'
  BY <1>0, <1>7 DEF TypeOK, ConnWellFormed, RequestCancel
<1>8. ASSUME NEW c \in Conn, RequestDelete(c) PROVE ConnWellFormed'
  BY <1>0, <1>8 DEF TypeOK, ConnWellFormed, RequestDelete
<1>9. ASSUME NEW c \in Conn, SpawnBuild(c) PROVE ConnWellFormed'
  BY <1>0, <1>9 DEF TypeOK, ConnWellFormed, SpawnBuild, IdleConnection
<1>10. ASSUME NEW c \in Conn, CancelActiveBuild(c) PROVE ConnWellFormed'
  BY <1>0, <1>10 DEF TypeOK, ConnWellFormed, CancelActiveBuild, IdleConnection
<1>11. ASSUME NEW c \in Conn, DeleteProjectData(c) PROVE ConnWellFormed'
  BY <1>0, <1>11 DEF TypeOK, ConnWellFormed, DeleteProjectData, IdleConnection
<1>12. ASSUME NEW c \in Conn, WriteUpload(c) PROVE ConnWellFormed'
  BY <1>0, <1>12 DEF TypeOK, ConnWellFormed, WriteUpload
<1>13. ASSUME NEW c \in Conn, SetUploadContext(c) PROVE ConnWellFormed'
  BY <1>0, <1>13 DEF TypeOK, ConnWellFormed, SetUploadContext
<1>14. ASSUME NEW c \in Conn, LandUpload(c) PROVE ConnWellFormed'
  BY <1>0, <1>14 DEF TypeOK, ConnWellFormed, LandUpload, IdleConnection
<1>15. ASSUME NEW t \in Task, TaskStep(t) \/ WorkerStep(t) PROVE ConnWellFormed'
  BY <1>0, <1>15 DEF ConnWellFormed, TaskStep, WorkerStep, WorkerEnds, BeginBuild, ReportGpuFailure, ObserveCancel, ReadMetadata,
     DecideOutcome, ReportBuild, ClearHandle, WorkerReads, WorkerPersists, WorkerSucceeds, WorkerFails, WorkerInterrupted
<1>16. CASE IdleStop \/ Shutdown
  <2>1. conn' = [c \in Conn |-> IdleConnection]
    BY <1>16 DEF IdleStop, Shutdown, Abandon
  <2> QED
    BY <2>1 DEF ConnWellFormed, IdleConnection
<1>17. CASE Restart \/ UNCHANGED vars
  BY <1>0, <1>17 DEF ConnWellFormed, Restart, vars
<1> QED
  BY <1>1, <1>2, <1>3, <1>4, <1>5, <1>6, <1>7, <1>8, <1>9, <1>10, <1>11, <1>12, <1>13, <1>14, <1>15, <1>16, <1>17
     DEF Next, ConnStep

(* A build gets its directory when its worker is spawned and keeps it.     *)
LEMMA TaskStepWellFormed == ASSUME WellFormed, [Next]_vars PROVE TaskWellFormed'
<1>0. TypeOK /\ ConnWellFormed /\ TaskWellFormed
  BY DEF WellFormed
<1>1. ASSUME NEW c \in Conn, NEW t \in Task, RequestBuild(c, t) PROVE TaskWellFormed'
  BY ZenonT(40), <1>0, <1>1 DEF TypeOK, BuildTask, TaskWellFormed, RequestBuild
<1>2. ASSUME NEW c \in Conn, SpawnBuild(c) PROVE TaskWellFormed'
  BY ZenonT(40), <1>0, <1>2 DEF TypeOK, BuildTask, TaskWellFormed, SpawnBuild
<1>3. ASSUME NEW t \in Task, BeginBuild(t) PROVE TaskWellFormed'
  <2>1. task[t] \in BuildTask /\ state.root \in Project \cup {NoProject}
    BY <1>0 DEF TypeOK, ServerState
  <2>2. \/ task'[t].pc = "worker" /\ task'[t].root = state.root /\ state.root # NoProject
        \/ task'[t].pc = "gpu"
        \/ task'[t].pc = "report" /\ task'[t].out = "failed"
    <3>1. \/ /\ state.root # NoProject
             /\ task'[t] = [task[t] EXCEPT !.pc = "worker", !.root = state.root]
          \/ task'[t] = [task[t] EXCEPT !.pc = "gpu", !.root = state.root]
          \/ task'[t] = [task[t] EXCEPT !.pc = "report", !.root = state.root,
                                         !.out = "failed"]
      BY <1>0, <1>3 DEF TypeOK, BeginBuild
    <3> QED
      BY <2>1, <3>1 DEF BuildTask
  <2>3. \A u \in Task : u # t => task'[u] = task[u]
    BY <1>0, <1>3 DEF TypeOK, BeginBuild
  <2> QED
    BY <1>0, <2>1, <2>2, <2>3 DEF TaskWellFormed
<1>4. ASSUME NEW t \in Task, ReportGpuFailure(t) PROVE TaskWellFormed'
  BY <1>0, <1>4 DEF TypeOK, BuildTask, TaskWellFormed, ReportGpuFailure
<1>5. ASSUME NEW t \in Task, ObserveCancel(t) PROVE TaskWellFormed'
  BY ZenonT(40), <1>0, <1>5 DEF TypeOK, BuildTask, TaskWellFormed, ObserveCancel
<1>6. ASSUME NEW t \in Task, ReadMetadata(t) PROVE TaskWellFormed'
  BY <1>0, <1>6 DEF TypeOK, BuildTask, TaskWellFormed, ReadMetadata
<1>7. ASSUME NEW t \in Task, DecideOutcome(t) PROVE TaskWellFormed'
  <2>1. task[t] \in BuildTask /\ task[t].root \in Project
    BY <1>0, <1>7 DEF TypeOK, TaskWellFormed, DecideOutcome
  <2>2. task'[t].root = task[t].root
    BY <1>0, <1>7, <2>1 DEF TypeOK, BuildTask, DecideOutcome
  <2>3. \A u \in Task : u # t => task'[u] = task[u]
    BY <1>0, <1>7 DEF TypeOK, DecideOutcome
  <2> QED
    BY <1>0, <2>1, <2>2, <2>3 DEF TaskWellFormed
<1>8. ASSUME NEW t \in Task, ReportBuild(t) PROVE TaskWellFormed'
  BY <1>0, <1>8 DEF TypeOK, BuildTask, TaskWellFormed, ReportBuild
<1>9. ASSUME NEW t \in Task, ClearHandle(t) PROVE TaskWellFormed'
  BY <1>0, <1>9 DEF TypeOK, BuildTask, TaskWellFormed, ClearHandle, Returned, UnusedTask
<1>10. ASSUME NEW t \in Task, WorkerReads(t) PROVE TaskWellFormed'
  BY <1>0, <1>10 DEF TypeOK, BuildTask, TaskWellFormed, WorkerReads, WorkerAlive
<1>11. ASSUME NEW t \in Task, WorkerPersists(t) PROVE TaskWellFormed'
  BY <1>0, <1>11 DEF TypeOK, BuildTask, TaskWellFormed, WorkerPersists, WorkerAlive
<1>12. ASSUME NEW t \in Task, WorkerSucceeds(t) PROVE TaskWellFormed'
  BY ZenonT(40), <1>0, <1>12 DEF TypeOK, BuildTask, TaskWellFormed, WorkerSucceeds, WorkerAlive, Exited, Returned, UnusedTask
<1>13. ASSUME NEW t \in Task, WorkerFails(t) PROVE TaskWellFormed'
  BY <1>0, <1>13 DEF TypeOK, BuildTask, TaskWellFormed, WorkerFails, WorkerAlive, Exited, Returned, UnusedTask
<1>14. ASSUME NEW t \in Task, WorkerInterrupted(t) PROVE TaskWellFormed'
  BY <1>0, <1>14 DEF TypeOK, BuildTask, TaskWellFormed, WorkerInterrupted, WorkerAlive, Exited, Returned, UnusedTask
<1>15. CASE IdleStop \/ Shutdown
  <2>1. \A t \in Task :
            \/ task'[t] = task[t] /\ task[t].pc = "unused"
            \/ task'[t] = [task[t] EXCEPT !.pc = "orphan", !.meta = FALSE]
               /\ task[t].pc \in {"worker", "orphan"}
            \/ task'[t] = Returned(t)
    BY <1>15 DEF IdleStop, Shutdown, Abandon, WorkerAlive
  <2>2. \A t \in Task : task[t] \in BuildTask
    BY <1>0 DEF TypeOK
  <2> QED
    BY ZenonT(40), <1>0, <2>1, <2>2 DEF TaskWellFormed, BuildTask, Returned, UnusedTask
<1>16. CASE UNCHANGED task
  BY <1>0, <1>16 DEF TaskWellFormed
<1> QED
  BY <1>1, <1>2, <1>3, <1>4, <1>5, <1>6, <1>7, <1>8, <1>9, <1>10, <1>11, <1>12, <1>13, <1>14, <1>15, <1>16
     DEF Next, ConnStep, TaskStep, WorkerStep, WorkerEnds, vars, AcceptUpload, Accept,
         Select, LoadApp, EndRequest, RequestCancel, RequestDelete,
         CancelActiveBuild, DeleteProjectData, WriteUpload, SetUploadContext,
         LandUpload, Restart

(* BUILDING is entered with a build in flight and left when one reports: a *)
(* step that ends a build's flight ends BUILDING, and no step enters it    *)
(* but an accepted request.                                                *)
LEMMA BuildingStep ==
    ASSUME WellFormed, NoOrphanBuilding, [Next]_vars
    PROVE  NoOrphanBuilding'
<1>0. TypeOK /\ ConnWellFormed /\ NoOrphanBuilding
  BY DEF WellFormed
<1>1. ASSUME NEW c \in Conn, Select(c) PROVE NoOrphanBuilding'
  BY <1>0, <1>1, OnlyRequestsBuild DEF TypeOK, NoOrphanBuilding, InFlight, Select, ConnWellFormed
<1>2. ASSUME NEW c \in Conn, LoadApp(c) PROVE NoOrphanBuilding'
  BY <1>0, <1>2, OnlyRequestsBuild DEF TypeOK, NoOrphanBuilding, InFlight, LoadApp
<1>3. ASSUME NEW c \in Conn, RequestDelete(c) PROVE NoOrphanBuilding'
  BY <1>0, <1>3, OnlyRequestsBuild DEF TypeOK, NoOrphanBuilding, InFlight, RequestDelete
<1>4. ASSUME NEW c \in Conn, SetUploadContext(c) PROVE NoOrphanBuilding'
  BY <1>0, <1>4, OnlyRequestsBuild DEF TypeOK, NoOrphanBuilding, InFlight, SetUploadContext
<1>5. ASSUME NEW c \in Conn, LandUpload(c) PROVE NoOrphanBuilding'
  BY <1>0, <1>5, OnlyRequestsBuild DEF TypeOK, NoOrphanBuilding, InFlight, LandUpload
<1>6. ASSUME NEW c \in Conn, NEW t \in Task, RequestBuild(c, t) PROVE NoOrphanBuilding'
  BY <1>0, <1>6 DEF TypeOK, NoOrphanBuilding, InFlight, RequestBuild, BuildTask, TaskPc
<1>7. ASSUME NEW c \in Conn, SpawnBuild(c) PROVE NoOrphanBuilding'
  <2>1. PICK t \in Task : t = conn[c].build
    BY <1>0, <1>7 DEF ConnWellFormed, SpawnBuild
  <2>2. InFlight(t)'
    BY <1>0, <1>7, <2>1 DEF TypeOK, SpawnBuild, InFlight, BuildTask
  <2> QED
    BY <2>2, Zenon DEF NoOrphanBuilding
<1>8. ASSUME NEW t \in Task, BeginBuild(t) PROVE NoOrphanBuilding'
  BY ZenonT(40), <1>0, <1>8 DEF TypeOK, NoOrphanBuilding, InFlight, BeginBuild, BuildTask
<1>9. ASSUME NEW t \in Task, ObserveCancel(t) PROVE NoOrphanBuilding'
  BY <1>0, <1>9 DEF TypeOK, NoOrphanBuilding, InFlight, ObserveCancel, BuildTask
<1>10. ASSUME NEW t \in Task, ReadMetadata(t) PROVE NoOrphanBuilding'
  BY <1>0, <1>10, OnlyRequestsBuild DEF TypeOK, NoOrphanBuilding, InFlight, ReadMetadata, BuildTask
<1>11. ASSUME NEW t \in Task, DecideOutcome(t) PROVE NoOrphanBuilding'
  BY ZenonT(40), <1>0, <1>11 DEF TypeOK, NoOrphanBuilding, InFlight, DecideOutcome, BuildTask
<1>12. ASSUME NEW t \in Task, ReportGpuFailure(t) PROVE NoOrphanBuilding'
  BY <1>0, <1>12, VerdictsEndBuilding DEF TypeOK, NoOrphanBuilding, InFlight, ReportGpuFailure
<1>13. ASSUME NEW t \in Task, ReportBuild(t) PROVE NoOrphanBuilding'
  BY <1>0, <1>13, VerdictsEndBuilding DEF TypeOK, NoOrphanBuilding, InFlight, ReportBuild
<1>14. ASSUME NEW t \in Task, ClearHandle(t) PROVE NoOrphanBuilding'
  BY <1>0, <1>14 DEF TypeOK, NoOrphanBuilding, InFlight, ClearHandle, BuildTask
<1>15. ASSUME NEW t \in Task, WorkerReads(t) PROVE NoOrphanBuilding'
  BY <1>0, <1>15 DEF TypeOK, NoOrphanBuilding, InFlight, WorkerReads, BuildTask
<1>16. ASSUME NEW t \in Task, WorkerPersists(t) PROVE NoOrphanBuilding'
  BY <1>0, <1>16 DEF TypeOK, NoOrphanBuilding, InFlight, WorkerPersists, BuildTask
<1>17. ASSUME NEW t \in Task, WorkerSucceeds(t) PROVE NoOrphanBuilding'
  BY <1>0, <1>17 DEF TypeOK, NoOrphanBuilding, InFlight, WorkerSucceeds, BuildTask, WorkerAlive, Exited, Returned, UnusedTask
<1>18. ASSUME NEW t \in Task, WorkerFails(t) PROVE NoOrphanBuilding'
  BY <1>0, <1>18 DEF TypeOK, NoOrphanBuilding, InFlight, WorkerFails, BuildTask, WorkerAlive, Exited, Returned, UnusedTask
<1>19. ASSUME NEW t \in Task, WorkerInterrupted(t) PROVE NoOrphanBuilding'
  BY <1>0, <1>19 DEF TypeOK, NoOrphanBuilding, InFlight, WorkerInterrupted, BuildTask, WorkerAlive, Exited, Returned, UnusedTask
<1>20. CASE IdleStop \/ Shutdown
  <2>1. state' = DefaultState
    BY <1>20 DEF IdleStop, Shutdown, Abandon
  <2> QED
    BY <2>1 DEF NoOrphanBuilding, DefaultState
<1>21. CASE UNCHANGED <<state, task>>
  BY <1>0, <1>21 DEF NoOrphanBuilding, InFlight
<1> QED
  BY <1>1, <1>2, <1>3, <1>4, <1>5, <1>6, <1>7, <1>8, <1>9, <1>10, <1>11, <1>12, <1>13, <1>14, <1>15, <1>16, <1>17, <1>18, <1>19, <1>20, <1>21
     DEF Next, ConnStep, TaskStep, WorkerStep, WorkerEnds, vars, AcceptUpload, Accept,
         EndRequest, RequestCancel, CancelActiveBuild, DeleteProjectData,
         WriteUpload, Restart

(* The handle is installed for a build that is scheduled and cleared by    *)
(* whichever build returns, so the build it names has not returned.        *)
LEMMA HandleStep ==
    ASSUME WellFormed, HandleIsLive, [Next]_vars
    PROVE  HandleIsLive'
<1>0. TypeOK /\ ConnWellFormed /\ HandleIsLive
  BY DEF WellFormed
<1>1. ASSUME NEW c \in Conn, SpawnBuild(c) PROVE HandleIsLive'
  BY <1>0, <1>1 DEF TypeOK, BuildTask, HandleIsLive, InFlight, SpawnBuild, ConnWellFormed
<1>2. ASSUME NEW c \in Conn, NEW t \in Task, RequestBuild(c, t) PROVE HandleIsLive'
  BY <1>0, <1>2 DEF TypeOK, BuildTask, HandleIsLive, InFlight, RequestBuild, IsNext, cancelVars
<1>3. ASSUME NEW t \in Task, BeginBuild(t) PROVE HandleIsLive'
  <2>1. task[t] \in BuildTask /\ handle' = handle /\ handle \in {0} \cup Task
    BY <1>0, <1>3 DEF TypeOK, BeginBuild, cancelVars
  <2>2. \/ task'[t] = [task[t] EXCEPT !.pc = "worker", !.root = state.root]
        \/ task'[t] = [task[t] EXCEPT !.pc = "gpu", !.root = state.root]
        \/ task'[t] = [task[t] EXCEPT !.pc = "report", !.root = state.root,
                                       !.out = "failed"]
    BY <1>0, <1>3 DEF TypeOK, BeginBuild
  <2>3. InFlight(t)'
    BY <2>1, <2>2 DEF InFlight, BuildTask
  <2>4. \A u \in Task : u # t => task'[u] = task[u]
    BY <1>0, <1>3 DEF TypeOK, BeginBuild
  <2> QED
    BY <1>0, <2>1, <2>3, <2>4 DEF HandleIsLive, InFlight
<1>4. ASSUME NEW t \in Task, ReportGpuFailure(t) PROVE HandleIsLive'
  BY <1>0, <1>4 DEF TypeOK, BuildTask, HandleIsLive, InFlight, ReportGpuFailure, cancelVars
<1>5. ASSUME NEW t \in Task, ObserveCancel(t) PROVE HandleIsLive'
  BY <1>0, <1>5 DEF TypeOK, BuildTask, HandleIsLive, InFlight, ObserveCancel, cancelVars
<1>6. ASSUME NEW t \in Task, ReadMetadata(t) PROVE HandleIsLive'
  BY <1>0, <1>6 DEF TypeOK, BuildTask, HandleIsLive, InFlight, ReadMetadata, cancelVars
<1>7. ASSUME NEW t \in Task, DecideOutcome(t) PROVE HandleIsLive'
  <2>1. task[t] \in BuildTask /\ handle' = handle /\ handle \in {0} \cup Task
    BY <1>0, <1>7 DEF TypeOK, DecideOutcome, cancelVars
  <2>2. task'[t].pc = "report"
    BY <1>0, <1>7, <2>1 DEF TypeOK, DecideOutcome, BuildTask
  <2>3. \A u \in Task : u # t => task'[u] = task[u]
    BY <1>0, <1>7 DEF TypeOK, DecideOutcome
  <2> QED
    BY <1>0, <2>1, <2>2, <2>3 DEF HandleIsLive, InFlight
<1>8. ASSUME NEW t \in Task, ReportBuild(t) PROVE HandleIsLive'
  BY <1>0, <1>8 DEF TypeOK, BuildTask, HandleIsLive, InFlight, ReportBuild, cancelVars
<1>9. ASSUME NEW t \in Task, ClearHandle(t) PROVE HandleIsLive'
  BY <1>0, <1>9 DEF TypeOK, BuildTask, HandleIsLive, InFlight, ClearHandle
<1>10. ASSUME NEW t \in Task, WorkerReads(t) PROVE HandleIsLive'
  BY <1>0, <1>10 DEF TypeOK, BuildTask, HandleIsLive, InFlight, WorkerReads, cancelVars
<1>11. ASSUME NEW t \in Task, WorkerPersists(t) PROVE HandleIsLive'
  BY <1>0, <1>11 DEF TypeOK, BuildTask, HandleIsLive, InFlight, WorkerPersists, cancelVars
<1>12. ASSUME NEW t \in Task, WorkerSucceeds(t) PROVE HandleIsLive'
  BY <1>0, <1>12 DEF TypeOK, BuildTask, HandleIsLive, InFlight, WorkerSucceeds, cancelVars, WorkerAlive,
     Exited, Returned, UnusedTask
<1>13. ASSUME NEW t \in Task, WorkerFails(t) PROVE HandleIsLive'
  BY <1>0, <1>13 DEF TypeOK, BuildTask, HandleIsLive, InFlight, WorkerFails, cancelVars, WorkerAlive,
     Exited, Returned, UnusedTask
<1>14. ASSUME NEW t \in Task, WorkerInterrupted(t) PROVE HandleIsLive'
  BY <1>0, <1>14 DEF TypeOK, BuildTask, HandleIsLive, InFlight, WorkerInterrupted, cancelVars, WorkerAlive,
     Exited, Returned, UnusedTask
<1>15. CASE IdleStop \/ Shutdown
  BY <1>15 DEF HandleIsLive, IdleStop, Shutdown, Abandon
<1>16. CASE UNCHANGED <<handle, task>>
  BY <1>0, <1>16 DEF HandleIsLive, InFlight
<1> QED
  BY <1>1, <1>2, <1>3, <1>4, <1>5, <1>6, <1>7, <1>8, <1>9, <1>10, <1>11, <1>12, <1>13, <1>14, <1>15, <1>16
     DEF Next, ConnStep, TaskStep, WorkerStep, WorkerEnds, vars, cancelVars, AcceptUpload,
         Accept, Select, LoadApp, EndRequest, RequestCancel, RequestDelete,
         CancelActiveBuild, DeleteProjectData, WriteUpload, SetUploadContext,
         LandUpload, Restart

(* The initial state satisfies all of it.                                  *)
LEMMA InitWellFormed == Init => WellFormed /\ NoOrphanBuilding /\ HandleIsLive
<1> SUFFICES ASSUME Init PROVE WellFormed /\ NoOrphanBuilding /\ HandleIsLive
  OBVIOUS
<1>1. TypeOK
  <2>1. state \in ServerState
    BY DefaultStateType DEF Init
  <2>2. conn \in [Conn -> Connection] /\ task \in [Task -> BuildTask]
        /\ disk \in [Project -> Directory]
    BY ValueTypes DEF Init
  <2>3. restarts \in 0 .. MaxRestarts
    BY BuildAssumption DEF Init
  <2>4. minted \in Upload
    BY ValueTypes DEF Init
  <2>5. /\ handle \in {0} \cup Task /\ pending \in BOOLEAN
        /\ tripped \subseteq Task /\ asked \subseteq Task
        /\ server \in {"up", "idle_stop", "shutdown"}
    BY DEF Init
  <2> QED
    BY <2>1, <2>2, <2>3, <2>4, <2>5 DEF TypeOK
<1>2. ConnWellFormed
  BY DEF Init, ConnWellFormed, IdleConnection
<1>3. TaskWellFormed
  BY DEF Init, TaskWellFormed, UnusedTask
<1>4. NoOrphanBuilding /\ HandleIsLive
  BY DEF Init, NoOrphanBuilding, HandleIsLive, DefaultState
<1> QED
  BY <1>1, <1>2, <1>3, <1>4 DEF WellFormed

(* Requests and builds are well-formed in every state the server reaches.  *)
LEMMA AlwaysWellFormed == Spec => []WellFormed
<1>1. WellFormed /\ [Next]_vars => WellFormed'
  BY TypeStep, ConnStepWellFormed, TaskStepWellFormed DEF WellFormed
<1> QED
  BY InitWellFormed, <1>1, PTL DEF Spec

(* Every variable of the server, the builds and the disk keeps its type,   *)
(* whatever the connections, the projects and the bounds.                  *)
THEOREM TypeCorrect == Spec => []TypeOK
<1>1. WellFormed => TypeOK
  BY DEF WellFormed
<1> QED
  BY AlwaysWellFormed, <1>1, PTL

(* A state that says BUILDING has a build that is still to report: no      *)
(* interleaving of requests, cancels, deletes, switches, builds and        *)
(* restarts leaves a BUILDING, which refuses uploads and builds, for ever. *)
THEOREM BuildingHasBuild == Spec => []NoOrphanBuilding
<1>1. WellFormed /\ NoOrphanBuilding /\ [Next]_vars => NoOrphanBuilding'
  BY BuildingStep
<1> QED
  BY InitWellFormed, AlwaysWellFormed, <1>1, PTL DEF Spec

(* The installed cancel handle names a build that has not returned.        *)
THEOREM HandleNamesLiveBuild == Spec => []HandleIsLive
<1>1. WellFormed /\ HandleIsLive /\ [Next]_vars => HandleIsLive'
  BY HandleStep
<1> QED
  BY InitWellFormed, AlwaysWellFormed, <1>1, PTL DEF Spec

-----------------------------------------------------------------------------
(* The one owner of a project                                              *)

\* The deployment the promises are for.
OneProject == \A p, q \in Project : p = q
NeverDeleted == \A c \in Conn, p \in Project : <<"delete", p>> \notin Serves[c]
NeverRestarted == MaxRestarts = 0
OneOwner ==
    \A c, d \in Conn, p, q \in Project, r \in {"upload", "build"} :
        <<"upload", p>> \in Serves[c] /\ <<r, q>> \in Serves[d] => c = d

-----------------------------------------------------------------------------
(* BUILDING is a lock                                                      *)

UploadPc == {"upload_write", "upload_context", "upload_land"}

\* A request is one that its connection may bring.
RequestsAreServed ==
    \A c \in Conn : conn[c].pc # "idle" =>
        /\ conn[c].name \in Project /\ <<conn[c].req, conn[c].name>> \in Serves[c]
        /\ conn[c].pc \in UploadPc => conn[c].req = "upload"

\* A project is selected once a request has got as far as its event.
SelectionIsKnown ==
    \A c \in Conn :
        conn[c].pc \in {"request", "effect", "upload_land"} => state.name # NoProject
NamedUnlessNew == state.name = NoProject => state.build = "None"

\* An accepted build is spawned by the connection that asked for it, once.
SpawnsItsOwn(c) == conn[c].pc = "effect" /\ conn[c].req = "build"
SpawnsAreOwned ==
    /\ \A c \in Conn : SpawnsItsOwn(c) => task[conn[c].build].pc = "requested"
    /\ \A c, d \in Conn :
          SpawnsItsOwn(c) /\ SpawnsItsOwn(d) /\ conn[c].build = conn[d].build => c = d

InFlightIsBuilding == \A t \in Task : InFlight(t) => state.build = "Building"
OneInFlight == \A t, u \in Task : InFlight(t) /\ InFlight(u) => t = u
DownIsQuiet ==
    server # "up" =>
        (\A c \in Conn : conn[c].pc = "idle") /\ (\A t \in Task : ~InFlight(t))

GuardInv ==
    /\ RequestsAreServed /\ SelectionIsKnown /\ NamedUnlessNew /\ SpawnsAreOwned
    /\ InFlightIsBuilding /\ OneInFlight /\ DownIsQuiet

-----------------------------------------------------------------------------
(* How a build moves                                                       *)

Others(t) == \A u \in Task \ {t} : task'[u] = task[u]
Moves(t, from, to) == Others(t) /\ task[t].pc = from /\ task'[t].pc = to
SameInput(t) ==
    /\ task'[t].input = task[t].input /\ task'[t].persisted = task[t].persisted
    /\ task'[t].exit = task[t].exit
SameWork(t) == SameInput(t) /\ task'[t].root = task[t].root

(* The steps of a build from its acceptance to its return.                 *)
LEMMA BuildMoves ==
    ASSUME WellFormed, NEW t \in Task
    PROVE  /\ \A c \in Conn : RequestBuild(c, t) =>
                Moves(t, "unused", "requested") /\ SameWork(t)
           /\ ReportGpuFailure(t) => Moves(t, "gpu", "clear")
           /\ ObserveCancel(t) \/ ReadMetadata(t) =>
                Moves(t, "worker", "worker") /\ SameWork(t)
           /\ ReportBuild(t) => Moves(t, "report", "clear")
           /\ ClearHandle(t) => Moves(t, "clear", "done")
<1>1. task \in [Task -> BuildTask] /\ task[t] \in BuildTask
  BY DEF WellFormed, TypeOK
<1>2. \A pc : LET x == [task[t] EXCEPT !.pc = pc] IN
        /\ x.pc = pc /\ x.root = task[t].root /\ x.input = task[t].input
        /\ x.persisted = task[t].persisted /\ x.exit = task[t].exit
  BY <1>1 DEF BuildTask
<1>3. ASSUME NEW c \in Conn, RequestBuild(c, t)
      PROVE  Moves(t, "unused", "requested") /\ SameWork(t)
  BY <1>1, <1>2, <1>3
     DEF RequestBuild, IsNext, Moves, Others, SameWork, SameInput
<1>4. ReportGpuFailure(t) => Moves(t, "gpu", "clear")
  BY <1>1, <1>2 DEF ReportGpuFailure, Moves, Others
<1>5. ObserveCancel(t) => Moves(t, "worker", "worker") /\ SameWork(t)
  <2>1. LET x == [task[t] EXCEPT !.signaled = TRUE] IN
        /\ x.pc = task[t].pc /\ x.root = task[t].root /\ x.input = task[t].input
        /\ x.persisted = task[t].persisted /\ x.exit = task[t].exit
    BY <1>1 DEF BuildTask
  <2>2. ObserveCancel(t) =>
          task' = [task EXCEPT ![t].signaled = TRUE] /\ task[t].pc = "worker"
    BY DEF ObserveCancel
  <2> QED
    BY <1>1, <2>1, <2>2 DEF Moves, Others, SameWork, SameInput
<1>6. ReadMetadata(t) => Moves(t, "worker", "worker") /\ SameWork(t)
  <2>1. LET x == [task[t] EXCEPT !.meta = FALSE] IN
        /\ x.pc = task[t].pc /\ x.root = task[t].root /\ x.input = task[t].input
        /\ x.persisted = task[t].persisted /\ x.exit = task[t].exit
    BY <1>1 DEF BuildTask
  <2>2. ReadMetadata(t) =>
          task' = [task EXCEPT ![t].meta = FALSE] /\ task[t].pc = "worker"
    BY DEF ReadMetadata
  <2> QED
    BY <1>1, <2>1, <2>2 DEF Moves, Others, SameWork, SameInput
<1>7. ReportBuild(t) => Moves(t, "report", "clear")
  BY <1>1, <1>2 DEF ReportBuild, Moves, Others
<1>8. ClearHandle(t) => Moves(t, "clear", "done")
  BY <1>1 DEF ClearHandle, Moves, Others, Returned, UnusedTask
<1> QED
  BY <1>3, <1>4, <1>5, <1>6, <1>7, <1>8

(* A build begins in the directory that is selected.                       *)
LEMMA BeginMoves ==
    ASSUME WellFormed, NEW t \in Task, BeginBuild(t)
    PROVE  /\ Others(t) /\ SameInput(t) /\ task[t].pc = "scheduled"
           /\ task'[t].root = state.root
           /\ \/ task'[t].pc \in {"worker", "gpu"}
              \/ task'[t].pc = "report" /\ task'[t].out = "failed"
<1>1. task \in [Task -> BuildTask] /\ task[t] \in BuildTask
  BY DEF WellFormed, TypeOK
<1>2. \/ task' = [task EXCEPT ![t].pc = "worker", ![t].root = state.root]
      \/ task' = [task EXCEPT ![t].pc = "gpu", ![t].root = state.root]
      \/ task' = [task EXCEPT ![t].pc = "report", ![t].root = state.root,
                              ![t].out = "failed"]
  BY DEF BeginBuild
<1>3. Others(t) /\ task[t].pc = "scheduled"
  BY <1>1, <1>2 DEF Others, BeginBuild
<1>4. LET x == [task[t] EXCEPT !.pc = "worker", !.root = state.root] IN
      task'[t] = x => SameInput(t) /\ task'[t].root = state.root /\ task'[t].pc = "worker"
  BY <1>1 DEF SameInput, BuildTask
<1>5. LET x == [task[t] EXCEPT !.pc = "gpu", !.root = state.root] IN
      task'[t] = x => SameInput(t) /\ task'[t].root = state.root /\ task'[t].pc = "gpu"
  BY <1>1 DEF SameInput, BuildTask
<1>6. LET x == [task[t] EXCEPT !.pc = "report", !.root = state.root, !.out = "failed"] IN
      task'[t] = x => SameInput(t) /\ task'[t].root = state.root
                      /\ task'[t].pc = "report" /\ task'[t].out = "failed"
  BY <1>1 DEF SameInput, BuildTask
<1> QED
  BY <1>1, <1>2, <1>3, <1>4, <1>5, <1>6

(* A build is over as a success only if its worker exited as one.          *)
LEMMA OutcomeMoves ==
    ASSUME WellFormed, NEW t \in Task, DecideOutcome(t)
    PROVE  /\ Moves(t, "worker", "report") /\ SameWork(t)
           /\ task'[t].out = "completed" => task[t].exit = "ok"
<1>1. task \in [Task -> BuildTask] /\ task[t] \in BuildTask
  BY DEF WellFormed, TypeOK
<1>2. PICK out \in Outcome :
        /\ task' = [task EXCEPT ![t].pc = "report", ![t].out = out]
        /\ out = "completed" => task[t].exit = "ok"
  BY DEF DecideOutcome, Outcome
<1>3. LET x == [task[t] EXCEPT !.pc = "report", !.out = out] IN
      /\ x.pc = "report" /\ x.out = out /\ x.root = task[t].root
      /\ x.input = task[t].input /\ x.persisted = task[t].persisted
      /\ x.exit = task[t].exit
  BY <1>1 DEF BuildTask
<1>4. task[t].pc = "worker"
  BY DEF DecideOutcome
<1>5. Others(t) /\ task'[t] = [task[t] EXCEPT !.pc = "report", !.out = out]
  BY <1>1, <1>2 DEF Others
<1> QED
  BY <1>2, <1>3, <1>4, <1>5 DEF Moves, SameWork, SameInput

(* A worker stays with its build until it exits.                           *)
LEMMA WorkerMoves ==
    ASSUME WellFormed, NEW t \in Task
    PROVE  /\ WorkerReads(t) =>
                /\ Moves(t, task[t].pc, task[t].pc) /\ WorkerAlive(t)
                /\ task'[t].root = task[t].root /\ task[t].input = 0
                /\ task'[t].input = disk[task[t].root].payload
                /\ task'[t].persisted = task[t].persisted
                /\ task'[t].exit = task[t].exit
           /\ WorkerPersists(t) =>
                /\ Moves(t, task[t].pc, task[t].pc) /\ WorkerAlive(t)
                /\ task'[t].root = task[t].root /\ task[t].input # 0
                /\ task'[t].input = task[t].input /\ task'[t].persisted = TRUE
                /\ task'[t].exit = task[t].exit
           /\ WorkerEnds(t) =>
                /\ Others(t) /\ WorkerAlive(t)
                /\ \/ task[t].pc = "orphan" /\ task'[t].pc = "done"
                   \/ /\ task[t].pc = "worker" /\ task'[t].pc = "worker"
                      /\ task'[t].root = task[t].root
                      /\ task'[t].input = task[t].input
                      /\ task'[t].persisted = task[t].persisted
                      /\ task'[t].exit \in {"ok", "error", "signal"}
                      /\ task'[t].exit = "ok" => task[t].persisted
<1>1. task \in [Task -> BuildTask] /\ task[t] \in BuildTask
  BY DEF WellFormed, TypeOK
<1>2. WorkerReads(t) =>
        /\ Moves(t, task[t].pc, task[t].pc) /\ WorkerAlive(t)
        /\ task'[t].root = task[t].root /\ task[t].input = 0
        /\ task'[t].input = disk[task[t].root].payload
        /\ task'[t].persisted = task[t].persisted
        /\ task'[t].exit = task[t].exit
  BY <1>1 DEF WorkerReads, Moves, Others, BuildTask
<1>3. WorkerPersists(t) =>
        /\ Moves(t, task[t].pc, task[t].pc) /\ WorkerAlive(t)
        /\ task'[t].root = task[t].root /\ task[t].input # 0
        /\ task'[t].input = task[t].input /\ task'[t].persisted = TRUE
        /\ task'[t].exit = task[t].exit
  <2>1. ASSUME NEW m
        PROVE  LET x == [task[t] EXCEPT !.persisted = TRUE, !.meta = m] IN
               /\ x.pc = task[t].pc /\ x.root = task[t].root
               /\ x.input = task[t].input /\ x.persisted = TRUE
               /\ x.exit = task[t].exit
    BY <1>1 DEF BuildTask
  <2>2. ASSUME WorkerPersists(t)
        PROVE  /\ Others(t) /\ WorkerAlive(t) /\ task[t].input # 0
               /\ \E m : task'[t] = [task[t] EXCEPT !.persisted = TRUE, !.meta = m]
    <3> DEFINE m == task[t].pc = "worker"
    <3>1. /\ task' = [task EXCEPT ![t].persisted = TRUE, ![t].meta = m]
          /\ WorkerAlive(t) /\ task[t].input # 0
      BY <2>2 DEF WorkerPersists
    <3> HIDE DEF m
    <3> QED
      BY <1>1, <3>1 DEF Others
  <2> QED
    BY <2>1, <2>2 DEF Moves
<1>4. ASSUME NEW status \in {"ok", "error", "signal"}, WorkerAlive(t),
             task' = [task EXCEPT ![t] = Exited(t, status)]
      PROVE  /\ Others(t)
             /\ \/ task[t].pc = "orphan" /\ task'[t].pc = "done"
                \/ /\ task[t].pc = "worker" /\ task'[t].pc = "worker"
                   /\ task'[t].root = task[t].root
                   /\ task'[t].input = task[t].input
                   /\ task'[t].persisted = task[t].persisted
                   /\ task'[t].exit = status
  <2>1. Others(t) /\ task'[t] = Exited(t, status)
    BY <1>1, <1>4 DEF Others
  <2>2. CASE task[t].pc = "orphan"
    BY <2>1, <2>2 DEF Exited, Returned, UnusedTask
  <2>3. CASE task[t].pc = "worker"
    BY <1>1, <2>1, <2>3 DEF Exited, BuildTask
  <2> QED
    BY <1>4, <2>1, <2>2, <2>3 DEF WorkerAlive
<1>5. WorkerEnds(t) =>
        /\ WorkerAlive(t)
        /\ \E status \in {"ok", "error", "signal"} :
             /\ task' = [task EXCEPT ![t] = Exited(t, status)]
             /\ status = "ok" => task[t].persisted
  BY DEF WorkerEnds, WorkerSucceeds, WorkerFails, WorkerInterrupted
<1> QED
  BY <1>2, <1>3, <1>4, <1>5

-----------------------------------------------------------------------------
(* How a request moves                                                     *)

OtherConns(c) == \A d \in Conn \ {c} : conn'[d] = conn[d]
ConnMoves(c, from, to) ==
    OtherConns(c) /\ conn[c].pc = from /\ conn'[c].pc = to
SameRequest(c) == conn'[c].name = conn[c].name /\ conn'[c].req = conn[c].req
Leaves(c) == OtherConns(c) /\ conn'[c].pc = "idle"

(* A request that is accepted is one its connection may bring.             *)
LEMMA AcceptMoves ==
    ASSUME WellFormed, NEW c \in Conn, NEW p \in Project
    PROVE  /\ \A r \in Request : Accept(c, p, r) =>
                /\ ConnMoves(c, "idle", "select")
                /\ conn'[c].name = p /\ conn'[c].req = r
                /\ conn'[c].view = Reconciled(p, state.name)
                /\ <<r, p>> \in Serves[c] /\ r # "upload"
           /\ AcceptUpload(c, p) =>
                /\ ConnMoves(c, "idle", "upload_write")
                /\ conn'[c].name = p /\ conn'[c].req = "upload"
                /\ <<"upload", p>> \in Serves[c]
<1>1. conn \in [Conn -> Connection]
  BY DEF WellFormed, TypeOK
<1>2. ASSUME NEW r \in Request, Accept(c, p, r)
      PROVE  /\ ConnMoves(c, "idle", "select")
             /\ conn'[c].name = p /\ conn'[c].req = r
             /\ conn'[c].view = Reconciled(p, state.name)
             /\ <<r, p>> \in Serves[c] /\ r # "upload"
  BY <1>1, <1>2 DEF Accept, ConnMoves, OtherConns, IdleConnection
<1>3. ASSUME AcceptUpload(c, p)
      PROVE  /\ ConnMoves(c, "idle", "upload_write")
             /\ conn'[c].name = p /\ conn'[c].req = "upload"
             /\ <<"upload", p>> \in Serves[c]
  BY <1>1, <1>3 DEF AcceptUpload, ConnMoves, OtherConns, IdleConnection
<1> QED
  BY <1>2, <1>3

(* A request keeps its project on its way to its effects.                  *)
LEMMA RequestMoves ==
    ASSUME WellFormed, NEW c \in Conn
    PROVE  /\ Select(c) => SameRequest(c) /\ \/ ConnMoves(c, "select", "load")
                                             \/ ConnMoves(c, "select", "request")
           /\ LoadApp(c) => SameRequest(c) /\ ConnMoves(c, "load", "request")
           /\ EndRequest(c) => Leaves(c)
           /\ \A t \in Task : RequestBuild(c, t) \/ RequestCancel(c, t) =>
                /\ SameRequest(c) /\ ConnMoves(c, "request", "effect")
                /\ conn'[c].build = t
           /\ SpawnBuild(c) \/ CancelActiveBuild(c) => Leaves(c)
           /\ WriteUpload(c) =>
                SameRequest(c) /\ ConnMoves(c, "upload_write", "upload_context")
           /\ SetUploadContext(c) =>
                SameRequest(c) /\ ConnMoves(c, "upload_context", "upload_land")
           /\ LandUpload(c) => Leaves(c)
<1>1. conn \in [Conn -> Connection] /\ conn[c] \in Connection
  BY DEF WellFormed, TypeOK
<1>2. \A pc : LET x == [conn[c] EXCEPT !.pc = pc] IN
        x.pc = pc /\ x.name = conn[c].name /\ x.req = conn[c].req
  BY <1>1 DEF Connection
<1>3. \A pc, v : LET x == [conn[c] EXCEPT !.pc = pc, !.view = v] IN
        x.pc = pc /\ x.name = conn[c].name /\ x.req = conn[c].req
  BY <1>1 DEF Connection
<1>4. \A pc, t : LET x == [conn[c] EXCEPT !.pc = pc, !.build = t] IN
        x.pc = pc /\ x.name = conn[c].name /\ x.req = conn[c].req /\ x.build = t
  BY <1>1 DEF Connection
<1>5. \A pc, b : LET x == [conn[c] EXCEPT !.pc = pc, !.on_disk = b] IN
        x.pc = pc /\ x.name = conn[c].name /\ x.req = conn[c].req
  BY <1>1 DEF Connection
<1>6. conn' = [conn EXCEPT ![c] = IdleConnection] => Leaves(c)
  BY <1>1 DEF Leaves, OtherConns, IdleConnection
<1>7. Select(c) => SameRequest(c) /\ \/ ConnMoves(c, "select", "load")
                                     \/ ConnMoves(c, "select", "request")
  BY <1>1, <1>3 DEF Select, ConnMoves, OtherConns, SameRequest
<1>8. LoadApp(c) => SameRequest(c) /\ ConnMoves(c, "load", "request")
  BY <1>1, <1>2 DEF LoadApp, ConnMoves, OtherConns, SameRequest
<1>9. ASSUME NEW t \in Task, RequestBuild(c, t) \/ RequestCancel(c, t)
      PROVE  /\ SameRequest(c) /\ ConnMoves(c, "request", "effect")
             /\ conn'[c].build = t
  <2>1. /\ conn' = [conn EXCEPT ![c].pc = "effect", ![c].build = t]
        /\ conn[c].pc = "request"
    BY <1>9 DEF RequestBuild, RequestCancel
  <2> QED
    BY <1>1, <1>4, <2>1 DEF ConnMoves, OtherConns, SameRequest
<1>10. WriteUpload(c) =>
         SameRequest(c) /\ ConnMoves(c, "upload_write", "upload_context")
  BY <1>1, <1>2 DEF WriteUpload, ConnMoves, OtherConns, SameRequest
<1>11. ASSUME SetUploadContext(c)
       PROVE  SameRequest(c) /\ ConnMoves(c, "upload_context", "upload_land")
  <2>1. conn[c].pc = "upload_context"
    BY <1>11 DEF SetUploadContext
  <2>2. PICK b : conn' = [conn EXCEPT ![c].pc = "upload_land", ![c].on_disk = b]
    BY <1>11, Zenon DEF SetUploadContext
  <2> QED
    BY <1>1, <1>5, <2>1, <2>2 DEF ConnMoves, OtherConns, SameRequest
<1>12. EndRequest(c) \/ SpawnBuild(c) \/ CancelActiveBuild(c) \/ LandUpload(c)
         => Leaves(c)
  BY <1>6 DEF EndRequest, SpawnBuild, CancelActiveBuild, LandUpload
<1> QED
  BY <1>7, <1>8, <1>9, <1>10, <1>11, <1>12

-----------------------------------------------------------------------------
(* What an event does to the selection, the build and its exemptions       *)

SameBuild(s, t) ==
    t.name = s.name /\ t.build = s.build /\ t.exemptions = s.exemptions

(* The events of a build and of an upload leave the selection alone.       *)
LEMMA BuildEventsKeep ==
    ASSUME NEW s \in ServerState
    PROVE  /\ BuildRequested(s).name = s.name /\ BuildRequested(s).build = "Building"
           /\ \A f : SameBuild(s, BuildMetadata(s, f))
           /\ \A u : /\ BuildCompleted(s, u).name = s.name
                     /\ BuildCompleted(s, u).build = "Built"
                     /\ BuildCompleted(s, u).exemptions = u
           /\ \A u : /\ BuildFailed(s, u).name = s.name
                     /\ BuildFailed(s, u).build = "Failed"
           /\ BuildCancelledEvent(s).name = s.name
           /\ BuildCancelledEvent(s).build = "None"
           /\ GpuCheckFailed(s).name = s.name /\ GpuCheckFailed(s).build = "Failed"
           /\ \A p : /\ SetProjectContext(s, p).name = p
                     /\ SetProjectContext(s, p).build = s.build
                     /\ SetProjectContext(s, p).exemptions = s.exemptions
BY DEF ServerState, SameBuild, BuildRequested, BuildMetadata, BuildCompleted,
       BuildFailed, BuildCancelledEvent, GpuCheckFailed, SetProjectContext

(* An upload takes the build with it, unless one is in flight.             *)
LEMMA UploadKeeps ==
    ASSUME NEW s \in ServerState, NEW u, NEW d, NEW p, NEW has_data, NEW has_param
    PROVE  LET t == UploadLanded(s, u, d, p, has_data, has_param) IN
           /\ t.name = s.name
           /\ t.build = IF s.build = "Building" THEN "Building" ELSE "None"
BY DEF ServerState, UploadLanded

(* A selection of the project there is keeps the build; the first one      *)
(* takes it from the disk.                                                 *)
LEMMA SelectKeeps ==
    ASSUME OneProject, WellFormed, NEW c \in Conn, Select(c)
    PROVE  /\ state'.name \in Project
           /\ \/ SameBuild(state, state')
              \/ /\ state.name = NoProject
                 /\ state'.build = IF conn[c].view.has_app THEN "Built" ELSE "None"
<1> DEFINE view == conn[c].view
<1>1. state \in ServerState /\ view \in DiskView /\ view.name \in Project
  BY DEF WellFormed, TypeOK, ConnWellFormed, Select, DiskView
<1>2. state.name \in Project \cup {NoProject}
  BY <1>1 DEF ServerState
<1>3. state' = ProjectSelected(state, view)
  BY DEF Select
<1>4. CASE view.name = state.name
  <2>1. state' = RefreshProject(state, view)
    BY <1>3, <1>4 DEF ProjectSelected
  <2> QED
    BY <1>1, <1>4, <2>1 DEF RefreshProject, SameBuild, ServerState
<1>5. CASE view.name # state.name
  <2>1. state' = SwitchProject(state, view)
    BY <1>3, <1>5 DEF ProjectSelected
  <2>2. state'.name = view.name
    BY <2>1 DEF SwitchProject, DefaultState
  <2>3. state'.build = IF view.has_app THEN "Built" ELSE "None"
    BY <2>1 DEF SwitchProject, DefaultState
  <2>4. state.name = NoProject
    BY <1>1, <1>2, <1>5 DEF OneProject
  <2> QED
    BY <1>1, <2>2, <2>3, <2>4
<1> QED
  BY <1>4, <1>5

-----------------------------------------------------------------------------
(* The lock holds                                                          *)

(* Where no connection may delete, no delete is carried out.               *)
LEMMA NoDeletes ==
    ASSUME NeverDeleted, GuardInv, NEW c \in Conn
    PROVE  ~RequestDelete(c) /\ ~DeleteProjectData(c)
<1>1. conn[c].pc # "idle" =>
        conn[c].name \in Project /\ <<conn[c].req, conn[c].name>> \in Serves[c]
  BY DEF GuardInv, RequestsAreServed
<1>2. RequestDelete(c) \/ DeleteProjectData(c) =>
        conn[c].pc # "idle" /\ conn[c].req = "delete"
  BY DEF RequestDelete, DeleteProjectData
<1> QED
  BY <1>1, <1>2 DEF NeverDeleted

(* A server that goes down takes its requests and its builds with it; at   *)
(* most the worker of a build goes on.                                     *)
LEMMA GoneIsQuiet ==
    ASSUME WellFormed, IdleStop \/ Shutdown
    PROVE  /\ state' = DefaultState /\ \A c \in Conn : conn'[c].pc = "idle"
           /\ \A t \in Task :
                /\ task'[t].pc \in {"unused", "orphan", "done"}
                /\ WorkerAlive(t)' => WorkerAlive(t)
           /\ server' # "up"
<1>1. PICK why \in {"idle_stop", "shutdown"} : Abandon(why)
  BY DEF IdleStop, Shutdown
<1>2. ASSUME NEW t \in Task
      PROVE  /\ task'[t].pc \in {"unused", "orphan", "done"}
             /\ WorkerAlive(t)' => WorkerAlive(t)
  <2>1. task[t] \in BuildTask
    BY DEF WellFormed, TypeOK
  <2>2. task'[t] = IF task[t].pc = "unused" THEN task[t]
                   ELSE IF WorkerAlive(t)
                   THEN [task[t] EXCEPT !.pc = "orphan", !.meta = FALSE]
                   ELSE Returned(t)
    BY <1>1, Zenon DEF Abandon
  <2>3. CASE task[t].pc = "unused"
    BY <2>2, <2>3 DEF WorkerAlive
  <2>4. CASE task[t].pc # "unused" /\ WorkerAlive(t)
    BY <2>1, <2>2, <2>4 DEF BuildTask
  <2>5. CASE task[t].pc # "unused" /\ ~WorkerAlive(t)
    BY <2>2, <2>5 DEF Returned, UnusedTask, WorkerAlive
  <2> QED
    BY <2>3, <2>4, <2>5
<1> QED
  BY <1>1, <1>2 DEF Abandon, IdleConnection

(* Only a build request puts another build in flight.                      *)
LEMMA OnlyRequestsFly ==
    ASSUME WellFormed, GuardInv, [Next]_vars, NEW u \in Task,
           InFlight(u)', ~InFlight(u)
    PROVE  \E c \in Conn : RequestBuild(c, u)
<1>1. task'[u] # task[u]
  BY DEF InFlight
<1>2. ASSUME NEW t \in Task, TaskStep(t)
      PROVE  FALSE
  <2>1. CASE BeginBuild(t)
    BY <1>1, <2>1, BeginMoves DEF Others, InFlight
  <2>2. CASE DecideOutcome(t)
    BY <1>1, <2>2, OutcomeMoves DEF Moves, Others, InFlight
  <2>3. CASE ReportGpuFailure(t) \/ ReportBuild(t) \/ ClearHandle(t)
    BY <1>1, <2>3, BuildMoves DEF Moves, Others, InFlight
  <2>4. CASE ObserveCancel(t) \/ ReadMetadata(t)
    BY <1>1, <2>4, BuildMoves DEF Moves, Others, InFlight
  <2> QED
    BY <1>2, <2>1, <2>2, <2>3, <2>4 DEF TaskStep
<1>3. ASSUME NEW t \in Task, WorkerStep(t)
      PROVE  FALSE
  <2>1. CASE WorkerReads(t) \/ WorkerPersists(t)
    BY <1>1, <2>1, WorkerMoves DEF Moves, Others, InFlight
  <2>2. CASE WorkerEnds(t)
    BY <1>1, <2>2, WorkerMoves DEF Others, InFlight
  <2> QED
    BY <1>3, <2>1, <2>2 DEF WorkerStep
<1>4. ASSUME NEW c \in Conn, SpawnBuild(c)
      PROVE  FALSE
  <2>1. conn[c].build \in Task /\ task[conn[c].build].pc = "requested"
    BY <1>4 DEF GuardInv, SpawnsAreOwned, SpawnsItsOwn, SpawnBuild, WellFormed,
                ConnWellFormed
  <2>2. task' = [task EXCEPT ![conn[c].build].pc = "scheduled"]
    BY <1>4 DEF SpawnBuild
  <2> QED
    BY <1>1, <2>1, <2>2 DEF InFlight, WellFormed, TypeOK
<1>5. CASE IdleStop \/ Shutdown
  BY <1>5, GoneIsQuiet DEF InFlight
<1>6. ASSUME NEW c \in Conn, NEW t \in Task, RequestBuild(c, t)
      PROVE  t = u
  BY <1>1, <1>6, BuildMoves DEF Moves, Others
<1>7. \/ UNCHANGED task \/ IdleStop \/ Shutdown
      \/ \E t \in Task : TaskStep(t) \/ WorkerStep(t)
      \/ \E c \in Conn : SpawnBuild(c) \/ \E t \in Task : RequestBuild(c, t)
  BY DEF Next, ConnStep, vars, AcceptUpload, Accept, Select, LoadApp, EndRequest,
         RequestCancel, RequestDelete, CancelActiveBuild, DeleteProjectData,
         WriteUpload, SetUploadContext, LandUpload, Restart
<1> QED
  BY <1>1, <1>2, <1>3, <1>4, <1>5, <1>6, <1>7

(* A request stays one that its connection may bring.                      *)
LEMMA RequestsStep ==
    ASSUME WellFormed, GuardInv, NeverDeleted, [Next]_vars
    PROVE  RequestsAreServed'
<1>1. RequestsAreServed
  BY DEF GuardInv
<1>2. ASSUME NEW c \in Conn, NEW p \in Project, NEW r \in Request, Accept(c, p, r)
      PROVE  RequestsAreServed'
  <2>1. /\ OtherConns(c) /\ conn'[c].pc = "select"
        /\ conn'[c].name = p /\ conn'[c].req = r /\ <<r, p>> \in Serves[c]
    BY <1>2, AcceptMoves DEF ConnMoves
  <2> QED
    BY <1>1, <2>1 DEF RequestsAreServed, OtherConns, UploadPc
<1>3. ASSUME NEW c \in Conn, NEW p \in Project, AcceptUpload(c, p)
      PROVE  RequestsAreServed'
  <2>1. /\ OtherConns(c) /\ conn'[c].pc = "upload_write"
        /\ conn'[c].name = p /\ conn'[c].req = "upload"
        /\ <<"upload", p>> \in Serves[c]
    BY <1>3, AcceptMoves DEF ConnMoves
  <2> QED
    BY <1>1, <2>1 DEF RequestsAreServed, OtherConns, UploadPc
<1>4. ASSUME NEW c \in Conn, Leaves(c)
      PROVE  RequestsAreServed'
  BY <1>1, <1>4 DEF RequestsAreServed, Leaves, OtherConns, UploadPc
<1>5. ASSUME NEW c \in Conn, NEW from, NEW to, SameRequest(c),
             ConnMoves(c, from, to), from # "idle",
             to \in UploadPc => from \in UploadPc
      PROVE  RequestsAreServed'
  BY <1>1, <1>5 DEF RequestsAreServed, SameRequest, ConnMoves, OtherConns
<1>6. ASSUME NEW c \in Conn, ConnStep(c)
      PROVE  RequestsAreServed'
  <2>1. CASE \/ Select(c) \/ LoadApp(c) \/ WriteUpload(c) \/ SetUploadContext(c)
             \/ \E t \in Task : RequestBuild(c, t) \/ RequestCancel(c, t)
    BY <2>1, <1>5, RequestMoves DEF UploadPc
  <2>2. CASE EndRequest(c) \/ SpawnBuild(c) \/ CancelActiveBuild(c) \/ LandUpload(c)
    BY <2>2, <1>4, RequestMoves
  <2> QED
    BY <1>6, <2>1, <2>2, NoDeletes DEF ConnStep
<1>7. CASE IdleStop \/ Shutdown
  BY <1>7, GoneIsQuiet DEF RequestsAreServed, UploadPc
<1>8. CASE UNCHANGED conn
  BY <1>1, <1>8 DEF RequestsAreServed
<1>9. ASSUME NEW t \in Task, TaskStep(t) \/ WorkerStep(t)
      PROVE  UNCHANGED conn
  BY <1>9 DEF TaskStep, WorkerStep, WorkerEnds, BeginBuild, ReportGpuFailure,
              ObserveCancel, ReadMetadata, DecideOutcome, ReportBuild,
              ClearHandle, WorkerReads, WorkerPersists, WorkerSucceeds,
              WorkerFails, WorkerInterrupted
<1> QED
  BY <1>2, <1>3, <1>6, <1>7, <1>8, <1>9 DEF Next, Restart, vars

(* The state's name and build, by the kind of step: nothing un-selects a   *)
(* project but the end of the server, and only the end of a build or an    *)
(* upload without one, a selection or a request moves the build.           *)
LEMMA BuildChanges ==
    ASSUME WellFormed, GuardInv, OneProject, NeverDeleted, [Next]_vars
    PROVE  \/ state'.name = state.name /\ state'.build = state.build
           \/ /\ state' = DefaultState /\ server' # "up"
              /\ \A c \in Conn : conn'[c].pc = "idle"
              /\ \A t \in Task : ~InFlight(t)'
           \/ \E c \in Conn : Select(c) /\ state'.name \in Project
                /\ (state'.build = state.build \/ state.name = NoProject)
           \/ \E c \in Conn : /\ LoadApp(c) \/ SetUploadContext(c)
                              /\ state'.name \in Project /\ state'.build = state.build
           \/ \E c \in Conn : LandUpload(c) /\ state'.name = state.name
                /\ state'.build = IF state.build = "Building" THEN "Building" ELSE "None"
           \/ \E c \in Conn, t \in Task : RequestBuild(c, t)
                /\ state'.name = state.name /\ state'.build = "Building"
           \/ \E t \in Task : (ReportGpuFailure(t) \/ ReportBuild(t))
                /\ InFlight(t) /\ state'.name = state.name
<1>1. state \in ServerState
  BY DEF WellFormed, TypeOK
<1>2. \A c \in Conn : Select(c) =>
        /\ state'.name \in Project
        /\ state'.build = state.build \/ state.name = NoProject
  BY SelectKeeps DEF SameBuild
<1>3. ASSUME NEW c \in Conn, LoadApp(c) \/ SetUploadContext(c)
      PROVE  state'.name \in Project /\ state'.build = state.build
  <2>1. conn[c].name \in Project /\ state' = SetProjectContext(state, conn[c].name)
    BY <1>3 DEF LoadApp, SetUploadContext, GuardInv, RequestsAreServed
  <2> QED
    BY <1>1, <2>1, BuildEventsKeep
<1>4. ASSUME NEW c \in Conn, LandUpload(c)
      PROVE  /\ state'.name = state.name
             /\ state'.build = IF state.build = "Building" THEN "Building" ELSE "None"
  BY <1>1, <1>4, UploadKeeps DEF LandUpload
<1>5. ASSUME NEW c \in Conn, NEW t \in Task, RequestBuild(c, t)
      PROVE  state'.name = state.name /\ state'.build = "Building"
  BY <1>1, <1>5, BuildEventsKeep DEF RequestBuild
<1>6. ASSUME NEW t \in Task, ReportGpuFailure(t) \/ ReportBuild(t)
      PROVE  InFlight(t) /\ state'.name = state.name
  <2>1. \/ state' = GpuCheckFailed(state) \/ state' = BuildCancelledEvent(state)
        \/ \E u : state' = BuildCompleted(state, u) \/ state' = BuildFailed(state, u)
    BY <1>6 DEF ReportGpuFailure, ReportBuild
  <2> QED
    BY <1>1, <1>6, <2>1, BuildEventsKeep DEF ReportGpuFailure, ReportBuild, InFlight
<1>7. ASSUME NEW t \in Task, ReadMetadata(t)
      PROVE  state'.name = state.name /\ state'.build = state.build
  BY <1>1, <1>7, BuildEventsKeep DEF ReadMetadata, SameBuild
<1>8. CASE IdleStop \/ Shutdown
  BY <1>8, GoneIsQuiet DEF InFlight
<1>9. \/ UNCHANGED state \/ IdleStop \/ Shutdown
      \/ \E c \in Conn : \/ Select(c) \/ LoadApp(c) \/ SetUploadContext(c) \/ LandUpload(c)
                         \/ \E t \in Task : RequestBuild(c, t)
      \/ \E t \in Task : ReportGpuFailure(t) \/ ReportBuild(t) \/ ReadMetadata(t)
  BY NoDeletes
     DEF Next, ConnStep, TaskStep, WorkerStep, WorkerEnds, vars, AcceptUpload, Accept,
         EndRequest, RequestCancel, SpawnBuild, CancelActiveBuild, WriteUpload,
         BeginBuild, ObserveCancel, DecideOutcome, ClearHandle, WorkerReads,
         WorkerPersists, WorkerSucceeds, WorkerFails, WorkerInterrupted, Restart
<1> QED
  BY <1>2, <1>3, <1>4, <1>5, <1>6, <1>7, <1>8, <1>9

(* Nothing un-selects a project but the end of the server.                 *)
LEMMA NameStays ==
    ASSUME WellFormed, GuardInv, OneProject, NeverDeleted, [Next]_vars,
           \E c \in Conn : conn'[c].pc # "idle", state.name # NoProject
    PROVE  state'.name # NoProject
BY BuildChanges, TransitionsAssumption

(* A request reaches its event over the selection of its project.          *)
LEMMA SelectionStep ==
    ASSUME WellFormed, GuardInv, OneProject, NeverDeleted, [Next]_vars
    PROVE  SelectionIsKnown'
<1> DEFINE Past == {"request", "effect", "upload_land"}
<1> SUFFICES ASSUME NEW c \in Conn, conn'[c].pc \in Past
             PROVE  state'.name # NoProject
  BY DEF SelectionIsKnown
<1>1. CASE conn[c].pc \in Past
  BY <1>1, NameStays DEF GuardInv, SelectionIsKnown
<1>2. CASE conn[c].pc \notin Past
  <2>1. conn'[c] # conn[c] /\ conn'[c].pc # "idle"
    BY <1>2
  <2>2. ASSUME NEW d \in Conn, NEW p \in Project, NEW r \in Request, Accept(d, p, r)
        PROVE  FALSE
    <3>1. OtherConns(d) /\ conn'[d].pc = "select"
      BY <2>2, AcceptMoves DEF ConnMoves
    <3> QED
      BY <2>1, <3>1 DEF OtherConns
  <2>3. ASSUME NEW d \in Conn, NEW p \in Project, AcceptUpload(d, p)
        PROVE  FALSE
    BY <2>1, <2>3, AcceptMoves DEF OtherConns, ConnMoves
  <2>4. ASSUME NEW d \in Conn, ConnStep(d)
        PROVE  state'.name # NoProject
    <3>1. CASE Select(d) \/ LoadApp(d) \/ SetUploadContext(d)
      <4>1. CASE Select(d)
        BY <4>1, SelectKeeps, TransitionsAssumption
      <4>2. CASE LoadApp(d) \/ SetUploadContext(d)
        <5>1. /\ state \in ServerState /\ conn[d].name \in Project
              /\ state' = SetProjectContext(state, conn[d].name)
          BY <4>2 DEF WellFormed, TypeOK, LoadApp, SetUploadContext, GuardInv,
                      RequestsAreServed
        <5> QED
          BY <5>1, BuildEventsKeep, TransitionsAssumption
      <4> QED
        BY <3>1, <4>1, <4>2
    <3>2. CASE \E t \in Task : RequestBuild(d, t) \/ RequestCancel(d, t)
      BY <1>2, <2>1, <3>2, RequestMoves DEF ConnMoves, OtherConns
    <3>3. CASE \/ EndRequest(d) \/ SpawnBuild(d) \/ CancelActiveBuild(d)
               \/ WriteUpload(d) \/ LandUpload(d)
      BY <2>1, <3>3, RequestMoves DEF Leaves, ConnMoves, OtherConns
    <3> QED
      BY <2>4, <3>1, <3>2, <3>3, NoDeletes DEF ConnStep
  <2>5. CASE IdleStop \/ Shutdown
    BY <2>1, <2>5, GoneIsQuiet
  <2>6. ASSUME NEW t \in Task, TaskStep(t) \/ WorkerStep(t)
        PROVE  UNCHANGED conn
    BY <2>6 DEF TaskStep, WorkerStep, WorkerEnds, BeginBuild, ReportGpuFailure,
                ObserveCancel, ReadMetadata, DecideOutcome, ReportBuild,
                ClearHandle, WorkerReads, WorkerPersists, WorkerSucceeds,
                WorkerFails, WorkerInterrupted
  <2> QED
    BY <2>1, <2>2, <2>3, <2>4, <2>5, <2>6 DEF Next, Restart, vars
<1> QED
  BY <1>1, <1>2

(* A build is only ever of a project that is selected.                     *)
LEMMA NamedStep ==
    ASSUME WellFormed, GuardInv, OneProject, NeverDeleted, [Next]_vars
    PROVE  NamedUnlessNew'
<1> SUFFICES ASSUME state'.name = NoProject
             PROVE  state'.build = "None"
  BY DEF NamedUnlessNew
<1>1. state.name = NoProject => state.build = "None"
  BY DEF GuardInv, NamedUnlessNew
<1>2. ASSUME NEW c \in Conn, NEW t \in Task, RequestBuild(c, t)
      PROVE  state.name # NoProject
  BY <1>2 DEF GuardInv, SelectionIsKnown, RequestBuild
<1>3. \A t \in Task : InFlight(t) => state.name # NoProject
  BY <1>1 DEF GuardInv, InFlightIsBuilding
<1>4. DefaultState.build = "None" /\ NoProject \notin Project
  BY TransitionsAssumption DEF DefaultState
<1>5. \/ state'.name = state.name /\ state'.build \in {state.build, "None"}
      \/ state' = DefaultState
      \/ state'.name \in Project
      \/ state.name # NoProject /\ state'.name = state.name
  <2>1. ASSUME NEW c \in Conn,
               state'.build = IF state.build = "Building" THEN "Building" ELSE "None"
        PROVE  state'.build \in {state.build, "None"}
    BY <2>1
  <2> QED
    BY <1>2, <1>3, <2>1, BuildChanges
<1> QED
  BY <1>1, <1>4, <1>5

(* A spawn still finds the build it was accepted with.                     *)
LEMMA SpawnsStep ==
    ASSUME WellFormed, GuardInv, NeverDeleted, [Next]_vars
    PROVE  SpawnsAreOwned'
<1>1. SpawnsAreOwned /\ \A c \in Conn : SpawnsItsOwn(c) => conn[c].build \in Task
  BY DEF GuardInv, WellFormed, ConnWellFormed, SpawnsItsOwn
<1>2. ASSUME UNCHANGED conn,
             \A t \in Task : task[t].pc = "requested" => task'[t] = task[t]
      PROVE  SpawnsAreOwned'
  BY <1>1, <1>2 DEF SpawnsAreOwned, SpawnsItsOwn
<1>3. ASSUME NEW c \in Conn, OtherConns(c), ~SpawnsItsOwn(c)', UNCHANGED task
      PROVE  SpawnsAreOwned'
  BY <1>1, <1>3 DEF SpawnsAreOwned, SpawnsItsOwn, OtherConns
<1>4. ASSUME NEW c \in Conn, NEW t \in Task, RequestBuild(c, t)
      PROVE  SpawnsAreOwned'
  <2>1. /\ OtherConns(c) /\ conn'[c].build = t
        /\ Others(t) /\ task[t].pc = "unused" /\ task'[t].pc = "requested"
    BY <1>4, RequestMoves, BuildMoves DEF ConnMoves, Moves
  <2> QED
    BY <1>1, <2>1 DEF SpawnsAreOwned, SpawnsItsOwn, OtherConns, Others
<1>5. ASSUME NEW c \in Conn, SpawnBuild(c)
      PROVE  SpawnsAreOwned'
  <2>1. Leaves(c) /\ SpawnsItsOwn(c)
        /\ task' = [task EXCEPT ![conn[c].build].pc = "scheduled"]
    BY <1>5, RequestMoves DEF SpawnBuild, SpawnsItsOwn
  <2>2. \A t \in Task \ {conn[c].build} : task'[t] = task[t]
    BY <2>1 DEF WellFormed, TypeOK
  <2> QED
    BY <1>1, <2>1, <2>2 DEF SpawnsAreOwned, SpawnsItsOwn, OtherConns, Leaves
<1>6. ASSUME NEW t \in Task, TaskStep(t) \/ WorkerStep(t)
      PROVE  SpawnsAreOwned'
  <2>1. UNCHANGED conn
    BY <1>6 DEF TaskStep, WorkerStep, WorkerEnds, BeginBuild, ReportGpuFailure,
                ObserveCancel, ReadMetadata, DecideOutcome, ReportBuild,
                ClearHandle, WorkerReads, WorkerPersists, WorkerSucceeds,
                WorkerFails, WorkerInterrupted
  <2>2. Others(t) /\ task[t].pc # "requested"
    BY <1>6, BuildMoves, BeginMoves, OutcomeMoves, WorkerMoves
       DEF TaskStep, WorkerStep, Moves, WorkerAlive
  <2> QED
    BY <1>2, <2>1, <2>2 DEF Others
<1>7. ASSUME NEW c \in Conn, ConnStep(c), ~SpawnBuild(c),
             ~\E t \in Task : RequestBuild(c, t)
      PROVE  SpawnsAreOwned'
  <2>1. UNCHANGED task
    BY <1>7, NoDeletes
       DEF ConnStep, Select, LoadApp, EndRequest, RequestCancel, CancelActiveBuild,
           WriteUpload, SetUploadContext, LandUpload
  <2>2. OtherConns(c) /\ ~SpawnsItsOwn(c)'
    <3>1. \A t \in Task : RequestCancel(c, t) => conn[c].req = "cancel_build"
      BY DEF RequestCancel
    <3> QED
      BY <1>7, <3>1, NoDeletes, RequestMoves
         DEF ConnStep, ConnMoves, Leaves, SameRequest, SpawnsItsOwn
  <2> QED
    BY <1>3, <2>1, <2>2
<1>8. ASSUME NEW c \in Conn, NEW p \in Project,
             AcceptUpload(c, p) \/ \E r \in Request : Accept(c, p, r)
      PROVE  SpawnsAreOwned'
  <2>1. UNCHANGED task
    BY <1>8 DEF AcceptUpload, Accept
  <2>2. OtherConns(c) /\ ~SpawnsItsOwn(c)'
    BY <1>8, AcceptMoves DEF ConnMoves, SpawnsItsOwn
  <2> QED
    BY <1>3, <2>1, <2>2
<1>9. CASE IdleStop \/ Shutdown
  BY <1>9, GoneIsQuiet DEF SpawnsAreOwned, SpawnsItsOwn
<1>10. CASE Restart \/ UNCHANGED vars
  BY <1>2, <1>10 DEF Restart, vars
<1> QED
  BY <1>4, <1>5, <1>6, <1>7, <1>8, <1>9, <1>10 DEF Next

(* A build in flight keeps the state BUILDING, and is the only one.        *)
LEMMA LockStep ==
    ASSUME WellFormed, GuardInv, OneProject, NeverDeleted, [Next]_vars
    PROVE  InFlightIsBuilding' /\ OneInFlight'
<1>1. /\ \A t \in Task : InFlight(t) => state.build = "Building"
      /\ \A t, u \in Task : InFlight(t) /\ InFlight(u) => t = u
      /\ state.build = "Building" => state.name # NoProject
  BY DEF GuardInv, InFlightIsBuilding, OneInFlight, NamedUnlessNew
<1>2. ASSUME NEW u \in Task, NEW c \in Conn, RequestBuild(c, u)
      PROVE  /\ state'.build = "Building" /\ \A t \in Task : ~InFlight(t)
             /\ \A t \in Task \ {u} : ~InFlight(t)'
  <2>1. state \in ServerState /\ state' = BuildRequested(state)
        /\ state.build # "Building" /\ Others(u)
    BY <1>2, BuildMoves DEF RequestBuild, CanBuild, Moves, WellFormed, TypeOK
  <2>2. \A t \in Task : ~InFlight(t)
    BY <1>1, <2>1
  <2>3. \A t \in Task \ {u} : ~InFlight(t)'
    BY <2>1, <2>2 DEF Others, InFlight
  <2> QED
    BY <2>1, <2>2, <2>3, BuildEventsKeep
<1>3. ASSUME NEW t \in Task, ReportGpuFailure(t) \/ ReportBuild(t)
      PROVE  InFlight(t) /\ ~InFlight(t)'
  BY <1>3, BuildMoves DEF Moves, InFlight
<1>4. ASSUME NEW u \in Task, InFlight(u)', InFlight(u)
      PROVE  state'.build = "Building"
  <2>1. state.build = "Building" /\ state.name # NoProject
    BY <1>1, <1>4
  <2>2. \A t \in Task : ReportGpuFailure(t) \/ ReportBuild(t) => FALSE
    BY <1>1, <1>3, <1>4
  <2> QED
    BY <1>4, <2>1, <2>2, BuildChanges
<1>5. InFlightIsBuilding'
  BY <1>2, <1>4, OnlyRequestsFly DEF InFlightIsBuilding
<1>6. ASSUME NEW t \in Task, NEW u \in Task, InFlight(t)', InFlight(u)'
      PROVE  t = u
  BY <1>1, <1>2, <1>6, OnlyRequestsFly
<1> QED
  BY <1>5, <1>6 DEF OneInFlight

(* Nothing happens in a server that is down but the end of its orphans.    *)
LEMMA DownStep ==
    ASSUME WellFormed, GuardInv, NeverDeleted, [Next]_vars
    PROVE  DownIsQuiet'
<1> SUFFICES ASSUME server' # "up"
             PROVE  /\ \A c \in Conn : conn'[c].pc = "idle"
                    /\ \A t \in Task : ~InFlight(t)'
  BY DEF DownIsQuiet
<1>1. CASE IdleStop \/ Shutdown
  BY <1>1, GoneIsQuiet DEF InFlight
<1>2. CASE ~IdleStop /\ ~Shutdown
  <2>1. \/ server # "up"
        \/ \E c \in Conn : ConnStep(c)
        \/ \E t \in Task : TaskStep(t) \/ WorkerStep(t)
    <3>1. ASSUME NEW c \in Conn, NEW p \in Project,
                 AcceptUpload(c, p) \/ \E r \in Request : Accept(c, p, r)
          PROVE  FALSE
      BY <3>1 DEF AcceptUpload, Accept
    <3>2. ~Restart
      BY DEF Restart
    <3>3. UNCHANGED vars => server # "up"
      BY DEF vars
    <3> QED
      BY <1>2, <3>1, <3>2, <3>3 DEF Next
  <2>2. (\E c \in Conn : ConnStep(c)) => server' = server
    BY DEF ConnStep, Select, LoadApp, EndRequest, RequestBuild, RequestCancel,
           RequestDelete, SpawnBuild, CancelActiveBuild, DeleteProjectData,
           WriteUpload, SetUploadContext, LandUpload
  <2>3. ASSUME NEW t \in Task, TaskStep(t) \/ WorkerStep(t)
        PROVE  server' = server /\ conn' = conn
    BY <2>3
       DEF TaskStep, WorkerStep, WorkerEnds, BeginBuild, ReportGpuFailure,
           ObserveCancel, ReadMetadata, DecideOutcome, ReportBuild, ClearHandle,
           WorkerReads, WorkerPersists, WorkerSucceeds, WorkerFails,
           WorkerInterrupted
  <2>4. server # "up"
    BY <2>1, <2>2, <2>3
  <2>5. \A c \in Conn : conn[c].pc = "idle"
    BY <2>4 DEF GuardInv, DownIsQuiet
  <2>6. \A t \in Task : ~InFlight(t)
    BY <2>4 DEF GuardInv, DownIsQuiet
  <2>7. \A c \in Conn : ~ConnStep(c)
    BY <2>5
       DEF ConnStep, Select, LoadApp, EndRequest, RequestBuild, RequestCancel,
           RequestDelete, SpawnBuild, CancelActiveBuild, DeleteProjectData,
           WriteUpload, SetUploadContext, LandUpload
  <2>8. conn' = conn
    BY <1>2, <2>3, <2>4, <2>7 DEF Next, Accept, AcceptUpload, Restart, vars
  <2>9. \A c \in Conn : \A t \in Task : ~RequestBuild(c, t)
    BY <2>5 DEF RequestBuild
  <2> QED
    BY <2>5, <2>6, <2>8, <2>9, OnlyRequestsFly
<1> QED
  BY <1>1, <1>2

(* The lock is kept by every step.                                         *)
LEMMA GuardStep ==
    ASSUME WellFormed, GuardInv, OneProject, NeverDeleted, [Next]_vars
    PROVE  GuardInv'
BY RequestsStep, SelectionStep, NamedStep, SpawnsStep, LockStep, DownStep
   DEF GuardInv

(* The lock is free at the start.                                          *)
LEMMA GuardInit == Init => GuardInv
<1> SUFFICES ASSUME Init PROVE GuardInv
  OBVIOUS
<1>1. /\ \A c \in Conn : conn[c].pc = "idle"
      /\ \A t \in Task : task[t].pc = "unused"
      /\ state.build = "None" /\ server = "up"
  BY DEF Init, IdleConnection, UnusedTask, DefaultState
<1> QED
  BY <1>1
     DEF GuardInv, RequestsAreServed, SelectionIsKnown, NamedUnlessNew,
         SpawnsAreOwned, SpawnsItsOwn, InFlightIsBuilding, OneInFlight,
         DownIsQuiet, InFlight, UploadPc

(* One project, never deleted: an idle stop never ends a server with a     *)
(* build in flight, for any clients, builds and restarts                   *)
(* (engine.rs:189, work_in_progress).                                      *)
THEOREM IdleStopIsSafe ==
    Spec /\ OneProject /\ NeverDeleted => IdleStopSparesBuilds
<1>1. GuardInv /\ [Next]_vars
        => [server' = "idle_stop" /\ server = "up"
              => \A t \in Task : ~InFlight(t)]_vars
  <2> SUFFICES ASSUME GuardInv, Next, server' = "idle_stop", server = "up"
               PROVE  \A t \in Task : ~InFlight(t)
    OBVIOUS
  <2>1. IdleStop
    BY DEF Next, ConnStep, TaskStep, WorkerStep, WorkerEnds, AcceptUpload, Accept,
           Select, LoadApp, EndRequest, RequestBuild, RequestCancel, RequestDelete,
           SpawnBuild, CancelActiveBuild, DeleteProjectData, WriteUpload,
           SetUploadContext, LandUpload, BeginBuild, ReportGpuFailure,
           ObserveCancel, ReadMetadata, DecideOutcome, ReportBuild, ClearHandle,
           WorkerReads, WorkerPersists, WorkerSucceeds, WorkerFails,
           WorkerInterrupted, Shutdown, Abandon, Restart
  <2>2. state.build # "Building"
    BY <2>1 DEF IdleStop, WorkInProgress
  <2> QED
    BY <2>2 DEF GuardInv, InFlightIsBuilding
<1>2. WellFormed /\ GuardInv /\ OneProject /\ NeverDeleted /\ [Next]_vars => GuardInv'
  BY GuardStep
<1>3. OneProject /\ NeverDeleted => (OneProject /\ NeverDeleted)'
  BY DEF OneProject, NeverDeleted
<1> QED
  BY GuardInit, AlwaysWellFormed, <1>1, <1>2, <1>3, PTL DEF Spec, IdleStopSparesBuilds

-----------------------------------------------------------------------------
(* What a build leaves on disk                                             *)

NoOrphans == \A t \in Task : task[t].pc # "orphan"

\* A build that has not begun has done nothing.
NotBegun(t) ==
    task[t].pc \in {"unused", "requested", "scheduled"} =>
        task[t].input = 0 /\ ~task[t].persisted /\ task[t].exit = ""

\* What a worker says it wrote is in its directory, and still is when the
\* build reports.
WorkOnDisk(t) ==
    LET d == disk[task[t].root]
    IN /\ task[t].pc = "worker" =>
            /\ d.exemptions \in {0, task[t].input}
            /\ task[t].persisted => task[t].input # 0 /\ d.app = task[t].input
            /\ task[t].exit = "ok" => task[t].persisted
       /\ task[t].pc = "report" /\ task[t].out = "completed" =>
            d.exemptions \in {0, task[t].input} /\ d.app = task[t].input

\* Nothing was built before the first project is selected.
NewHasNoApp ==
    server = "up" /\ state.name = NoProject =>
        /\ \A p \in Project : disk[p].app = 0
        /\ \A c \in Conn : conn[c].pc = "select" => ~conn[c].view.has_app

WorkInv ==
    /\ NoOrphans /\ NewHasNoApp /\ ExemptionsDescribeBuild
    /\ \A t \in Task : NotBegun(t) /\ WorkOnDisk(t)

(* A build is moved by its own steps, by the request that it was accepted  *)
(* with, and by the end of the server.                                     *)
LEMMA TaskMoves ==
    ASSUME WellFormed, GuardInv, [Next]_vars, NEW t \in Task
    PROVE  \/ task'[t] = task[t] \/ TaskStep(t) \/ WorkerStep(t)
           \/ Moves(t, "unused", "requested") /\ SameWork(t)
           \/ task[t].pc = "requested" /\ task'[t].pc = "scheduled" /\ SameInput(t)
           \/ IdleStop \/ Shutdown
<1>1. ASSUME NEW u \in Task, TaskStep(u) \/ WorkerStep(u)
      PROVE  Others(u)
  BY <1>1, BuildMoves, BeginMoves, OutcomeMoves, WorkerMoves
     DEF TaskStep, WorkerStep, Moves
<1>2. ASSUME NEW c \in Conn, NEW u \in Task, RequestBuild(c, u)
      PROVE  Moves(u, "unused", "requested") /\ SameWork(u)
  BY <1>2, BuildMoves
<1>3. ASSUME NEW c \in Conn, SpawnBuild(c)
      PROVE  \/ task'[t] = task[t]
             \/ task[t].pc = "requested" /\ task'[t].pc = "scheduled" /\ SameInput(t)
  <2>1. /\ task' = [task EXCEPT ![conn[c].build].pc = "scheduled"]
        /\ task[conn[c].build].pc = "requested"
    BY <1>3 DEF SpawnBuild, GuardInv, SpawnsAreOwned, SpawnsItsOwn
  <2>2. task \in [Task -> BuildTask] /\ task[t] \in BuildTask
    BY DEF WellFormed, TypeOK
  <2>3. LET x == [task[t] EXCEPT !.pc = "scheduled"] IN
        /\ x.pc = "scheduled" /\ x.input = task[t].input
        /\ x.persisted = task[t].persisted /\ x.exit = task[t].exit
    BY <2>2 DEF BuildTask
  <2>4. CASE conn[c].build = t
    BY <2>1, <2>2, <2>3, <2>4 DEF SameInput
  <2>5. CASE conn[c].build # t
    BY <2>1, <2>2, <2>5
  <2> QED
    BY <2>4, <2>5
<1>4. \/ UNCHANGED task \/ IdleStop \/ Shutdown
      \/ \E u \in Task : TaskStep(u) \/ WorkerStep(u)
      \/ \E c \in Conn : SpawnBuild(c) \/ \E u \in Task : RequestBuild(c, u)
  BY DEF Next, ConnStep, vars, AcceptUpload, Accept, Select, LoadApp, EndRequest,
         RequestCancel, RequestDelete, CancelActiveBuild, DeleteProjectData,
         WriteUpload, SetUploadContext, LandUpload, Restart
<1> QED
  BY <1>1, <1>2, <1>3, <1>4 DEF Others, Moves

SamePayload == \A p \in Project : disk'[p].payload = disk[p].payload
SameApp == \A p \in Project : disk'[p].app = disk[p].app
SameExemptions == \A p \in Project : disk'[p].exemptions = disk[p].exemptions

(* Who writes what in a project directory.                                 *)
LEMMA DiskMoves ==
    ASSUME WellFormed, GuardInv, NeverDeleted, [Next]_vars
    PROVE  \/ disk' = disk
           \/ \E c \in Conn : WriteUpload(c) /\ SameApp /\ SameExemptions
           \/ \E t \in Task : BeginBuild(t) /\ SamePayload /\ SameApp
                /\ (state.root \in Project => disk'[state.root].exemptions = 0)
           \/ \E t \in Task : WorkerPersists(t) /\ SamePayload /\ SameExemptions
                /\ (task[t].root \in Project =>
                      disk'[task[t].root].app = task[t].input)
           \/ \E t \in Task : WorkerSucceeds(t) /\ SamePayload /\ SameApp
                /\ \A p \in Project :
                     disk'[p].exemptions \in {disk[p].exemptions, task[t].input}
<1>1. disk \in [Project -> Directory] /\ \A p \in Project : disk[p] \in Directory
  BY DEF WellFormed, TypeOK
<1>2. ASSUME NEW c \in Conn, WriteUpload(c) PROVE SameApp /\ SameExemptions
  BY <1>1, <1>2 DEF WriteUpload, SameApp, SameExemptions, Directory
<1>3. ASSUME NEW t \in Task, BeginBuild(t)
      PROVE  /\ SamePayload /\ SameApp
             /\ state.root \in Project => disk'[state.root].exemptions = 0
  <2>1. disk' = IF state.root \in Project
                   THEN [disk EXCEPT ![state.root].exemptions = 0] ELSE disk
    BY <1>3, Zenon DEF BeginBuild
  <2> QED
    BY <1>1, <2>1 DEF SamePayload, SameApp, Directory
<1>4. ASSUME NEW t \in Task, WorkerPersists(t)
      PROVE  /\ SamePayload /\ SameExemptions
             /\ task[t].root \in Project =>
                   disk'[task[t].root].app = task[t].input
  <2>1. disk' = [disk EXCEPT ![task[t].root].app = task[t].input]
    BY <1>4 DEF WorkerPersists
  <2> QED
    BY <1>1, <2>1 DEF SamePayload, SameExemptions, Directory
<1>5. ASSUME NEW t \in Task, WorkerSucceeds(t)
      PROVE  /\ SamePayload /\ SameApp
             /\ \A p \in Project :
                   disk'[p].exemptions \in {disk[p].exemptions, task[t].input}
  <2>1. PICK exempted \in {0, task[t].input} :
          disk' = [disk EXCEPT ![task[t].root].total_frames = MaxFrame,
                               ![task[t].root].exemptions =
                                   IF exempted # 0 THEN exempted ELSE @]
    BY <1>5 DEF WorkerSucceeds
  <2>2. ASSUME NEW p \in Project
        PROVE  /\ disk'[p].payload = disk[p].payload /\ disk'[p].app = disk[p].app
               /\ disk'[p].exemptions \in {disk[p].exemptions, exempted}
               /\ exempted = 0 => disk'[p].exemptions = disk[p].exemptions
    BY <1>1, <2>1 DEF Directory
  <2> QED
    BY <2>1, <2>2 DEF SamePayload, SameApp
<1>6. \/ UNCHANGED disk
      \/ \E t \in Task : BeginBuild(t) \/ WorkerPersists(t) \/ WorkerSucceeds(t)
      \/ \E c \in Conn : WriteUpload(c)
  BY NoDeletes
     DEF Next, ConnStep, TaskStep, WorkerStep, WorkerEnds, vars, AcceptUpload,
         Accept, Select, LoadApp, EndRequest, RequestBuild, RequestCancel,
         SpawnBuild, CancelActiveBuild, SetUploadContext, LandUpload,
         ReportGpuFailure, ObserveCancel, ReadMetadata, DecideOutcome,
         ReportBuild, ClearHandle, WorkerReads, WorkerFails, WorkerInterrupted,
         IdleStop, Shutdown, Abandon, Restart
<1> QED
  BY <1>2, <1>3, <1>4, <1>5, <1>6

(* Only a build in flight, and of the one project, writes what a build     *)
(* makes; a worker of a server that is gone would be another one.          *)
LEMMA WriterFlies ==
    ASSUME WellFormed, NoOrphans, NEW t \in Task,
           BeginBuild(t) \/ WorkerPersists(t) \/ WorkerSucceeds(t)
    PROVE  InFlight(t)
BY DEF NoOrphans, BeginBuild, WorkerPersists, WorkerSucceeds, WorkerAlive, InFlight

(* Without restarts the server goes down idle or not at all.               *)
LEMMA OnlyIdleStops ==
    ASSUME WellFormed, NeverRestarted
    PROVE  ~Shutdown /\ ~Restart
BY DEF WellFormed, TypeOK, NeverRestarted, Shutdown, Restart

(* No worker is left over.                                                 *)
LEMMA NoOrphansStep ==
    ASSUME WellFormed, GuardInv, WorkInv, NeverRestarted, [Next]_vars
    PROVE  NoOrphans'
<1> SUFFICES ASSUME NEW t \in Task
             PROVE  task'[t].pc # "orphan"
  BY DEF NoOrphans
<1>1. task[t].pc # "orphan"
  BY DEF WorkInv, NoOrphans
<1>2. CASE TaskStep(t)
  BY <1>1, <1>2, BuildMoves, BeginMoves, OutcomeMoves DEF TaskStep, Moves
<1>3. CASE WorkerStep(t)
  BY <1>1, <1>3, WorkerMoves DEF WorkerStep, Moves
<1>4. CASE IdleStop
  <2>1. ~WorkerAlive(t)
    BY <1>1, <1>4 DEF IdleStop, WorkInProgress, GuardInv, InFlightIsBuilding,
                      InFlight, WorkerAlive
  <2>2. task'[t] = IF task[t].pc = "unused" THEN task[t]
                   ELSE IF WorkerAlive(t)
                   THEN [task[t] EXCEPT !.pc = "orphan", !.meta = FALSE]
                   ELSE Returned(t)
    BY <1>4, Zenon DEF IdleStop, Abandon
  <2>3. Returned(t).pc = "done"
    BY DEF Returned, UnusedTask
  <2> QED
    BY <1>1, <2>1, <2>2, <2>3
<1> QED
  BY <1>1, <1>2, <1>3, <1>4, TaskMoves, OnlyIdleStops DEF Moves

(* A build that has not begun still has done nothing.                      *)
LEMMA NotBegunStep ==
    ASSUME WellFormed, GuardInv, WorkInv, NeverRestarted, [Next]_vars,
           NEW t \in Task
    PROVE  NotBegun(t)'
<1>1. NotBegun(t)
  BY DEF WorkInv
<1>2. CASE TaskStep(t) \/ WorkerStep(t)
  <2>1. task'[t].pc \notin {"unused", "requested", "scheduled"}
    <3>1. CASE TaskStep(t)
      BY <3>1, BuildMoves, BeginMoves, OutcomeMoves DEF TaskStep, Moves
    <3>2. CASE WorkerStep(t)
      BY <3>2, WorkerMoves DEF WorkerStep, Moves, WorkerAlive
    <3> QED
      BY <1>2, <3>1, <3>2
  <2> QED
    BY <2>1 DEF NotBegun
<1>3. CASE IdleStop
  <2>1. task'[t] = IF task[t].pc = "unused" THEN task[t]
                   ELSE IF WorkerAlive(t)
                   THEN [task[t] EXCEPT !.pc = "orphan", !.meta = FALSE]
                   ELSE Returned(t)
    BY <1>3, Zenon DEF IdleStop, Abandon
  <2>2. task'[t] = task[t] \/ task'[t].pc \in {"orphan", "done"}
    <3>1. task'[t].pc \in {"unused", "orphan", "done"}
      BY <1>3, GoneIsQuiet
    <3>2. task'[t].pc = "unused" => task'[t] = task[t]
      BY <2>1, <3>1 DEF Returned, UnusedTask, WellFormed, TypeOK, BuildTask
    <3> QED
      BY <3>1, <3>2
  <2> QED
    BY <1>1, <2>2 DEF NotBegun
<1>4. CASE task'[t] = task[t]
  BY <1>1, <1>4 DEF NotBegun
<1> QED
  BY <1>1, <1>2, <1>3, <1>4, TaskMoves, OnlyIdleStops
     DEF NotBegun, Moves, SameWork, SameInput

(* Nothing else touches what a build wrote while it is in flight.          *)
LEMMA WorkStands ==
    ASSUME WellFormed, GuardInv, WorkInv, NeverDeleted, [Next]_vars,
           NEW t \in Task, InFlight(t), ~BeginBuild(t), ~WorkerPersists(t),
           ~WorkerSucceeds(t)
    PROVE  SameApp /\ SameExemptions
<1>1. \A u \in Task :
        BeginBuild(u) \/ WorkerPersists(u) \/ WorkerSucceeds(u) => u = t
  BY WriterFlies DEF WorkInv, GuardInv, OneInFlight
<1> QED
  BY <1>1, DiskMoves DEF SameApp, SameExemptions

(* What the worker of a build wrote is in its directory until it reports.  *)
LEMMA WorkStep ==
    ASSUME WellFormed, GuardInv, WorkInv, NeverDeleted, NeverRestarted,
           [Next]_vars, NEW t \in Task
    PROVE  WorkOnDisk(t)'
<1> DEFINE d == disk[task[t].root]
<1>1. /\ NotBegun(t) /\ WorkOnDisk(t) /\ NoOrphans
      /\ state.root \in Project \cup {NoProject}
      /\ task[t].pc = "worker" => task[t].root \in Project
      /\ task[t].pc = "report" /\ task[t].out = "completed" => task[t].root \in Project
  BY DEF WorkInv, WellFormed, TypeOK, ServerState, TaskWellFormed
<1>2. ASSUME InFlight(t), ~BeginBuild(t), ~WorkerPersists(t), ~WorkerSucceeds(t),
             task[t].root \in Project
      PROVE  /\ disk'[task[t].root].app = disk[task[t].root].app
             /\ disk'[task[t].root].exemptions = disk[task[t].root].exemptions
  BY <1>2, WorkStands DEF SameApp, SameExemptions
<1>3. ASSUME BeginBuild(t) PROVE WorkOnDisk(t)'
  <2>1. /\ SameInput(t) /\ task[t].pc = "scheduled" /\ task'[t].root = state.root
        /\ \/ task'[t].pc \in {"worker", "gpu"}
           \/ task'[t].pc = "report" /\ task'[t].out = "failed"
    BY <1>3, BeginMoves
  <2>2. task[t].input = 0 /\ ~task[t].persisted /\ task[t].exit = ""
    BY <1>1, <2>1 DEF NotBegun
  <2>3. task'[t].pc = "worker" => state.root \in Project
    BY <2>1, TaskStepWellFormed DEF TaskWellFormed
  <2>4. state.root \in Project => disk'[state.root].exemptions = 0
    BY <1>3 DEF BeginBuild, WellFormed, TypeOK, Directory
  <2> QED
    BY <2>1, <2>2, <2>3, <2>4 DEF WorkOnDisk, SameInput
<1>4. ASSUME DecideOutcome(t) PROVE WorkOnDisk(t)'
  <2>1. /\ Moves(t, "worker", "report") /\ SameWork(t)
        /\ task'[t].out = "completed" => task[t].exit = "ok"
    BY <1>4, OutcomeMoves
  <2>2. disk' = disk
    BY <1>4 DEF DecideOutcome
  <2> QED
    BY <1>1, <2>1, <2>2 DEF WorkOnDisk, Moves, SameWork, SameInput
<1>5. ASSUME ObserveCancel(t) \/ ReadMetadata(t) PROVE WorkOnDisk(t)'
  <2>1. Moves(t, "worker", "worker") /\ SameWork(t)
    BY <1>5, BuildMoves
  <2>2. disk' = disk
    BY <1>5 DEF ObserveCancel, ReadMetadata
  <2> QED
    BY <1>1, <2>1, <2>2 DEF WorkOnDisk, Moves, SameWork, SameInput
<1>6. ASSUME ReportGpuFailure(t) \/ ReportBuild(t) \/ ClearHandle(t)
      PROVE  WorkOnDisk(t)'
  BY <1>6, BuildMoves DEF WorkOnDisk, Moves
<1>7. ASSUME WorkerReads(t) PROVE WorkOnDisk(t)'
  <2>1. /\ Moves(t, task[t].pc, task[t].pc) /\ task[t].pc = "worker"
        /\ task'[t].root = task[t].root /\ task[t].input = 0
        /\ task'[t].persisted = task[t].persisted
        /\ task'[t].exit = task[t].exit
    BY <1>1, <1>7, WorkerMoves DEF WorkerAlive, NoOrphans
  <2>2. disk' = disk
    BY <1>7 DEF WorkerReads
  <2> QED
    BY <1>1, <2>1, <2>2 DEF WorkOnDisk, Moves
<1>8. ASSUME WorkerPersists(t) PROVE WorkOnDisk(t)'
  <2>1. /\ task'[t].pc = "worker" /\ task[t].pc = "worker"
        /\ task'[t].root = task[t].root /\ task[t].input # 0
        /\ task'[t].input = task[t].input /\ task'[t].persisted = TRUE
    BY <1>1, <1>8, WorkerMoves DEF WorkerAlive, NoOrphans, Moves
  <2>2. disk' = [disk EXCEPT ![task[t].root].app = task[t].input]
    BY <1>8 DEF WorkerPersists
  <2>3. LET e == [disk[task[t].root] EXCEPT !.app = task[t].input] IN
        e.app = task[t].input /\ e.exemptions = disk[task[t].root].exemptions
    BY <1>1, <2>1 DEF WellFormed, TypeOK, Directory
  <2>4. /\ disk'[task[t].root].app = task[t].input
        /\ disk'[task[t].root].exemptions = disk[task[t].root].exemptions
    BY <1>1, <2>1, <2>2, <2>3 DEF WellFormed, TypeOK
  <2> QED
    BY <1>1, <2>1, <2>4 DEF WorkOnDisk
<1>9. ASSUME WorkerEnds(t) PROVE WorkOnDisk(t)'
  <2>1. /\ task[t].pc = "worker" /\ task'[t].pc = "worker"
        /\ task'[t].root = task[t].root /\ task'[t].input = task[t].input
        /\ task'[t].persisted = task[t].persisted
        /\ task'[t].exit = "ok" => task[t].persisted
    BY <1>1, <1>9, WorkerMoves DEF NoOrphans
  <2>2. /\ SameApp
        /\ \A p \in Project :
             disk'[p].exemptions \in {disk[p].exemptions, task[t].input}
    <3>1. CASE WorkerSucceeds(t)
      <4>1. \A u \in Task : BeginBuild(u) \/ WorkerPersists(u) \/ WorkerSucceeds(u)
              => u = t
        BY <2>1, WriterFlies DEF WorkInv, GuardInv, OneInFlight, InFlight
      <4>2. ~BeginBuild(t) /\ ~WorkerPersists(t)
        BY <2>1, BeginMoves, WorkerMoves, <3>1
           DEF BeginBuild, WorkerPersists, WorkerSucceeds
      <4> QED
        BY <4>1, <4>2, DiskMoves, <3>1 DEF SameApp, SameExemptions
    <3>2. CASE ~WorkerSucceeds(t)
      BY <1>9, <3>2 DEF WorkerEnds, WorkerFails, WorkerInterrupted, SameApp
    <3> QED
      BY <3>1, <3>2
  <2> QED
    BY <1>1, <2>1, <2>2 DEF WorkOnDisk, SameApp
<1>10. ASSUME task'[t] = task[t], ~TaskStep(t), ~WorkerStep(t)
       PROVE  WorkOnDisk(t)'
  BY <1>1, <1>2, <1>10
     DEF WorkOnDisk, InFlight, TaskStep, WorkerStep, WorkerEnds
<1>11. CASE IdleStop
  BY <1>11, GoneIsQuiet DEF WorkOnDisk
<1> QED
  BY <1>3, <1>4, <1>5, <1>6, <1>7, <1>8, <1>9, <1>10, <1>11, TaskMoves,
     OnlyIdleStops DEF TaskStep, WorkerStep, Moves, WorkOnDisk

(* No app is written but by a build in flight, which keeps BUILDING.       *)
LEMMA AppStands ==
    ASSUME WellFormed, GuardInv, WorkInv, NeverDeleted, [Next]_vars,
           state.build # "Building"
    PROVE  SameApp
<1>1. \A t \in Task : ~WorkerPersists(t)
  BY WriterFlies DEF WorkInv, GuardInv, InFlightIsBuilding
<1> QED
  BY <1>1, DiskMoves DEF SameApp

(* A project is built by the build that reports so, or it already was.     *)
LEMMA BuiltStep ==
    ASSUME WellFormed, GuardInv, WorkInv, OneProject, NeverDeleted, [Next]_vars,
           state'.build = "Built"
    PROVE  /\ state'.name = state.name /\ state.name \in Project
           /\ \/ state.build = "Built" /\ state'.exemptions = state.exemptions
              \/ \E t \in Task :
                   /\ ReportBuild(t) /\ task[t].out = "completed"
                   /\ state' = BuildCompleted(state, disk[task[t].root].exemptions)
<1>1. /\ state \in ServerState /\ state.name \in Project \cup {NoProject}
      /\ DefaultState.build = "None" /\ NoProject \notin Project
      /\ state.name = NoProject => state.build = "None"
  BY TransitionsAssumption
     DEF WellFormed, TypeOK, ServerState, DefaultState, GuardInv, NamedUnlessNew
<1>2. CASE SameBuild(state, state')
  BY <1>1, <1>2 DEF SameBuild
<1>3. ASSUME NEW c \in Conn, Select(c), ~SameBuild(state, state')
      PROVE  FALSE
  <2>1. state.name = NoProject /\ conn[c].view.has_app
    BY <1>3, SelectKeeps
  <2>2. conn[c].pc = "select" /\ server = "up"
    BY <1>3 DEF Select, GuardInv, DownIsQuiet
  <2> QED
    BY <2>1, <2>2 DEF WorkInv, NewHasNoApp
<1>4. ASSUME NEW c \in Conn, LoadApp(c) \/ SetUploadContext(c)
      PROVE  SameBuild(state, state')
  <2>1. /\ conn[c].name \in Project
        /\ state' = SetProjectContext(state, conn[c].name)
    BY <1>4 DEF LoadApp, SetUploadContext, GuardInv, RequestsAreServed
  <2>2. state.build = "Built" /\ state'.exemptions = state.exemptions
        /\ state'.name = conn[c].name
    BY <1>1, <2>1, BuildEventsKeep
  <2> QED
    BY <1>1, <2>1, <2>2 DEF OneProject, SameBuild
<1>5. ASSUME NEW c \in Conn, LandUpload(c) PROVE FALSE
  BY <1>1, <1>5, UploadKeeps DEF LandUpload
<1>6. ASSUME NEW c \in Conn, NEW t \in Task, RequestBuild(c, t) PROVE FALSE
  BY <1>1, <1>6, BuildEventsKeep DEF RequestBuild
<1>7. ASSUME NEW t \in Task, ReportGpuFailure(t) PROVE FALSE
  BY <1>1, <1>7, BuildEventsKeep DEF ReportGpuFailure
<1>8. ASSUME NEW t \in Task, ReportBuild(t)
      PROVE  /\ state'.name = state.name /\ state.name \in Project
             /\ task[t].out = "completed"
             /\ state' = BuildCompleted(state, disk[task[t].root].exemptions)
  <2>1. /\ task[t].out = "completed"
        /\ state' = BuildCompleted(state, disk[task[t].root].exemptions)
    BY <1>1, <1>8, BuildEventsKeep DEF ReportBuild
  <2>2. state.build = "Building"
    BY <1>8 DEF ReportBuild, GuardInv, InFlightIsBuilding, InFlight
  <2> QED
    BY <1>1, <2>1, <2>2, BuildEventsKeep
<1>9. ASSUME NEW t \in Task, ReadMetadata(t) PROVE SameBuild(state, state')
  BY <1>1, <1>9, BuildEventsKeep DEF ReadMetadata
<1>10. CASE IdleStop \/ Shutdown
  BY <1>1, <1>10, GoneIsQuiet
<1>11. \/ UNCHANGED state \/ IdleStop \/ Shutdown
       \/ \E c \in Conn : \/ Select(c) \/ LoadApp(c) \/ SetUploadContext(c)
                          \/ LandUpload(c) \/ \E t \in Task : RequestBuild(c, t)
       \/ \E t \in Task : ReportGpuFailure(t) \/ ReportBuild(t) \/ ReadMetadata(t)
  BY NoDeletes
     DEF Next, ConnStep, TaskStep, WorkerStep, WorkerEnds, vars, AcceptUpload, Accept,
         EndRequest, RequestCancel, SpawnBuild, CancelActiveBuild, WriteUpload,
         BeginBuild, ObserveCancel, DecideOutcome, ClearHandle, WorkerReads,
         WorkerPersists, WorkerSucceeds, WorkerFails, WorkerInterrupted, Restart
<1> QED
  BY <1>2, <1>3, <1>4, <1>5, <1>6, <1>7, <1>8, <1>9, <1>10, <1>11 DEF SameBuild

(* The build that reports a success has its app and its exemptions on disk *)
(* where the state now says that they are.                                 *)
LEMMA ReportedWork ==
    ASSUME WellFormed, GuardInv, WorkInv, OneProject, NEW t \in Task,
           ReportBuild(t), task[t].out = "completed", state.name \in Project
    PROVE  /\ task[t].root = state.name /\ disk' = disk
           /\ disk[state.name].app = task[t].input
           /\ disk[state.name].exemptions \in {0, task[t].input}
<1>1. task[t].pc = "report" /\ task[t].root \in Project /\ disk' = disk
  BY DEF ReportBuild, WellFormed, TaskWellFormed
<1>2. task[t].root = state.name
  BY <1>1 DEF OneProject
<1> QED
  BY <1>1, <1>2 DEF WorkInv, WorkOnDisk

(* The exemptions stay those of the app.                                   *)
LEMMA ExemptionsStep ==
    ASSUME WellFormed, GuardInv, WorkInv, OneProject, NeverDeleted, [Next]_vars
    PROVE  ExemptionsDescribeBuild'
<1> SUFFICES ASSUME state'.build = "Built"
             PROVE  state'.exemptions \in {0, disk'[state'.name].app}
  BY DEF ExemptionsDescribeBuild
<1>1. state'.name = state.name /\ state.name \in Project
  BY BuiltStep
<1>2. CASE state.build = "Built" /\ state'.exemptions = state.exemptions
  BY <1>1, <1>2, AppStands DEF SameApp, WorkInv, ExemptionsDescribeBuild
<1>3. ASSUME NEW t \in Task, ReportBuild(t), task[t].out = "completed",
             state' = BuildCompleted(state, disk[task[t].root].exemptions)
      PROVE  state'.exemptions \in {0, disk'[state'.name].app}
  <2>1. state'.exemptions = disk[state.name].exemptions
    BY <1>1, <1>3, ReportedWork, BuildEventsKeep DEF WellFormed, TypeOK
  <2> QED
    BY <1>1, <1>3, <2>1, ReportedWork
<1> QED
  BY <1>2, <1>3, BuiltStep

(* There is no app before there is a project.                              *)
LEMMA NewStep ==
    ASSUME WellFormed, GuardInv, WorkInv, OneProject, NeverDeleted,
           NeverRestarted, [Next]_vars
    PROVE  NewHasNoApp'
<1> SUFFICES ASSUME server' = "up", state'.name = NoProject
             PROVE  /\ \A p \in Project : disk'[p].app = 0
                    /\ \A c \in Conn :
                         conn'[c].pc = "select" => ~conn'[c].view.has_app
  BY DEF NewHasNoApp
<1>1. ~IdleStop /\ ~Shutdown /\ ~Restart
  BY GoneIsQuiet, OnlyIdleStops
<1>2. server = "up"
  BY <1>1 DEF Next, ConnStep, TaskStep, WorkerStep, WorkerEnds, vars, AcceptUpload,
              Accept, Select, LoadApp, EndRequest, RequestBuild, RequestCancel,
              RequestDelete, SpawnBuild, CancelActiveBuild, DeleteProjectData,
              WriteUpload, SetUploadContext, LandUpload, BeginBuild,
              ReportGpuFailure, ObserveCancel, ReadMetadata, DecideOutcome,
              ReportBuild, ClearHandle, WorkerReads, WorkerPersists,
              WorkerSucceeds, WorkerFails, WorkerInterrupted
<1>3. state.name = NoProject
  BY BuildChanges, TransitionsAssumption
<1>4. /\ \A p \in Project : disk[p].app = 0
      /\ \A c \in Conn : conn[c].pc = "select" => ~conn[c].view.has_app
      /\ state.build = "None"
  BY <1>2, <1>3 DEF WorkInv, NewHasNoApp, GuardInv, NamedUnlessNew
<1>5. \A p \in Project : disk'[p].app = 0
  BY <1>4, AppStands DEF SameApp
<1>6. ASSUME NEW c \in Conn, conn'[c].pc = "select"
      PROVE  ~conn'[c].view.has_app
  <2>1. CASE conn'[c] = conn[c]
    BY <1>4, <1>6, <2>1
  <2>2. ASSUME NEW p \in Project, NEW r \in Request, Accept(c, p, r)
        PROVE  ~conn'[c].view.has_app
    <3>1. conn'[c].view = Reconciled(p, state.name) /\ disk[p].app = 0
      BY <1>4, <2>2, AcceptMoves
    <3>2. Reconciled(p, state.name).has_app <=> disk[p].app # 0
      BY DEF Reconciled
    <3> QED
      BY <3>1, <3>2
  <2>3. ASSUME NEW d \in Conn, NEW p \in Project, NEW r \in Request, Accept(d, p, r)
        PROVE  conn'[c] = conn[c] \/ Accept(c, p, r)
    BY <2>3, AcceptMoves DEF ConnMoves, OtherConns
  <2>4. ASSUME NEW d \in Conn, NEW p \in Project, AcceptUpload(d, p)
        PROVE  conn'[c] = conn[c]
    BY <1>6, <2>4, AcceptMoves DEF ConnMoves, OtherConns
  <2>5. ASSUME NEW d \in Conn, ConnStep(d)
        PROVE  conn'[c] = conn[c]
    BY <1>6, <2>5, RequestMoves, NoDeletes
       DEF ConnStep, ConnMoves, Leaves, OtherConns
  <2>6. ASSUME NEW t \in Task, TaskStep(t) \/ WorkerStep(t)
        PROVE  UNCHANGED conn
    BY <2>6 DEF TaskStep, WorkerStep, WorkerEnds, BeginBuild, ReportGpuFailure,
                ObserveCancel, ReadMetadata, DecideOutcome, ReportBuild,
                ClearHandle, WorkerReads, WorkerPersists, WorkerSucceeds,
                WorkerFails, WorkerInterrupted
  <2> QED
    BY <1>1, <2>1, <2>2, <2>3, <2>4, <2>5, <2>6 DEF Next, vars
<1> QED
  BY <1>5, <1>6

(* What builds leave on disk stays as described by every step.             *)
LEMMA WorkInvStep ==
    ASSUME WellFormed, GuardInv, WorkInv, OneProject, NeverDeleted,
           NeverRestarted, [Next]_vars
    PROVE  WorkInv'
<1>1. \A t \in Task : NotBegun(t)' /\ WorkOnDisk(t)'
  BY NotBegunStep, WorkStep
<1> QED
  BY <1>1, NoOrphansStep, NewStep, ExemptionsStep DEF WorkInv

(* Nothing is on disk at the start.                                        *)
LEMMA WorkInvInit == Init => WorkInv
<1> SUFFICES ASSUME Init PROVE WorkInv
  OBVIOUS
<1>1. /\ \A c \in Conn : conn[c].pc = "idle"
      /\ \A t \in Task : /\ task[t].pc = "unused" /\ task[t].input = 0
                         /\ ~task[t].persisted /\ task[t].exit = ""
      /\ state.build = "None"
      /\ \A p \in Project : disk[p].app = 0
  BY DEF Init, IdleConnection, UnusedTask, DefaultState, EmptyDirectory
<1> QED
  BY <1>1 DEF WorkInv, NoOrphans, NewHasNoApp, ExemptionsDescribeBuild, NotBegun,
              WorkOnDisk

(* The lock holds in every state of the deployment.                        *)
LEMMA AlwaysGuarded == Spec /\ OneProject /\ NeverDeleted => []GuardInv
<1>1. WellFormed /\ GuardInv /\ OneProject /\ NeverDeleted /\ [Next]_vars => GuardInv'
  BY GuardStep
<1>2. OneProject /\ NeverDeleted => (OneProject /\ NeverDeleted)'
  BY DEF OneProject, NeverDeleted
<1> QED
  BY GuardInit, AlwaysWellFormed, <1>1, <1>2, PTL DEF Spec

(* And so does the account of what builds leave on disk, while the server  *)
(* is not restarted.                                                       *)
LEMMA AlwaysWorks ==
    Spec /\ OneProject /\ NeverDeleted /\ NeverRestarted => []WorkInv
<1>1. WellFormed /\ GuardInv /\ WorkInv /\ OneProject /\ NeverDeleted
        /\ NeverRestarted /\ [Next]_vars => WorkInv'
  BY WorkInvStep
<1>2. OneProject /\ NeverDeleted /\ NeverRestarted
        => (OneProject /\ NeverDeleted /\ NeverRestarted)'
  BY DEF OneProject, NeverDeleted, NeverRestarted
<1> QED
  BY WorkInvInit, AlwaysWellFormed, AlwaysGuarded, <1>1, <1>2, PTL DEF Spec

(* One project, never deleted, one life of the server: no two workers      *)
(* write the project directory at a time (executor/build.rs:387, the       *)
(* worker that is spawned for every accepted build).                       *)
THEOREM WorkersTakeTurns ==
    Spec /\ OneProject /\ NeverDeleted /\ NeverRestarted => []OneWorkerPerRoot
<1>1. GuardInv /\ WorkInv => OneWorkerPerRoot
  BY DEF GuardInv, OneInFlight, WorkInv, NoOrphans, OneWorkerPerRoot,
         WorkerAlive, InFlight
<1> QED
  BY AlwaysGuarded, AlwaysWorks, <1>1, PTL

(* The exemptions of a built project are those of the app on disk, though  *)
(* they are read when the build reports and the app was written before     *)
(* (executor/build.rs, build_exemptions.json).                             *)
THEOREM ExemptionsAreOfTheApp ==
    Spec /\ OneProject /\ NeverDeleted /\ NeverRestarted
        => []ExemptionsDescribeBuild
<1>1. WorkInv => ExemptionsDescribeBuild
  BY DEF WorkInv
<1> QED
  BY AlwaysWorks, <1>1, PTL

-----------------------------------------------------------------------------
(* An app is built from the payload that is there                          *)

UploadsMeetNoBuild ==
    \A c \in Conn : conn[c].pc \in UploadPc => state.build # "Building"

\* The payload a build has read is still there when it reports.
InputIsPayload(t) ==
    LET d == disk[task[t].root]
    IN /\ task[t].pc = "worker" /\ task[t].input # 0 => d.payload = task[t].input
       /\ task[t].pc = "report" /\ task[t].out = "completed" =>
            d.payload = task[t].input

PayloadInv ==
    /\ UploadsMeetNoBuild /\ BuiltMatchesPayload
    /\ \A t \in Task : InputIsPayload(t)

(* An upload goes its way to its landing.                                  *)
LEMMA UploadMoves ==
    ASSUME WellFormed, GuardInv, NeverDeleted, [Next]_vars, NEW c \in Conn
    PROVE  /\ conn'[c].pc \in UploadPc =>
                \/ conn[c].pc \in UploadPc
                \/ UNCHANGED state /\ state.build # "Building"
           /\ conn[c].pc \in {"upload_context", "upload_land"} =>
                \/ SameRequest(c) /\ conn'[c].pc \in {"upload_context", "upload_land"}
                \/ LandUpload(c) \/ IdleStop \/ Shutdown
<1>1. ASSUME NEW d \in Conn, NEW p \in Project, AcceptUpload(d, p)
      PROVE  /\ OtherConns(d) /\ conn[d].pc = "idle"
             /\ UNCHANGED state /\ state.build # "Building"
  BY <1>1, AcceptMoves DEF ConnMoves, AcceptUpload
<1>2. ASSUME NEW d \in Conn, NEW p \in Project, NEW r \in Request, Accept(d, p, r)
      PROVE  OtherConns(d) /\ conn[d].pc = "idle" /\ conn'[d].pc = "select"
  BY <1>2, AcceptMoves DEF ConnMoves
<1>3. ASSUME NEW d \in Conn, ConnStep(d)
      PROVE  /\ OtherConns(d)
             /\ conn'[d].pc \in UploadPc => conn[d].pc \in UploadPc
             /\ conn[d].pc \in {"upload_context", "upload_land"} =>
                  \/ SameRequest(d) /\ conn'[d].pc = "upload_land"
                  \/ LandUpload(d)
  <2>1. CASE WriteUpload(d) \/ SetUploadContext(d) \/ LandUpload(d)
    BY <2>1, RequestMoves DEF ConnMoves, Leaves, UploadPc
  <2>2. CASE Select(d) \/ LoadApp(d) \/ \E t \in Task : RequestBuild(d, t) \/ RequestCancel(d, t)
    BY <2>2, RequestMoves DEF ConnMoves, UploadPc
  <2>3. CASE EndRequest(d) \/ SpawnBuild(d) \/ CancelActiveBuild(d)
    <3>1. conn[d].pc \in {"request", "effect"}
      BY <2>3 DEF EndRequest, SpawnBuild, CancelActiveBuild
    <3> QED
      BY <2>3, <3>1, RequestMoves DEF Leaves, UploadPc
  <2> QED
    BY <1>3, <2>1, <2>2, <2>3, NoDeletes DEF ConnStep
<1>4. ASSUME NEW t \in Task, TaskStep(t) \/ WorkerStep(t)
      PROVE  UNCHANGED conn
  BY <1>4 DEF TaskStep, WorkerStep, WorkerEnds, BeginBuild, ReportGpuFailure,
              ObserveCancel, ReadMetadata, DecideOutcome, ReportBuild,
              ClearHandle, WorkerReads, WorkerPersists, WorkerSucceeds,
              WorkerFails, WorkerInterrupted
<1>5. CASE IdleStop \/ Shutdown
  BY <1>5, GoneIsQuiet DEF UploadPc
<1>6. CASE UNCHANGED conn
  BY <1>6 DEF SameRequest
<1>7. CASE \E d \in Conn, p \in Project :
             AcceptUpload(d, p) \/ \E r \in Request : Accept(d, p, r)
  BY <1>1, <1>2, <1>7 DEF OtherConns, SameRequest, UploadPc
<1>8. CASE \E d \in Conn : ConnStep(d)
  BY <1>3, <1>8 DEF OtherConns, SameRequest
<1> QED
  BY <1>4, <1>5, <1>6, <1>7, <1>8 DEF Next, Restart, vars

(* No build begins while an upload is under way, for both come from one    *)
(* client.                                                                 *)
LEMMA UploadsStep ==
    ASSUME WellFormed, GuardInv, PayloadInv, OneProject, NeverDeleted, OneOwner,
           [Next]_vars
    PROVE  UploadsMeetNoBuild'
<1> SUFFICES ASSUME NEW c \in Conn, conn'[c].pc \in UploadPc
             PROVE  state'.build # "Building"
  BY DEF UploadsMeetNoBuild
<1>1. CASE UNCHANGED state /\ state.build # "Building"
  BY <1>1
<1>2. CASE conn[c].pc \in UploadPc
  <2>1. state.build # "Building" /\ \A t \in Task : ~InFlight(t)
    BY <1>2 DEF PayloadInv, UploadsMeetNoBuild, GuardInv, InFlightIsBuilding
  <2>2. ASSUME NEW d \in Conn, NEW t \in Task, RequestBuild(d, t) PROVE FALSE
    <3>1. conn[d].pc = "request" /\ conn[d].req = "build" /\ conn[c].req = "upload"
      BY <1>2, <2>2
         DEF RequestBuild, GuardInv, RequestsAreServed, UploadPc
    <3>2. c = d
      BY <1>2, <3>1 DEF GuardInv, RequestsAreServed, UploadPc, OneOwner
    <3> QED
      BY <1>2, <3>1, <3>2 DEF UploadPc
  <2>3. \A d \in Conn : Select(d) => state'.build # "Building"
    BY <2>1, SelectKeeps DEF SameBuild
  <2>4. \A d \in Conn :
          state'.build = (IF state.build = "Building" THEN "Building" ELSE "None")
            => state'.build = "None"
    BY <2>1
  <2>5. DefaultState.build = "None"
    BY DEF DefaultState
  <2> QED
    BY <2>1, <2>2, <2>3, <2>4, <2>5, BuildChanges
<1> QED
  BY <1>1, <1>2, UploadMoves

(* The payload stands while a build is in flight.                          *)
LEMMA PayloadStands ==
    ASSUME WellFormed, GuardInv, PayloadInv, NeverDeleted, [Next]_vars,
           state.build = "Building"
    PROVE  SamePayload
<1>1. \A c \in Conn : ~WriteUpload(c)
  BY DEF PayloadInv, UploadsMeetNoBuild, UploadPc, WriteUpload
<1> QED
  BY <1>1, DiskMoves DEF SamePayload

(* The payload that a build read is the one that is there.                 *)
LEMMA InputStep ==
    ASSUME WellFormed, GuardInv, WorkInv, PayloadInv, OneProject, NeverDeleted,
           NeverRestarted, [Next]_vars, NEW t \in Task
    PROVE  InputIsPayload(t)'
<1>1. /\ NotBegun(t) /\ WorkOnDisk(t) /\ NoOrphans /\ InputIsPayload(t)
      /\ task[t].pc \in {"worker", "report"} => SamePayload
      /\ task[t].pc = "worker" => task[t].root \in Project
      /\ task[t].pc = "report" /\ task[t].out = "completed" => task[t].root \in Project
  BY PayloadStands DEF WorkInv, PayloadInv, WellFormed, TaskWellFormed, GuardInv,
                       InFlightIsBuilding, InFlight
<1>2. CASE task'[t] = task[t]
  BY <1>1, <1>2 DEF InputIsPayload, SamePayload
<1>3. ASSUME BeginBuild(t) PROVE InputIsPayload(t)'
  <2>1. /\ task[t].pc = "scheduled" /\ task'[t].input = task[t].input
        /\ \/ task'[t].pc \in {"worker", "gpu"}
           \/ task'[t].pc = "report" /\ task'[t].out = "failed"
    BY <1>3, BeginMoves DEF SameInput
  <2> QED
    BY <1>1, <2>1 DEF NotBegun, InputIsPayload
<1>4. ASSUME DecideOutcome(t) PROVE InputIsPayload(t)'
  <2>1. /\ Moves(t, "worker", "report") /\ SameWork(t)
        /\ task'[t].out = "completed" => task[t].exit = "ok"
    BY <1>4, OutcomeMoves
  <2>2. task[t].exit = "ok" => task[t].input # 0
    BY <1>1, <2>1 DEF WorkOnDisk, Moves
  <2> QED
    BY <1>1, <2>1, <2>2
       DEF InputIsPayload, Moves, SameWork, SameInput, SamePayload
<1>5. ASSUME ObserveCancel(t) \/ ReadMetadata(t) PROVE InputIsPayload(t)'
  <2>1. Moves(t, "worker", "worker") /\ SameWork(t)
    BY <1>5, BuildMoves
  <2> QED
    BY <1>1, <2>1 DEF InputIsPayload, Moves, SameWork, SameInput, SamePayload
<1>6. ASSUME ReportGpuFailure(t) \/ ReportBuild(t) \/ ClearHandle(t)
      PROVE  InputIsPayload(t)'
  BY <1>6, BuildMoves DEF InputIsPayload, Moves
<1>7. ASSUME WorkerReads(t) PROVE InputIsPayload(t)'
  <2>1. /\ task[t].pc = "worker" /\ task'[t].pc = "worker"
        /\ task'[t].root = task[t].root
        /\ task'[t].input = disk[task[t].root].payload
    BY <1>1, <1>7, WorkerMoves DEF WorkerAlive, NoOrphans, Moves
  <2> QED
    BY <1>1, <2>1 DEF InputIsPayload, SamePayload
<1>8. ASSUME WorkerPersists(t) \/ WorkerEnds(t) PROVE InputIsPayload(t)'
  <2>1. /\ task[t].pc = "worker" /\ task'[t].pc = "worker"
        /\ task'[t].root = task[t].root /\ task'[t].input = task[t].input
    BY <1>1, <1>8, WorkerMoves DEF WorkerAlive, NoOrphans, Moves
  <2> QED
    BY <1>1, <2>1 DEF InputIsPayload, SamePayload
<1>9. CASE IdleStop
  BY <1>9, GoneIsQuiet DEF InputIsPayload
<1> QED
  BY <1>2, <1>3, <1>4, <1>5, <1>6, <1>7, <1>8, <1>9, TaskMoves, OnlyIdleStops
     DEF TaskStep, WorkerStep, Moves, InputIsPayload

(* A built app stays the app of the payload that is there, until an upload *)
(* is on its way.                                                          *)
LEMMA BuiltMatchesStep ==
    ASSUME WellFormed, GuardInv, WorkInv, PayloadInv, OneProject, NeverDeleted,
           [Next]_vars
    PROVE  BuiltMatchesPayload'
<1> SUFFICES ASSUME state'.build = "Built", ~UploadOnItsWay(state.name)'
             PROVE  disk'[state.name].app = disk'[state.name].payload
  BY BuiltStep DEF BuiltMatchesPayload, UploadOnItsWay
<1>1. state'.name = state.name /\ state.name \in Project
  BY BuiltStep
<1>2. CASE state.build = "Built"
  <2>1. ~IdleStop /\ ~Shutdown /\ \A c \in Conn : ~LandUpload(c)
    <3>1. DefaultState.build = "None"
      BY DEF DefaultState
    <3>2. \A c \in Conn : LandUpload(c) => state'.build = "None"
      BY <1>2, UploadKeeps DEF LandUpload, WellFormed, TypeOK
    <3> QED
      BY <3>1, <3>2, GoneIsQuiet
  <2>2. ~UploadOnItsWay(state.name)
    BY <1>1, <2>1, UploadMoves DEF UploadOnItsWay, SameRequest
  <2>3. ASSUME NEW c \in Conn, WriteUpload(c) PROVE FALSE
    <3>1. /\ conn[c].name \in Project /\ conn'[c].name = conn[c].name
          /\ conn'[c].pc = "upload_context"
      BY <2>3, RequestMoves
         DEF ConnMoves, SameRequest, GuardInv, RequestsAreServed
    <3>2. conn[c].name = state.name
      BY <1>1, <3>1 DEF OneProject
    <3> QED
      BY <1>1, <3>1, <3>2 DEF UploadOnItsWay
  <2>4. SameApp /\ SamePayload
    BY <1>2, <2>3, AppStands, DiskMoves DEF SamePayload
  <2> QED
    BY <1>1, <1>2, <2>2, <2>4
       DEF SameApp, SamePayload, PayloadInv, BuiltMatchesPayload
<1>3. ASSUME NEW t \in Task, ReportBuild(t), task[t].out = "completed"
      PROVE  disk'[state.name].app = disk'[state.name].payload
  <2>1. InputIsPayload(t) /\ task[t].pc = "report"
    BY <1>3 DEF PayloadInv, ReportBuild
  <2> QED
    BY <1>1, <1>3, <2>1, ReportedWork DEF InputIsPayload
<1> QED
  BY <1>2, <1>3, BuiltStep

(* One client that uploads and builds one project, never deleted, in one   *)
(* life of the server: what it calls built was built from the payload that *)
(* is on disk (transitions/mod.rs:180, an upload invalidates the build).   *)
THEOREM BuiltFromThePayload ==
    Spec /\ OneProject /\ NeverDeleted /\ NeverRestarted /\ OneOwner
        => []BuiltMatchesPayload
<1>1. Init => PayloadInv
  <2> SUFFICES ASSUME Init PROVE PayloadInv
    OBVIOUS
  <2>1. /\ \A c \in Conn : conn[c].pc = "idle"
        /\ \A t \in Task : task[t].pc = "unused"
        /\ state.build = "None"
    BY DEF Init, IdleConnection, UnusedTask, DefaultState
  <2> QED
    BY <2>1 DEF PayloadInv, UploadsMeetNoBuild, UploadPc, BuiltMatchesPayload,
                InputIsPayload
<1>2. WellFormed /\ GuardInv /\ WorkInv /\ PayloadInv /\ OneProject
        /\ NeverDeleted /\ NeverRestarted /\ OneOwner /\ [Next]_vars => PayloadInv'
  BY UploadsStep, InputStep, BuiltMatchesStep DEF PayloadInv
<1>3. OneProject /\ NeverDeleted /\ NeverRestarted /\ OneOwner
        => (OneProject /\ NeverDeleted /\ NeverRestarted /\ OneOwner)'
  BY DEF OneProject, NeverDeleted, NeverRestarted, OneOwner
<1>4. PayloadInv => BuiltMatchesPayload
  BY DEF PayloadInv
<1> QED
  BY AlwaysWellFormed, AlwaysGuarded, AlwaysWorks, <1>1, <1>2, <1>3, <1>4, PTL
     DEF Spec
=============================================================================
