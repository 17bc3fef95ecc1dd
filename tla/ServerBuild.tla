----------------------------- MODULE ServerBuild ----------------------------
(***************************************************************************)
(* Requests, uploads and builds of one ppf-cts-server process:             *)
(* crates/ppf-cts-server/src/engine.rs, executor/build.rs, wire/mod.rs,    *)
(* wire/upload.rs and serve.rs over the state machine of ServerTransitions,*)
(* with the build worker of frontend/build_worker.py and the project       *)
(* directory they share.                                                   *)
(*                                                                         *)
(* Every client connection is a task of its own on a multi-threaded        *)
(* runtime, and so is every build.  A step here is what one of them does   *)
(* under one lock, or in one visit of the disk: a request reads the disk,  *)
(* then dispatches ProjectSelected, then runs its effects, then dispatches *)
(* the event it carries, then runs that event's effects, and the other     *)
(* connections and the builds run between any two of these.                *)
(***************************************************************************)
EXTENDS ServerTransitions, FiniteSets

CONSTANTS
    Conn,          \* client connections
    Serves,        \* the requests each connection may bring, and for which project
    MaxBuilds,     \* bound on the builds ever accepted
    MaxRestarts    \* bound on the restarts of the server

Request == {"ping", "build", "cancel_build", "delete", "upload"}
Task == 1 .. MaxBuilds

ASSUME BuildAssumption ==
    /\ Serves \in [Conn -> SUBSET (Request \X Project)]
    /\ MaxBuilds \in Nat
    /\ MaxRestarts \in Nat

VARIABLES
    state,      \* EngineInner::state
    conn,       \* each connection's request in flight
    task,       \* each build, from its acceptance to the clear of its handle
    handle,     \* CancelState::handle: the build it belongs to, or 0
    pending,    \* CancelState::pending
    tripped,    \* the builds whose cancel token is cancelled
    asked,      \* history: builds a cancel was carried out against in time
    disk,       \* the project directories
    minted,     \* the last upload id minted
    server,     \* whether the process is up, and why not
    restarts    \* how often it was started again

vars == <<state, conn, task, handle, pending, tripped, asked, disk, minted,
          server, restarts>>
cancelVars == <<handle, pending, tripped, asked>>

\* data.pickle and param.pickle with their stamps, app_state.pickle (the
\* upload it was built from), build_exemptions.json, scene_info.json.
Directory == [payload : Upload, app : Upload, exemptions : Upload,
              total_frames : Frame]
EmptyDirectory == [payload |-> 0, app |-> 0, exemptions |-> 0,
                   total_frames |-> 0]

ConnPc == {"idle", "select", "load", "request", "effect",
           "upload_write", "upload_context", "upload_land"}
NoView == [name |-> NoProject]
Connection == [pc : ConnPc, name : Project \cup {NoProject},
               req : Request, view : DiskView \cup {NoView},
               build : {0} \cup Task, upload_id : Upload, on_disk : BOOLEAN]
IdleConnection == [pc |-> "idle", name |-> NoProject, req |-> "ping",
                   view |-> NoView, build |-> 0, upload_id |-> 0,
                   on_disk |-> FALSE]

\* requested: accepted, DoSpawnBuild still to run.  scheduled: handle
\* installed, task not begun.  worker: drive_build_worker.  orphan: the worker
\* outlives its server.
TaskPc == {"unused", "requested", "scheduled", "worker", "gpu", "report",
           "clear", "done", "orphan"}
Outcome == {"", "completed", "cancelled", "failed"}
BuildTask == [pc : TaskPc, root : Project \cup {NoProject}, input : Upload,
              meta : BOOLEAN, persisted : BOOLEAN, signaled : BOOLEAN,
              exit : {"", "ok", "error", "signal"}, out : Outcome]
UnusedTask == [pc |-> "unused", root |-> NoProject, input |-> 0,
               meta |-> FALSE, persisted |-> FALSE, signaled |-> FALSE,
               exit |-> "", out |-> ""]

\* Builds whose worker process exists, and builds that are yet to report.
WorkerAlive(t) == task[t].pc \in {"worker", "orphan"} /\ task[t].exit = ""
InFlight(t) ==
    task[t].pc \in {"requested", "scheduled", "worker", "gpu", "report"}

\* What is left of a build task that returned.
Returned(t) == [UnusedTask EXCEPT !.pc = "done", !.out = task[t].out]

Init ==
    /\ state = DefaultState
    /\ conn = [c \in Conn |-> IdleConnection]
    /\ task = [t \in Task |-> UnusedTask]
    /\ handle = 0 /\ pending = FALSE /\ tripped = {} /\ asked = {}
    /\ disk = [p \in Project |-> EmptyDirectory]
    /\ minted = 0
    /\ server = "up" /\ restarts = 0

-----------------------------------------------------------------------------
(* A TCMD request: wire/mod.rs handle_tcmd                                 *)

\* reconcile_project_from_disk, given the project selected when it ran.  The
\* exemptions are read only when the selection changes.
Reconciled(p, selected) ==
    LET d == disk[p]
    IN [name |-> p, has_data |-> d.payload # 0, has_param |-> d.payload # 0,
        has_app |-> d.app # 0, is_resumable |-> FALSE, crash |-> "",
        upload_id |-> d.payload, data_hash |-> d.payload,
        param_hash |-> d.payload, total_frames |-> d.total_frames,
        exemptions |-> IF p = selected \/ d.app = 0 THEN 0 ELSE d.exemptions]

\* The bound on builds: one is left for every build request on its way.
BuildLeft ==
    Cardinality({c \in Conn : /\ conn[c].req = "build"
                              /\ conn[c].pc \in {"select", "load", "request"}})
      < Cardinality({t \in Task : task[t].pc = "unused"})

Accept(c, p, r) ==
    /\ server = "up" /\ conn[c].pc = "idle"
    /\ r # "upload" /\ <<r, p>> \in Serves[c]
    /\ r = "build" => BuildLeft
    /\ conn' = [conn EXCEPT ![c] = [IdleConnection EXCEPT
                   !.pc = "select", !.name = p, !.req = r,
                   !.view = Reconciled(p, state.name)]]
    /\ UNCHANGED <<state, task, cancelVars, disk, minted, server, restarts>>

\* Dispatch ProjectSelected.  Another project without an app is to be loaded.
Select(c) ==
    LET view == conn[c].view
        loads == view.name # state.name /\ ~view.has_app
    IN /\ conn[c].pc = "select"
       /\ state' = ProjectSelected(state, view)
       /\ conn' = [conn EXCEPT ![c].pc = IF loads THEN "load" ELSE "request",
                               ![c].view = NoView]
       /\ UNCHANGED <<task, cancelVars, disk, minted, server, restarts>>

\* session.rs load_app
LoadApp(c) ==
    /\ conn[c].pc = "load"
    /\ state' = SetProjectContext(state, conn[c].name)
    /\ conn' = [conn EXCEPT ![c].pc = "request"]
    /\ UNCHANGED <<task, cancelVars, disk, minted, server, restarts>>

\* A ping, or an event whose guard fails, ends the request.
Ignored(c) ==
    \/ conn[c].req = "ping"
    \/ conn[c].req = "build" /\ ~CanBuild(state)
    \/ conn[c].req = "cancel_build" /\ ~CanCancelBuild(state)
    \/ conn[c].req = "delete" /\ ~CanDelete(state)

EndRequest(c) ==
    /\ conn[c].pc = "request" /\ Ignored(c)
    /\ conn' = [conn EXCEPT ![c] = IdleConnection]
    /\ UNCHANGED <<state, task, cancelVars, disk, minted, server, restarts>>

IsNext(t) == task[t].pc = "unused" /\ \A u \in 1 .. t - 1 : task[u].pc # "unused"
IsLatest(t) == task[t].pc # "unused" /\ \A u \in t + 1 .. MaxBuilds : task[u].pc = "unused"

RequestBuild(c, t) ==
    /\ conn[c].pc = "request" /\ conn[c].req = "build"
    /\ CanBuild(state) /\ IsNext(t)
    /\ state' = BuildRequested(state)
    /\ task' = [task EXCEPT ![t].pc = "requested"]
    /\ conn' = [conn EXCEPT ![c].pc = "effect", ![c].build = t]
    /\ UNCHANGED <<cancelVars, disk, minted, server, restarts>>

RequestCancel(c, t) ==
    /\ conn[c].pc = "request" /\ conn[c].req = "cancel_build"
    /\ CanCancelBuild(state) /\ IsLatest(t)
    /\ conn' = [conn EXCEPT ![c].pc = "effect", ![c].build = t]
    /\ UNCHANGED <<state, task, cancelVars, disk, minted, server, restarts>>

\* The whole state but the name is gone at once, the root with it, so that the
\* effects carry the root they are to delete.
RequestDelete(c) ==
    /\ conn[c].pc = "request" /\ conn[c].req = "delete"
    /\ CanDelete(state)
    /\ state' = DeleteRequested(state)
    /\ conn' = [conn EXCEPT ![c].pc = "effect", ![c].name = state.root]
    /\ UNCHANGED <<task, cancelVars, disk, minted, server, restarts>>

-----------------------------------------------------------------------------
(* Effects of a request: executor/mod.rs execute, engine.rs                *)

\* spawn_build_task up to tokio::spawn: install_cancel_handle.
SpawnBuild(c) ==
    LET t == conn[c].build
    IN /\ conn[c].pc = "effect" /\ conn[c].req = "build"
       /\ handle' = t
       /\ pending' = FALSE
       /\ tripped' = IF pending THEN tripped \cup {t} ELSE tripped
       /\ task' = [task EXCEPT ![t].pc = "scheduled"]
       /\ conn' = [conn EXCEPT ![c] = IdleConnection]
       /\ UNCHANGED <<state, asked, disk, minted, server, restarts>>

\* cancel_active_build.
CancelActiveBuild(c) ==
    LET t == conn[c].build
    IN /\ conn[c].pc = "effect" /\ conn[c].req = "cancel_build"
       /\ IF handle # 0
             THEN tripped' = tripped \cup {handle} /\ UNCHANGED pending
             ELSE pending' = TRUE /\ UNCHANGED tripped
       /\ asked' = IF task[t].pc \in {"requested", "scheduled", "worker"}
                      THEN asked \cup {t} ELSE asked
       /\ conn' = [conn EXCEPT ![c] = IdleConnection]
       /\ UNCHANGED <<state, task, handle, disk, minted, server, restarts>>

DeleteProjectData(c) ==
    /\ conn[c].pc = "effect" /\ conn[c].req = "delete"
    /\ disk' = [disk EXCEPT ![conn[c].name] = EmptyDirectory]
    /\ conn' = [conn EXCEPT ![c] = IdleConnection]
    /\ UNCHANGED <<state, task, cancelVars, minted, server, restarts>>

-----------------------------------------------------------------------------
(* An upload of both files: wire/upload.rs handle_upload_atomic            *)

\* The build check comes first; a refused upload leaves no trace.
AcceptUpload(c, p) ==
    /\ server = "up" /\ conn[c].pc = "idle" /\ <<"upload", p>> \in Serves[c]
    /\ state.build # "Building" /\ minted < MaxUploads
    /\ minted' = minted + 1
    /\ conn' = [conn EXCEPT ![c] = [IdleConnection EXCEPT
                   !.pc = "upload_write", !.name = p, !.req = "upload",
                   !.upload_id = minted + 1]]
    /\ UNCHANGED <<state, task, cancelVars, disk, server, restarts>>

WriteUpload(c) ==
    /\ conn[c].pc = "upload_write"
    /\ disk' = [disk EXCEPT ![conn[c].name].payload = conn[c].upload_id]
    /\ conn' = [conn EXCEPT ![c].pc = "upload_context"]
    /\ UNCHANGED <<state, task, cancelVars, minted, server, restarts>>

SetUploadContext(c) ==
    /\ conn[c].pc = "upload_context"
    /\ state' = SetProjectContext(state, conn[c].name)
    /\ conn' = [conn EXCEPT ![c].pc = "upload_land",
                            ![c].on_disk = disk[conn[c].name].payload # 0]
    /\ UNCHANGED <<task, cancelVars, disk, minted, server, restarts>>

LandUpload(c) ==
    LET u == conn[c].upload_id
        found == conn[c].on_disk
    IN /\ conn[c].pc = "upload_land"
       /\ state' = UploadLanded(state, u, u, u, found, found)
       /\ conn' = [conn EXCEPT ![c] = IdleConnection]
       /\ UNCHANGED <<task, cancelVars, disk, minted, server, restarts>>

-----------------------------------------------------------------------------
(* A build: executor/build.rs                                              *)

\* Mutant: the sidecars of the build before are left in place.
BeginBuildUncleared(t) ==
    /\ task[t].pc = "scheduled" /\ state.root # NoProject
    /\ task' = [task EXCEPT ![t].pc = "worker", ![t].root = state.root]
    /\ UNCHANGED <<state, conn, cancelVars, disk, minted, server, restarts>>

\* The task's first step: snapshot the context, clear the sidecars, and get
\* as far as a worker, a failed GPU check or a failed launch.
BeginBuild(t) ==
    /\ task[t].pc = "scheduled"
    /\ disk' = IF state.root \in Project
                  THEN [disk EXCEPT ![state.root].exemptions = 0] ELSE disk
    /\ \/ /\ state.root # NoProject
          /\ task' = [task EXCEPT ![t].pc = "worker", ![t].root = state.root]
       \/ task' = [task EXCEPT ![t].pc = "gpu", ![t].root = state.root]
       \/ task' = [task EXCEPT ![t].pc = "report", ![t].root = state.root,
                               ![t].out = "failed"]
    /\ UNCHANGED <<state, conn, cancelVars, minted, server, restarts>>

ReportGpuFailure(t) ==
    /\ task[t].pc = "gpu"
    /\ state' = GpuCheckFailed(state)
    /\ task' = [task EXCEPT ![t].pc = "clear"]
    /\ UNCHANGED <<conn, cancelVars, disk, minted, server, restarts>>

\* The select loop sees the token and sends SIGTERM, once.
ObserveCancel(t) ==
    /\ task[t].pc = "worker" /\ t \in tripped /\ ~task[t].signaled
    /\ task' = [task EXCEPT ![t].signaled = TRUE]
    /\ UNCHANGED <<state, conn, cancelVars, disk, minted, server, restarts>>

ReadMetadata(t) ==
    /\ task[t].pc = "worker" /\ task[t].meta
    /\ state' = BuildMetadata(state, MaxFrame)
    /\ task' = [task EXCEPT ![t].meta = FALSE]
    /\ UNCHANGED <<conn, cancelVars, disk, minted, server, restarts>>

\* The pipe is drained and the exit status known: the order of the tests makes
\* a cancel win over a worker that had already succeeded.
DecideOutcome(t) ==
    /\ task[t].pc = "worker" /\ task[t].exit # "" /\ ~task[t].meta
    /\ task' = [task EXCEPT
                  ![t].pc = "report",
                  ![t].out = IF task[t].signaled \/ t \in tripped
                                THEN "cancelled"
                             ELSE IF task[t].exit = "ok" THEN "completed"
                             ELSE "failed"]
    /\ UNCHANGED <<state, conn, cancelVars, disk, minted, server, restarts>>

ReportBuild(t) ==
    LET root == task[t].root
    IN /\ task[t].pc = "report"
       /\ \/ /\ task[t].out = "completed"
             /\ state' = BuildCompleted(state, disk[root].exemptions)
          \/ /\ task[t].out = "cancelled"
             /\ state' = BuildCancelledEvent(state)
          \/ /\ task[t].out = "failed"
             /\ state' = BuildFailed(state, task[t].input)
       /\ task' = [task EXCEPT ![t].pc = "clear"]
       /\ UNCHANGED <<conn, cancelVars, disk, minted, server, restarts>>

\* Mutant: the build returns with its handle still installed.
ReturnWithHandle(t) ==
    /\ task[t].pc = "clear"
    /\ task' = [task EXCEPT ![t] = Returned(t)]
    /\ UNCHANGED <<state, conn, cancelVars, disk, minted, server, restarts>>

\* clear_cancel_handle: whichever handle is installed, and the latch.  The
\* task returns, and its locals and its token go.
ClearHandle(t) ==
    /\ task[t].pc = "clear"
    /\ handle' = 0 /\ pending' = FALSE
    /\ tripped' = tripped \ {t}
    /\ task' = [task EXCEPT ![t] = Returned(t)]
    /\ UNCHANGED <<state, conn, asked, disk, minted, server, restarts>>

-----------------------------------------------------------------------------
(* The worker process: frontend/build_worker.py main                       *)

\* Nobody waits for an orphan's exit status.
Exited(t, status) ==
    IF task[t].pc = "orphan" THEN Returned(t)
    ELSE [task[t] EXCEPT !.exit = status]

WorkerReads(t) ==
    /\ WorkerAlive(t) /\ task[t].input = 0
    /\ disk[task[t].root].payload # 0
    /\ task' = [task EXCEPT ![t].input = disk[task[t].root].payload]
    /\ UNCHANGED <<state, conn, cancelVars, disk, minted, server, restarts>>

\* make() leaves app_state.pickle as its last act; the META line follows.
WorkerPersists(t) ==
    /\ WorkerAlive(t) /\ task[t].input # 0 /\ ~task[t].persisted
    /\ disk' = [disk EXCEPT ![task[t].root].app = task[t].input]
    /\ task' = [task EXCEPT ![t].persisted = TRUE,
                            ![t].meta = task[t].pc = "worker"]
    /\ UNCHANGED <<state, conn, cancelVars, minted, server, restarts>>

\* scene_info.json, and build_exemptions.json when something was exempted.
WorkerSucceeds(t) ==
    /\ WorkerAlive(t) /\ task[t].persisted
    /\ \E exempted \in {0, task[t].input} :
          disk' = [disk EXCEPT
                     ![task[t].root].total_frames = MaxFrame,
                     ![task[t].root].exemptions =
                         IF exempted # 0 THEN exempted ELSE @]
    /\ task' = [task EXCEPT ![t] = Exited(t, "ok")]
    /\ UNCHANGED <<state, conn, cancelVars, minted, server, restarts>>

\* An error before the app is persisted, or a pipe nobody reads any more.
WorkerFails(t) ==
    /\ WorkerAlive(t)
    /\ ~task[t].persisted \/ task[t].pc = "orphan"
    /\ task' = [task EXCEPT ![t] = Exited(t, "error")]
    /\ UNCHANGED <<state, conn, cancelVars, disk, minted, server, restarts>>

WorkerInterrupted(t) ==
    /\ WorkerAlive(t) /\ task[t].signaled
    /\ task' = [task EXCEPT ![t] = Exited(t, "signal")]
    /\ UNCHANGED <<state, conn, cancelVars, disk, minted, server, restarts>>

-----------------------------------------------------------------------------
(* The process: serve.rs                                                   *)

\* The runtime is dropped: connections and build tasks with it, the engine's
\* memory too.  A worker has a process group of its own and goes on.
Abandon(why) ==
    /\ server' = why
    /\ state' = DefaultState
    /\ conn' = [c \in Conn |-> IdleConnection]
    /\ task' = [t \in Task |->
                  IF task[t].pc = "unused" THEN task[t]
                  ELSE IF WorkerAlive(t)
                  THEN [task[t] EXCEPT !.pc = "orphan", !.meta = FALSE]
                  ELSE Returned(t)]
    /\ handle' = 0 /\ pending' = FALSE /\ tripped' = {}
    /\ UNCHANGED <<asked, disk, minted, restarts>>

\* stop_when_idle: the idle time has passed, no request is open and nothing
\* is in progress.  It is polled by the task that accepts connections.
IdleStop ==
    /\ server = "up"
    /\ \A c \in Conn : conn[c].pc = "idle"
    /\ ~WorkInProgress(state)
    /\ Abandon("idle_stop")

\* Ctrl-C, a signal or a crash, at any point.
Shutdown ==
    /\ server = "up" /\ restarts < MaxRestarts
    /\ Abandon("shutdown")

Restart ==
    /\ server # "up" /\ restarts < MaxRestarts
    /\ server' = "up" /\ restarts' = restarts + 1
    /\ UNCHANGED <<state, conn, task, cancelVars, disk, minted>>

-----------------------------------------------------------------------------
ConnStep(c) ==
    \/ Select(c) \/ LoadApp(c) \/ EndRequest(c)
    \/ \E t \in Task : RequestBuild(c, t) \/ RequestCancel(c, t)
    \/ RequestDelete(c)
    \/ SpawnBuild(c) \/ CancelActiveBuild(c) \/ DeleteProjectData(c)
    \/ WriteUpload(c) \/ SetUploadContext(c) \/ LandUpload(c)

TaskStep(t) ==
    \/ BeginBuild(t) \/ ReportGpuFailure(t) \/ ObserveCancel(t)
    \/ ReadMetadata(t) \/ DecideOutcome(t) \/ ReportBuild(t) \/ ClearHandle(t)

WorkerEnds(t) == WorkerSucceeds(t) \/ WorkerFails(t) \/ WorkerInterrupted(t)
WorkerStep(t) == WorkerReads(t) \/ WorkerPersists(t) \/ WorkerEnds(t)

Next ==
    \/ \E c \in Conn, p \in Project :
          AcceptUpload(c, p) \/ \E r \in Request : Accept(c, p, r)
    \/ \E c \in Conn : ConnStep(c)
    \/ \E t \in Task : TaskStep(t) \/ WorkerStep(t)
    \/ IdleStop \/ Shutdown \/ Restart

Spec == Init /\ [][Next]_vars

\* The runtime polls every connection and every build, and a worker process
\* makes progress until it exits.  Nobody has to connect, stop or restart.
Fairness ==
    /\ \A c \in Conn : WF_vars(ConnStep(c))
    /\ \A t \in Task : WF_vars(TaskStep(t)) /\ WF_vars(WorkerStep(t))

FairSpec == Spec /\ Fairness

-----------------------------------------------------------------------------
(* Properties                                                              *)

\* Every variable keeps its type.
TypeOK ==
    /\ state \in ServerState
    /\ conn \in [Conn -> Connection]
    /\ task \in [Task -> BuildTask]
    /\ handle \in {0} \cup Task /\ pending \in BOOLEAN
    /\ tripped \subseteq Task /\ asked \subseteq Task
    /\ disk \in [Project -> Directory]
    /\ minted \in Upload
    /\ server \in {"up", "idle_stop", "shutdown"}
    /\ restarts \in 0 .. MaxRestarts

\* While the state says BUILDING there is a build still to report an outcome,
\* whatever project it was for: no interleaving of completions, cancels,
\* deletes and project switches leaves a BUILDING that nothing will end.
NoOrphanBuilding ==
    state.build = "Building" => \E t \in Task : InFlight(t)

\* With one project that is not deleted, the BUILDING guard keeps two workers
\* from ever writing the same project directory.
OneWorkerPerRoot ==
    \A t, u \in Task :
        WorkerAlive(t) /\ WorkerAlive(u) /\ task[t].root = task[u].root
            => t = u

\* The installed handle belongs to a build that is still to clear it: a cancel
\* is never sent to a build that is over.
HandleIsLive == handle # 0 => InFlight(handle) \/ task[handle].pc = "clear"

UploadOnItsWay(p) ==
    \E c \in Conn : /\ conn[c].pc \in {"upload_context", "upload_land"}
                    /\ conn[c].name = p

\* transitions/mod.rs:180: "A fresh upload invalidates any prior build: the app
\* artifact was for an earlier (data, param) tuple."  Built says that the app
\* on disk was built from the payload on disk.
BuiltMatchesPayload ==
    state.build = "Built" /\ ~UploadOnItsWay(state.name)
        => disk[state.name].app = disk[state.name].payload

\* state.rs:34: "Built: App ready to launch the solver."  A project that the
\* server calls built has an app, whichever project was building before.
BuiltHasApp == state.build = "Built" => disk[state.name].app # 0

\* The exemptions drawn over a built scene are the ones its own build made.
ExemptionsDescribeBuild ==
    state.build = "Built" =>
        state.exemptions \in {0, disk[state.name].app}

\* engine.rs:189, work_in_progress: "the work an idle stop must never end".
IdleStopSparesBuilds ==
    [][server' = "idle_stop" /\ server = "up"
         => \A t \in Task : ~InFlight(t)]_vars

\* engine.rs:46: a cancel that was accepted for a build and carried out before
\* that build's outcome is observed "instead of silently ignoring it".
CancelObserved == \A t \in asked : task[t].out # "completed"

\* A build reports: BUILDING ends, and with it the refusal of uploads.
BuildEnds == state.build = "Building" ~> state.build # "Building"
=============================================================================
