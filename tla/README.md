# The contact solver's server and its Blender add-on in TLA+

This directory specifies the control part of the repository: `ppf-cts-server`
(crates/ppf-cts-server over the state machine of crates/ppf-cts-core), the
build worker it spawns (frontend/build_worker.py), the solver process it
launches and watches (crates/ppf-cts-solver, crates/ppf-cts-formats/status),
and the add-on that drives it from Blender (blender_addon/core). Paths below
are relative to `src/crates/ppf-cts-server/src/` unless they name another
crate, or to `src/blender_addon/core/` where the add-on is spoken of.

## 1. Inventory

### The system

A Blender add-on (or a script) connects to one server process over TCP. A
connection carries one request: a TCMD command (status, build, cancel_build,
start, resume, terminate, save_and_quit, delete), an upload, or a stateless
transfer. The server holds one `ServerState`, replaced as a whole by a pure
function `transition(state, event) -> (state, effects)`; effects are carried
out after the lock is given back. Builds run in a Python subprocess, a
simulation in a bash launcher with the solver below it; a monitor task polls
what the solver leaves behind.

| Component | State it keeps | Operations | Who else touches it |
|---|---|---|---|
| State machine: ppf-cts-core transitions/mod.rs, state.rs, events.rs | project, data, build, solver, error, crash kind, frames, upload id, hashes, exemptions | one case per event | everyone, through `Engine::dispatch` |
| Engine: engine.rs | the state under a lock, the cancel handle, its pending latch, the activity clock | dispatch, set_project_context, install / cancel / clear handle, work_in_progress | connections, build tasks, monitor, idle stop |
| TCMD requests: wire/mod.rs | none of its own between its awaits but what it has read | reconcile from disk, dispatch ProjectSelected, dispatch the request's event, run the effects, answer | engine, project directory |
| Uploads: wire/upload.rs | temporary files, the minted upload id | check for a build, transfer, rename and stamp, set the context, UploadLanded | engine, project directory |
| Build executor: executor/build.rs | one task per build: name, root, child process, outcome | GPU check, spawn, select loop over cancel and stdout, outcome, dispatch, clear handle | engine, worker, sidecars on disk |
| Build worker: frontend/build_worker.py | its process | read the payload, persist the app, META, scene_info.json, build_exemptions.json, exit | project directory |
| Effects: executor/mod.rs, executor/session.rs | none | delete data, load app, kill, launch, save_and_quit | disk, processes |
| Launch and exit slot: executor/solver.rs | one process-wide slot: launch token and exit status | arm, disarm, record, release, snapshot; launch_solver | monitor, waiter tasks |
| Monitor: monitor.rs | the last solver state it saw, the start time of the run, where it is in a tick | tick: adopt, edges, post status, read evidence, verdict, seal, report | engine, slot, status record, process table |
| Status record: ppf-cts-formats status/mod.rs, ppf-cts-solver status_writer.rs | status.cbor, status.lock, terminate_request, save_and_quit | init, progress, terminal, write_terminal (first writer wins), panic hook | solver and monitor both write |
| Solver lifecycle: ppf-cts-solver main.rs | process, checkpoints | resolve --load, wipe, init, run, end | launcher, status record |
| Accept loop and idle stop: serve.rs | listener | accept, stop when idle, shutdown | engine |
| Add-on state machine: transitions.py, state.py, events.py, effects.py | phase, server, solver, activity, frame, upload ids, the poll guard of a start | one case per event; `_interpret_response` reads an answer | the engine, which alone calls it |
| Add-on engine and timers: engine.py, facade.py | the event queue, a flag for the drain | dispatch, tick (drain), persistent tick, watchdog | every thread dispatches, the main thread drains |
| Effect runner: effect_runner.py | command queue, poll slot, interrupt, backend and its ticket | one worker for queries, uploads, launches and fetches; a thread for each connection attempt; a ping loop | engine, backends, animation buffer |
| Fetch pipeline and frame pump: effect_runner.py, client.py, frame_pump.py | fetched list, buffer, counters of total and applied | count, download, append under `_anim_lock`, apply a frame | the worker fills, the main thread empties |

The add-on turns a click into an event; the main thread drains the queue, each
event giving a new state and effects; effects go to the worker's command queue
or start a thread; what these learn comes back as an event. The add-on knows
the server from its status strings alone, read at one moment and interpreted at
a later one.

### What is hard here

- Every connection and every build is a task on a multi-threaded runtime. A
  request takes the state lock several times and reads the disk without it; an
  event meets the state of *now*, the reconciliation carries the disk of
  *then*, and a build reports to whichever project is selected when it ends.
- One cancel handle and one pending latch are shared by all builds.
- A solver run has two processes, one exit slot, one lock file and one record,
  written by the solver and by the monitor, and erased by a launch.
- The monitor infers death from pieces read at different times, with a
  grace for a solver that is still booting.
- Workers and solvers outlive the server; a restart knows only the disk.
- In the add-on an answer may be older than the request that the user has made
  since: every reading of a status must tell an outcome from a state that is
  not yet reached. A connection attempt cannot be cancelled, only disowned. A
  fetch can be aborted, timed out and started again while its worker is still
  in the download before. Every button is held while an operation is on, so
  one that never ends is the end of the session.

Each hazard, with its line and the property that would catch it, is in
`PROJECT.json`.

### What makes each component correct

- State machine and engine: BUILDING always has a build that will end it;
  BUILT speaks of the app on disk; an accepted cancel is observed by its build.
- Build executor and worker: one worker per project directory; every build
  reports; the handle never names a build that is over.
- Idle stop: it never ends a server with a build in flight.
- Exit slot: a status it shows is that of the launch it is armed for.
- Monitor: every run gets a verdict; no verdict while the run computes; a crash
  with a record is sealed on disk before it is reported, unless the solver's own
  last word came in between; the first outcome on disk stays; a run stopped on
  request is not a crash.
- Add-on transitions: an answer from before a start or a build ends neither
  unless it carries an error; the guard that ensures it drains, and never below
  zero.
- Effect runner: no transport is left open that nobody will close; no attempt
  that was dropped speaks; every operation ends.
- Fetch pipeline: a Fetch All that ends as applied shows the output on disk, if
  the frames it found in the scene were of that output; its counters never
  overtake one another; the last frame of a run arrives.

## 2. Modules

| Module | Models | Extends |
|---|---|---|
| `ServerTransitions` | `transition()` and `ServerState`: one operator per event, guards as `Can...`; `StatusString`, `WorkInProgress`. No variables. | |
| `ServerBuild` | requests, uploads, builds, the worker, the cancel registry, the disk, idle stop, shutdown and restart | `ServerTransitions` |
| `SolverMonitor` | launches, the two processes of a run, exit slot, record, lock, request files, checkpoints, the monitor's tick | `ServerTransitions` |
| `LaunchExits` | the abstract promise of exit_watch, which `SolverMonitor` implements | |
| `AddonTransitions` | the add-on's `transition()`: one operator per event, each an outcome of state and effects. No variables. | |
| `AddonClient` | the engine's queue, the worker, the connection attempts, the buffer and its pump, against a server | `AddonTransitions`; `ServerTransitions` as an instance |
| `MCServerBuild`, `MCSolverMonitor` | instances for TLC: who may ask what | `ServerBuild`, `SolverMonitor` |
| `MCAddonClient` | the sessions for TLC: where the add-on starts, what may be asked and go wrong | `AddonClient` |
| `ServerTransitions_proof`, `ServerBuild_proof`, `SolverMonitor_proof` | theorems | their modules, TLAPS |
| `AddonTransitions_proof`, `AddonClient_proof` | theorems on the transitions; type correctness | their modules, TLAPS |
| `AddonLinks_proof` | theorems on the connection attempts | `AddonClient_proof` |
| `AddonFetch_proof` | theorems on Fetch All | `AddonLinks_proof` |

### ServerBuild

`state` is `EngineInner::state`; `handle` and `pending` are `CancelState`;
`tripped` the cancel tokens. `conn[c]` is a request in flight with what it has
read: `Accept` reads the disk (`Reconciled`), `Select` dispatches
ProjectSelected, `LoadApp` carries out its effect, `RequestBuild` and the like
dispatch the event, `SpawnBuild`, `CancelActiveBuild`, `DeleteProjectData` are
the effects. An upload is `AcceptUpload` (build check), `WriteUpload`,
`SetUploadContext`, `LandUpload`. `task[t]` is a build from its acceptance to
the clear of its handle: `BeginBuild` clears the sidecars and spawns,
`ObserveCancel` and `ReadMetadata` are the select loop, `DecideOutcome` the
match on the exit status, `ReportBuild` the dispatch, `ClearHandle` the last
line. The worker of a build steps on its own and survives `Shutdown` as an
orphan. `disk[p]` names for each artifact the upload it came from, which is
all the properties tell apart. `asked` is a history variable: the builds a
cancel was carried out against before their outcome was decided.

One step stands for several lines where nothing the properties see can come in
between: a reconciliation is one visit of the disk; an upload's id is minted
when it is accepted and its rename and stamp are one step; the clears of the
sidecars and the spawn of the worker are one step.

### SolverMonitor

One project stays selected and built. `run[r]` is a launch with its launcher
and solver; `slot` is `exit_watch::SLOT`; `record`, `lock`, `files` are the
output directory; `mon` is `MonitorContext` with the place in the tick and the
snapshot and record that the tick holds. A start is `RequestStart`, `Scrub`,
`KillSolvers`, `Spawn` (or `SpawnFails`); a terminate `RequestTerminate`,
`MarkTerminate`, `KillSolvers`; a save `RequestSaveAndQuit`, `TouchSaveAndQuit`.
The solver: `Exec`, `BootFails`, `InitSolver`, `Advance`, `BeginSave`,
`EndSave`, `Finish`, `Panic`, `AdvanceFails`, `Exit`, `Die`. A tick: `Snapshot`, `Scan`,
`Disarm`, `Adopt`, `Post`, `PostReport`, `Read`, one of the four `Decide...`,
`Seal`, `Report`. Each piece of evidence that another process can change is
read in a step of its own, the record well before the lock, which is where the
monitor's races live; what a decision reads after the record (lock, slot,
terminate_request) is read together, arm and spawn are one step, and so are
the wipe and the init of a solver's start.

`report_crash` reads intersection_records.json before it dispatches
(monitor.rs:492), and returns its error: `files.readable` says whether that file,
if there, can be read. Where it cannot, `Report`, `DecideTerminal` and
`PostReport` end the tick with nothing said and the edge mirror as it was
(`Unreported`). A failed advance writes the file after its record, renamed into
place but not synced, so that `AdvanceFails` may leave an unreadable one; a panic
leaves the file alone, and the setup of a fresh run removes it. A file that is
unreadable for a while and then is not is left out.

Abstractions: exit codes and signals are present or absent, causes are the
members of `CrashKind`, frames are 0 to `MaxFrame`. A record torn under a live
lock is not produced: the monitor waits on it, as on any live lock. The schema
mismatch, the recycled pid, the hold at a frame and server restarts are left
out.

The panel draws Terminate and Save and Quit from the add-on's last poll
(blender_addon/ui/main_panel.py:1112), and the API and the MCP tools send them
at any time, so a stop may reach the server in any phase and as often as
anybody likes. Two constants bound that: `StopsIn`, the phases in which a stop is
asked, and `AfterStart`, which leaves out a stop before any run was requested. A
Save and Quit that finds no run sets Saving all the same, and so arms the grace
of a launch that nobody has asked for; the monitor then calls a launch failed
that never was.

### AddonClient

`app` is `Engine._state`, `events` its queue and `draining` the loop of
`Engine.tick`; `io` is what the runner's threads share (command queue, poll
slot, interrupt, fetched list with the generation of its list object, buffer
and counters, backend and ticket); `worker` is the one I/O thread, `dial[t]` the
thread of ticket `t`, `open` the transports that are open, `scene` what has been
applied. `srv` is a `ServerState` of `ServerTransitions`, which `Accepts` and
`ServerAfter` step by the operators the server's own modules use; `host` is its
process and disk. `orders` is a history variable: how many builds and starts
were given to the worker, and carried out. `left` holds the session's tokens.

A user's click is `JustAsk`, `AskRun`, `AskResume`, `AskFetch` or `AskAbort`,
where `Offered` says which buttons the panel shows. `Drain` is one turn of the
tick: the event, its transition, all its effects. `PersistentTick`, `Watchdog`
(`Stall` where the fetch is only slow) and `Pump` are the timers of the main
thread. The worker: `Query`, `Terminate`, `UploadAtomic`, `LaunchServer`,
`StopServer`, `ValidatePath`, `FetchMap`, `FetchFramesBegin`, `Download`,
`AppendFrame`, `FetchFramesEnd`, `DownloadInterrupted`, then `Report` and
`AutoQuery`, the poll after a command. An attempt is `ConnectOpens`,
`ConnectFails`, `ConnectReports`. The server's side is `BuildEnds`,
`SolverBoots`, `SolverAdvances`, `SolverFinishes`, `SolverCrashes`; the faults
are `ServerDies`, `TransportDrops` and what the other actions `Spend`.

Taken as one step: an attempt's look at its ticket with the report that follows
it; a disconnect's effect; the listing of a remote directory with the check of
the list; an upload, which is streamed and lands whole; one frame of the pump.
The other threads act between any two of these, and between any two events of
a drain; the ping loop asks only outside a drain, where a poll that is asked
for twice is the same poll. Transports are those through which an output file
is read (SSH, Docker), not the local disk.

Left out: save_and_quit and kill, the raw transfers and Exec, the probes of the
GPU and of the build before a connect, the retries of a launch, a frame whose
application raises, and the co-located upload, which needs the server's
upload_notify; a remote server that outlives its kill, which is an error before
the same ServerStopped (effect_runner.py:1455-1469); the clearing of queued
frames and counters at a fetch that finds a new upload id
(`_drop_stale_session_artifacts`, effect_runner.py:1585-1631, called at 1708 and
1750), as no session fetches on both sides of an upload; and answers the server
does not give: without a protocol version, an upload id or a status, or with an
unknown status (transitions.py:785-789, 826-830, 909-925).

## 3. Runs

Bounds are CONSTANTs: `MaxUploads`, `MaxBuilds`, `MaxRestarts`, `MaxFrame`,
`MaxRuns`, `MaxQueue`, `MaxTickets`. All runs set CHECK_DEADLOCK FALSE: with
the bounds used up, or with the server stopped, nothing is left to do.

Passing runs:

- `build_owner` (1 project, 2 clients, 2 uploads, 2 builds, idle stops, fair):
  `OneWorkerPerRoot`, `BuiltMatchesPayload`, `ExemptionsDescribeBuild`,
  `IdleStopSparesBuilds`, `BuildEnds`. Two uploads make an app stale, two
  builds overlap with the tail of one another, the second client cancels and
  re-reads at every point. No restart and no delete: with them
  `BuiltMatchesPayload` and `OneWorkerPerRoot` fail (see `restart_stale_app`
  and the hazard at serve.rs:90).
- `build_projects` (2 projects, 2 builds, 1 restart, deletes): one client owns
  a project, another moves the selection. `NoOrphanBuilding`, `HandleIsLive`:
  the two facts that survive every interleaving, and the ones that are proved.
- `monitor_single` (1 run, 1 frame, from the start on all requests in every
  phase, fair): `NoFalseCrash`, `CrashIsSealed`, `OutcomeIsFinal`,
  `GetsVerdict`. One run already meets every branch of the tick. `CrashIsSealed`
  says what a reader of the disk finds of a reported crash: the cause reported
  or, for a death without a word, what the solver wrote after the monitor had
  read its record. In the second case FAILED stands over a record that says
  finished, which is not "the SAME cause" that monitor.rs:540 promises a
  reconnect. `GetsVerdict` excepts a run that was asked to terminate, which
  nobody is told the end of, and one whose intersection_records.json cannot be
  read (there every tick ends in an error, although monitor.rs:511 says that
  every crash is reported). With one run nothing stale is on disk;
  `NoFalseCrash` and `GetsVerdict` fail with a second one, which is what
  `stale_record_crash` and `grace_not_rearmed` are about. `CrashIsSealed` is
  said of one run, as a new launch erases the crash before.
- `monitor_relaunch` (2 runs that overlap): `SlotIsHonest`,
  `ImplementsLaunchExits`, `CrashTagIsCurrent`. Two launches are what it takes
  for a waiter to meet a slot armed for another, and for a crash to be there
  when a run starts or a launch fails. Stops come while the server says Running
  or Saving (`StopsIn`), to keep the states at a million; the theorems on these
  properties have no such bound.
- `addon_client` (2 uploads, 2 frames, 2 runs, 5 tickets, at most 2 reports of
  other threads waiting; fair): thirteen sessions, of which each starts the
  add-on in one situation and offers a few requests and faults. `Connecting`,
  `ServerLife`, `Stopping` and `Deleting` are about connections and the server,
  `Pipeline`, `DebugBuild` and `Reconnecting` about uploads and builds,
  `FetchingTwice` and `FetchStalling` about the fetch, `Running`, `Resuming`,
  `Terminating` and `Crashing` about runs. Together 177,000 states. Two frames
  are what it takes for a fetch to be half done, two connects and two
  disconnects for three tickets to meet, two fetches for the first one's tail to
  reach the second; no session can use up five tickets. Checked are
  `NoStrayTransport`, `AttemptIsAwaited`, `AppliedWithinTotal`,
  `StartNotEndedByStalePoll`, `BuildNotEndedByStalePoll`, `FetchShowsOutput`,
  `OperationEnds` and `LastFrameArrives`. `StartNotEndedByStalePoll` is about
  answers without an error: one that tells of the crash of the run before passes
  the guard at any age (transitions.py:952) and puts the panel back to FAILED.
  With MaxQueue 4, so that more reports wait than the guard of 3 counts, the
  property holds of `Running`, `Resuming` and `Rerun` as well; a guard of 1 then
  fails and one of 2 does not, as what waits are only in part answers from
  before the start.

Some sessions keep clear of races that the code loses. They are listed in
`PROJECT.json` where they are hazards; in short: ConnectionLost carries no
ticket, so that a late one can end the wait of a new attempt; a disconnect
drained before a waiting Connected leaves ONLINE with nothing behind it; a
delete followed at once by a build may have the delete's answer end the build; a
Build in READY can be ended by a READY answer under way (sessions with a build
start at NO_BUILD). No Fetch All of the passing sessions finds a frame of an
earlier output in the scene, as it would take that frame for fetched
(`FetchShowsOutput` fails, for one, when a resume writes a frame again that the
scene holds: facade.py:350), and none of them has a run beside a fetch that was
aborted or given up. A resumed run is left out of `LastFrameArrives`, as a live
fetch before the solver has discarded the old tail can bring the old last frame.

Runs that show the code doing other than what its comments say (each is a
finding in `PROJECT.json`, with the quoted line):

- `cancel_lost`: a build that has reported clears the handle and the latch of
  the next one; a cancel accepted for that is dropped.
- `restart_stale_app`: after an upload over a built project and a restart, the
  server says Built over the earlier payload's app.
- `built_elsewhere`: a build of one project makes the selected one Built.
- `grace_not_rearmed`: after a crash the edge that arms the grace timer does
  not come back; a run that dies before its record stays BUSY.
- `stale_record_crash`: between the dispatch of a start and the scrub of its
  launch a tick reports the crash of the run before.
- `terminated_crash`: a terminate during the boot is scrubbed by the solver's
  own init; the server's own SIGTERM is then reported as a crash.
- `rerun_old_tail`: Run is pressed while the disk holds the output of the run
  before. The first BUSY answer has frame 0, its live fetch counts the files on
  disk, and the old last frame appears in the scene just cleared.

### Fairness

`ServerBuild`: weak fairness of each connection, build task and worker. The
runtime polls every task that is ready; a worker is a process that runs on its
own, and its termination is an assumption about the scene build (the code
never kills a worker that ignores its SIGTERM, executor/build.rs:247). Nobody
has to connect, to stop or to restart.

`SolverMonitor`: weak fairness of the monitor (a loop on a timer), of each
connection's effects, of each run and of its waiter. The solver's progress is
an assumption about the simulation; that it ever dies of a signal that was not
sent to it is not assumed (`Die` is not fair, `DieOfSignal` is). The passage
of the grace is strongly fair, as a tick's decision disables it for a moment
again and again: time passes between two ticks. `GraceElapses` waits for the
effects of a launch in flight: the default grace (3 s) is taken to outlast a few
file operations and two scans of the process table. This is the one timing
assumption of the model.

`AddonClient`: weak fairness of the drain, the persistent tick, the worker, the
attempts, the build and the solver: Blender's timers, threads in loops, and
processes. Watchdog and pump are strongly fair together, as every drain
disables them for a moment; they are never both enabled. Nobody has to ask, to
fail or to ping, and `Stall` is not fair: a slow fetch need not be given up.
`OperationEnds` excuses an operation other than a fetch when the server cannot
be reached, because there the code itself waits for the user to disconnect.

## 4. What is proved

For every set of clients, projects and sessions and every bound, from the
assumptions `TransitionsAssumption`, `BuildAssumption`, `MonitorAssumption`,
`BoundsAssumption` and `ClientAssumption` (the bounds are natural numbers, the
empty name is no project, `Serves` assigns requests to clients, sessions are
well typed):

- `ServerBuild_proof!TypeCorrect`: `TypeOK`. It rests on the lemmas of
  `ServerTransitions_proof`, which say of each event that a well-typed state
  stays well typed. `TypeOK` alone is not inductive: what a request or a build
  holds across its awaits must fit the place where it is (`WellFormed`: a
  request about to select has a view of the disk, an effect of a build or a
  cancel has its build, a worker has a project directory).
- `BuildingHasBuild`: `NoOrphanBuilding`. Only an accepted build sets BUILDING
  (`ServerTransitions_proof` says so of every other event), and the step with
  which a build stops being in flight dispatches an event that leaves BUILDING.
- `HandleNamesLiveBuild`: `HandleIsLive`. A handle is installed for a build
  that is in flight, and every way to the end of a build passes through
  `ClearHandle`, which drops whichever handle there is.
- `IdleStopIsSafe`, `WorkersTakeTurns`,
  `ExemptionsAreOfTheApp`, `BuiltFromThePayload`: `IdleStopSparesBuilds`,
  `OneWorkerPerRoot`, `ExemptionsDescribeBuild` and `BuiltMatchesPayload`, for
  any clients, uploads, builds and cancels, in the deployment that `build_owner`
  instantiates and under hypotheses that name it. `OneProject` and
  `NeverDeleted` make BUILDING a lock (`GuardInv`: what is in flight is one
  build, and the state says BUILDING as long), since another selection or a
  delete takes BUILDING away from a build that goes on; the idle stop needs no
  more. `NeverRestarted` is for the others: a worker that outlives its server is
  a second one, and a restart calls built whatever app it finds. With it no
  orphan exists and `WorkInv` follows what a worker wrote from its process to
  the report. `OneOwner` (uploads and builds come from one client) is for the
  payload: an upload checks for a build once, when it is accepted, and writes
  later, so that another client's build can begin in between (`PayloadInv`: no
  upload is under way during a build).
- `SolverMonitor_proof!MonitorTypeCorrect`: `TypeOK`, with the same kind of
  strengthening (`LaunchesAreOwned`, `SlotIsSpawned`, `MonitorKnowsKind`): a
  launch between its dispatch and its spawn belongs to one connection, the slot
  only names launches that were spawned, a monitor about to report has a kind.
- `ExitSlotIsHonest`: `SlotIsHonest`, for any number of launches.
- `CrashTagNamesItsReport`: `CrashTagIsCurrent`, for any requests, runs and
  deaths (`EventsKeepTags` says it of each event, `TagStep` of each step).
- `ExitSlotImplementsLaunchExits`: the slot implements `LaunchExits`; the
  refinement maps the runs whose launcher is gone to `over`, and every step of
  the server, the processes and the monitor to an `Arm`, an `End`, a `Disarm`
  or a stutter.
- `FirstRunIsNotCalledCrashed`, `FirstCrashIsSealed`, `FirstOutcomeIsFinal`:
  `NoFalseCrash`, `CrashIsSealed` and `OutcomeIsFinal` for any connections,
  any requests of theirs, in whatever phase, and any number of frames, under
  `FirstRun` (one run is asked for, and no stop before it; the findings show what
  happens with a second). The invariant `FirstRunInv` follows the evidence the
  monitor reads piece by piece. The lock is held exactly while the solver is up
  (`RunIsNested`), the record is absent before, alive then and terminal after
  (`RecordFollows`), a slot that watches nothing means that the solver has been
  seen (`SlotFollows`), and the grace cannot run out before the spawn
  (`GraceFollows`, from `LaunchIsUnderWay`). So what the monitor read stays true
  enough while it decides (`ReadIsTrue`): it seals or reports only over a solver
  that is gone, although its record, its lock, its slot and its scan were read
  at different moments. A terminal record that was read is still the one on disk
  when it is reported, and a seal leaves either its own outcome or the solver's
  (`Sealed`), which is all a crash can be read back as.
- `ExitIsOfTheArmedLaunch`: what `LaunchExits` promises, of the slot itself, by
  way of the refinement: a verdict that is shown is of a launch that is over.
- `AddonTransitions_proof!TransitionType`: every event takes a state and any
  answer to a state and to effects the runner knows; with it, of answers:
  `HeldBackKeepsStart` (one held back leaves a start as it is and is counted),
  `NoBuildKeepsBuild` (NO_BUILD about the upload of a build does not end it)
  and `OnlyStartsArmTheGuard` (nothing but a run or a resume raises the guard,
  so that it cannot hold answers back for ever).
- `AddonClient_proof!AddonTypeCorrect`: `TypeOK`, for all sessions. It needs two
  facts beside the types: the main thread drains only a queue that is not empty
  (`QueueWellFormed`), and a download has counted as many frames as are no
  longer to do (`FetchWellFormed`), without which the count of a fetch could
  outgrow the scene.
- `AddonLinks_proof!NoTransportIsStray` and `TheAttemptIsAwaited`:
  `NoStrayTransport` and `AttemptIsAwaited` under `NoDrops`, that is, for
  sessions in which no transport breaks. Neither is inductive, as events wait in
  the queue that were sent under another ticket. `LinkInv` says which can: while
  an attempt is under way, no Connected, no ConnectionFailed and no
  ConnectRequested waits; a connect waits alone, in a drain that finds the
  add-on OFFLINE; an OFFLINE add-on between drains has no report of an attempt
  waiting; later tickets are unused; and nothing in the queue or in the worker
  is a ConnectionLost. The last is what `NoDrops` buys: a ConnectionLost carries
  no ticket, and with drops a late one can end the wait of a later attempt. So
  `AttemptIsAwaited` does not hold of every session, and sessions with a drop
  stay with the model checker.

- `AddonFetch_proof!NoMoreThanCounted`: `AppliedWithinTotal` under
  `ServerRests`, and `AllIsShown`: `FetchShowsOutput` under `ServerRests` and
  `SceneIsOfDisk`. `ServerRests` says of the beginning of a session that the
  server has output and nothing to do, and that the session has no request left
  that would make it work or change its disk, nor a fault that takes the server
  or the transport away. The user may fetch, abort, disconnect, connect and
  launch as often as they like, fetches may stall, and polls, pings and the pump
  come at any moment. `FetchingTwice` and `FetchStalling` of `addon_client` are
  such sessions. `RestInv` says that the server then stays at rest, and no answer
  that waits says that it computes.

  Why the promises are not obvious: a fetch that was aborted or given up goes on
  in the worker, its reports move the next one along, and two Fetch Alls can
  hold the same list. `LineInv` says who can be near the list: once a Fetch All
  is asked for, no live fetch has the current list or will get it, and a request
  is the last of its drain. `FetchInv` follows the counters from there. A
  download that may append has the current list and counts the frames it has
  still to take (`LoopCounts`); one that left the list behind with frames in the
  buffer was interrupted or had taken all there is (`NothingIsLeft`), so that the
  next count starts with an empty buffer, with one frame at most that an
  interrupt let through (`Interrupted`), or has nothing to count. `ShowInv` adds
  where the frames are: in the scene, in the buffer or still to do, and otherwise
  the count is not reached (`Told`), so that the pump does not speak; and what
  waits of its words is true or was interrupted (`Claimed`).

  Both hypotheses are needed. With a run beside a fetch that was aborted or given
  up, the model checker violates both properties: what the old fetch reports is
  drained after the run has replaced the list, and the Fetch All it starts has
  the list of the run's live fetches, which append to it uncounted. With a run
  beside fetches that nobody touches, `AppliedWithinTotal` holds as far as it was
  checked, and `FetchShowsOutput` fails when a frame of the run before is in the
  scene, by way of `rerun_old_tail` or because a resume left it there: Fetch All
  takes it for fetched.

Only model-checked: liveness (`BuildEnds`, `GetsVerdict`, `OperationEnds`,
`LastFrameArrives`), as fairness and ENABLED are beyond the prover; and of the
add-on `BuildNotEndedByStalePoll`, which holds of the sessions and not of every
order of requests, and `StartNotEndedByStalePoll`. The guard of a start counts
three answers while the queue they wait in has no bound (engine.py:114), and a
terminate that still waits when the next run is ordered adds one that nobody
counted, so that there is no theorem for every value of `MaxQueue` to prove. The
modules have no recursive
operators and no induction over data.

## 5. Not modelled

The responses (formatting of a snapshot), the data, notebook and force field
wires (stateless), the scene decoder, the simulation loop and its kernels
(numerics on floating point, out of a model checker's reach), host utilities
(GPU checks, process table), launchers, packaging and CI. The add-on's panels,
overlays and mesh tools compute on Blender's data and keep no protocol; its MCP
server is a queue of independent calls into the same facade. Server restarts
in `SolverMonitor`, the one-sided upload and upload_notify in `ServerBuild`, and
what the sections above name as left out.

## 6. Plan

1. Done: the state machine, builds and uploads, runs and monitor, the exit slot
   and its abstraction; the add-on's transitions, engine, runner and fetch
   pipeline against the server; the theorems above.
2. Next: `ServerSession`, builds and runs in one module (BuildCompleted sets
   the solver Idle, BuildFailed keeps the crash kind, a build clears
   status.cbor, a delete kills the solver, restarts read a crash from disk), and
   with it the one-sided upload and upload_notify.
3. `StatusRecord`: the record with its two writers and a reader as a component
   of its own, with an abstract write-once outcome that it implements.
4. Proofs: `OutcomeIsFinal` beyond a first run, `BuildNotEndedByStalePoll` for
   the uploads and builds of which it holds.
