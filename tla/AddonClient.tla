----------------------------- MODULE AddonClient -----------------------------
(***************************************************************************)
(* The Blender add-on at work against a server: the event queue that       *)
(* Blender's main thread drains (core/engine.py, core/facade.py), the one  *)
(* I/O worker with its command queue and poll slot, the connection         *)
(* attempts, each on a thread of its own (core/effect_runner.py), and the  *)
(* pump that applies fetched frames to the scene (core/client.py,          *)
(* core/frame_pump.py).  What an event does is in AddonTransitions.        *)
(*                                                                         *)
(* The server is ServerTransitions with a build worker and a solver that   *)
(* write frames; here it talks to this add-on alone.                       *)
(*                                                                         *)
(* A user is a bag of tokens: each request and each fault of the           *)
(* environment happens as often as the session has tokens for it, at any   *)
(* moment that the add-on's panel offers it.                               *)
(*                                                                         *)
(* Left out: a remote server that still answers after it was killed, which *)
(* _do_stop_server reports as an error before the same ServerStopped; and  *)
(* the frames that wait and the counters, which a fetch clears when the    *)
(* upload id has changed since the last one (_drop_stale_session_artifacts)*)
(* and which no session has at that moment: none fetches on both sides of  *)
(* an upload.                                                              *)
(***************************************************************************)
EXTENDS AddonTransitions, FiniteSets

CONSTANTS
    Sessions,    \* the situations a run may start from, with their tokens
    MaxRuns,     \* bound on the runs that ever start
    MaxQueue,    \* bound on the events that other threads leave waiting
    MaxTickets,  \* bound on the connection tickets
    TheProject   \* the add-on's project

NoProject == "NoProject"
Server == INSTANCE ServerTransitions WITH Project <- {TheProject}

Request == {"connect", "disconnect", "start_server", "stop_server",
            "transfer", "upload", "build", "run", "resume", "fetch",
            "terminate", "abort", "delete"}
Fault == {"no_host", "drop", "bad_root", "server_dies", "select_fails",
          "upload_fails", "build_fails", "solver_crashes", "stall"}

Ticket == 1 .. MaxTickets
RunId == 0 .. MaxRuns
Output == [1 .. MaxFrame -> RunId]
NoOutput == [n \in 1 .. MaxFrame |-> 0]

\* The server process and its disk: whether it runs, whether it speaks an
\* older protocol, the last upload id, the runs it has started, the run that
\* wrote each frame, whether the disk holds a built app, the frame of its
\* checkpoint (0: none), whether a launched solver has yet to clear the output,
\* the frame the run began at and the frame it has reached, and a cancel that
\* the build has yet to see.
Host == [up : BOOLEAN, old : BOOLEAN, minted : Upload, runs : RunId,
         out : Output, app : BOOLEAN, saved : Frame,
         boot : {"no", "fresh", "resume"}, from : Frame, at : Frame,
         cancel : BOOLEAN]

SessionType ==
    [app : AppState, srv : Server!ServerState, host : Host, applied : Output,
     left : [Request \cup Fault -> Nat]]

ASSUME ClientAssumption ==
    /\ MaxRuns \in Nat /\ MaxQueue \in Nat /\ MaxTickets \in Nat \ {0}
    /\ TheProject # NoProject
    /\ Sessions \subseteq SessionType

VARIABLES
    app,     \* Engine._state
    events,  \* Engine._queue
    draining,\* the main thread is in the loop of Engine.tick
    io,      \* what EffectRunner shares between its threads
    worker,  \* the I/O worker: its place, its job, what it has to report
    dial,    \* the connection attempt holding each ticket
    open,    \* the attempts whose transport is open
    scene,   \* the frames in the scene and in Blender's fetched list
    srv,     \* the server's state
    host,    \* the server's process and disk
    left,    \* the session's tokens
    orders   \* history: builds, starts and resumes given to the worker and
             \* the ones it has carried out

vars == <<app, events, draining, io, worker, dial, open, scene, srv, host,
          left, orders>>

\* prior: the runs before the scene was last cleared for one.
Scene == [applied : Output, prior : RunId]

\* gen names the list object in _fetched: a reassignment makes another one.
Pending == [n : 1 .. MaxFrame, of : RunId]
Io == [interrupt : BOOLEAN, gen : Nat, fetched : SUBSET (1 .. MaxFrame),
       frames : Seq(Pending), total : Nat, applied : Nat,
       cmds : Seq(Job), poll : BOOLEAN,
       backend : {0} \cup Ticket, epoch : Nat]

\* after: the command is done and its status poll is due.
Worker == [pc : {"idle", "fetch", "append", "report", "after"}, job : Job,
           event : Event, todo : SUBSET (1 .. MaxFrame),
           next : Frame, data : RunId, count : Frame]
IdleWorker == [pc |-> "idle", job |-> Do("ping"), event |-> Plain("PollTick"),
               todo |-> {}, next |-> 0, data |-> 0, count |-> 0]

Dial == {"unused", "dialing", "probing", "over"}

Init ==
    \E x \in Sessions :
      LET online == x.app.phase = "ONLINE" IN
      /\ app = x.app /\ srv = x.srv /\ host = x.host /\ left = x.left
      /\ events = << >> /\ draining = FALSE /\ worker = IdleWorker
      /\ scene = [applied |-> x.applied, prior |-> 0]
      /\ dial = [t \in Ticket |-> IF online /\ t = 1 THEN "over" ELSE "unused"]
      /\ open = IF online THEN {1} ELSE {}
      /\ io = [interrupt |-> FALSE, gen |-> 0, fetched |-> {},
               frames |-> << >>, total |-> 0, applied |-> 0,
               cmds |-> << >>, poll |-> FALSE,
               backend |-> IF online THEN 1 ELSE 0,
               epoch |-> IF online THEN 1 ELSE 0]
      /\ orders = [given |-> 0, taken |-> 0]

RequestEvent ==
    [connect |-> "ConnectRequested", disconnect |-> "DisconnectRequested",
     start_server |-> "StartServerRequested",
     stop_server |-> "StopServerRequested",
     transfer |-> "BuildPipelineRequested", upload |-> "UploadOnlyRequested",
     build |-> "BuildRequested", run |-> "RunRequested",
     resume |-> "ResumeRequested", fetch |-> "FetchRequested",
     terminate |-> "TerminateRequested", abort |-> "AbortRequested",
     delete |-> "QueryRequested"]

Requested == {RequestEvent[r] : r \in Request}

Spend(token) == left[token] > 0 /\ left' = [left EXCEPT ![token] = @ - 1]

Queued(kinds) == \E i \in 1 .. Len(events) : events[i].kind \in kinds

\* What another thread reports waits for the main thread.
Own == {"PollTick", "AllFramesApplied"} \cup Requested
Reported == {i \in 1 .. Len(events) : events[i].kind \notin Own}
Send(e) == Cardinality(Reported) < MaxQueue /\ events' = Append(events, e)

-----------------------------------------------------------------------------
(* Effects, carried out on the main thread                                 *)

Reassigned(fetched, r) == [r EXCEPT !.fetched = fetched, !.gen = @ + 1]

Cleared(r) == [r EXCEPT !.frames = << >>, !.total = 0, !.applied = 0]

\* A fetch is submitted with the list that is current now.
Submitted(fx, r) ==
    [r EXCEPT
       !.interrupt = CASE fx.interrupt = "set" -> TRUE
                       [] fx.interrupt = "clear" -> FALSE
                       [] fx.interrupt = "keep" -> @,
       !.cmds = @ \o [i \in 1 .. Len(fx.jobs) |->
                        IF fx.jobs[i].kind = "fetch_frames"
                        THEN [fx.jobs[i] EXCEPT !.gen = r.gen]
                        ELSE fx.jobs[i]],
       !.poll = @ \/ fx.poll]

\* _do_disconnect: the ticket first, so that an attempt in flight finds it
\* gone, then the backend that is published.
Disconnected(r) ==
    Reassigned({}, Cleared([r EXCEPT !.backend = 0, !.epoch = @ + 1]))

Linked(fx, r) ==
    CASE fx.link = "connect" -> [r EXCEPT !.epoch = @ + 1]
      [] fx.link = "disconnect" -> Disconnected(r)
      [] fx.link = "keep" -> r

IsOrder(job) == job.kind \in {"build", "start", "resume"}
Orders(jobs) == Cardinality({i \in 1 .. Len(jobs) : IsOrder(jobs[i])})

\* Engine.tick: the main thread takes the events in their order, each with its
\* transition and its effects, until none is left; the other threads go on.
Buffer(fx, r) == IF fx.buffer = "clear" THEN Cleared(r) ELSE r
Carried(done) ==
    /\ app' = done.app
    /\ io' = Linked(done.fx, Submitted(done.fx, Buffer(done.fx, io)))
    /\ dial' = IF done.fx.link = "connect"
               THEN [dial EXCEPT ![io.epoch + 1] = "dialing"] ELSE dial
    /\ open' = IF done.fx.link = "disconnect" THEN open \ {io.backend} ELSE open
    /\ orders' = [orders EXCEPT !.given = @ + Orders(done.fx.jobs)]

Drain ==
    /\ draining /\ Carried(Transition(app, Head(events)))
    /\ events' = Tail(events) /\ draining' = (Tail(events) # << >>)
    /\ UNCHANGED <<worker, scene, srv, host, left>>

\* The main thread dispatches an event of its own and drains the queue.
Dispatch(e) ==
    /\ ~draining /\ draining' = TRUE /\ events' = Append(events, e)

-----------------------------------------------------------------------------
(* Blender's main thread                                                   *)

EngineIsIdle ==
    events = << >> /\ ~Busy(app)
    /\ app.solver \notin Computing \cup {"BUILDING"}

\* facade.py _persistent_tick: the poll tick.  One that would find no event and
\* ask for a poll that is asked for, or is not due, is left out.
NothingToTick ==
    events = << >> /\ (EngineIsIdle \/ (PollTick(app).fx.poll => io.poll))
PersistentTick ==
    /\ ~NothingToTick /\ Dispatch(Plain("PollTick"))
    /\ UNCHANGED <<app, io, worker, dial, open, scene, srv, host, left, orders>>

\* A fetch that nobody works on any more.
FetchJobs == {"fetch_map", "fetch_frames"}
FetchEvents == {"FetchMapComplete", "FetchComplete", "FetchFailed"}
NobodyFetches ==
    /\ worker.pc = "idle" \/ worker.job.kind \notin FetchJobs
    /\ \A i \in 1 .. Len(io.cmds) : io.cmds[i].kind \notin FetchJobs
    /\ ~Queued(FetchEvents)
    /\ io.frames = << >> /\ ~(io.total > 0 /\ io.applied >= io.total)

Downloading == app.activity \in {"FETCHING", "APPLYING"}

\* What the main thread leaves waiting for its own next tick, once.
Post(e) == ~draining /\ ~Queued({e.kind}) /\ events' = Append(events, e)

\* facade.py _watchdog_check: 30 s in one activity at one progress value.
Watchdog ==
    /\ Downloading /\ NobodyFetches /\ Post(Plain("FetchFailed"))
    /\ UNCHANGED <<app, draining, io, worker, dial, open, scene, srv, host, left, orders>>

\* The same, over a fetch that takes its time.
Stall ==
    /\ Downloading /\ ~NobodyFetches /\ Spend("stall")
    /\ Post(Plain("FetchFailed"))
    /\ UNCHANGED <<app, draining, io, worker, dial, open, scene, srv, host, orders>>

\* client.py apply_animation, one frame: it goes from the buffer to the scene,
\* and when a Fetch All has no more to come the engine is told.  It is told
\* again as long as the frames are counted; one such event waits at a time.
Pump ==
    LET took == io.frames # << >>
        applied == IF took THEN io.applied + 1 ELSE io.applied
        tells == /\ io.total > 0 /\ applied >= io.total
                 /\ ~Queued({"AllFramesApplied"})
    IN /\ ~draining /\ (took \/ (tells /\ ~EngineIsIdle))
       /\ IF took
          THEN /\ io' = [io EXCEPT !.frames = Tail(@), !.applied = applied]
               /\ scene' = [scene EXCEPT !.applied[io.frames[1].n] =
                                             io.frames[1].of]
          ELSE UNCHANGED <<io, scene>>
       /\ IF tells THEN Post(Plain("AllFramesApplied")) ELSE UNCHANGED events
       /\ UNCHANGED <<app, draining, worker, dial, open, srv, host, left, orders>>

-----------------------------------------------------------------------------
(* What the user asks, where the panel offers it                           *)

Idle == CanOperate(app)
Online == app.phase = "ONLINE"

\* is_running: the newest answer, which the panel reads before the engine
\* does, says that the server computes.
SaysComputing(e) ==
    e.kind = "ServerPolled" /\ e.response.status \in {"BUSY", "SAVE_AND_QUIT"}
NotComputing ==
    app.solver \notin Computing
    /\ \A i \in 1 .. Len(events) : ~SaysComputing(events[i])

Finished == {"READY", "RESUMABLE", "FAILED"}

Offered(r) ==
    CASE r = "connect" -> app.phase = "OFFLINE" /\ io.epoch < MaxTickets
      [] r = "disconnect" ->
           /\ app.phase # "OFFLINE" /\ io.epoch < MaxTickets
           /\ app.activity \notin {"SENDING", "FETCHING", "APPLYING"}
      [] r = "start_server" -> Online /\ app.server # "RUNNING" /\ ~Busy(app)
      [] r = "stop_server" ->
           \/ app.server = "LAUNCHING"
           \/ /\ Online /\ app.server = "RUNNING"
              /\ app.activity \notin {"SENDING", "FETCHING", "APPLYING"}
      [] r \in {"transfer", "upload"} ->
           Idle /\ NotComputing /\ app.solver # "BUILDING"
      [] r = "build" ->
           Idle /\ NotComputing /\ app.solver \in {"NO_BUILD", "READY", "RESUMABLE"}
      [] r = "run" -> Idle /\ NotComputing /\ app.solver \in Finished
      [] r = "resume" ->
           /\ Idle /\ NotComputing /\ app.solver \in {"RESUMABLE", "FAILED"}
           /\ host.saved # 0
      [] r = "fetch" ->
           /\ Idle /\ NotComputing /\ app.solver \in Finished
           /\ app.frame > 0 /\ io.frames = << >>
      [] r = "terminate" -> Online /\ app.solver \in Computing
      [] r = "abort" ->
           app.activity \in {"BUILDING", "SENDING", "FETCHING", "APPLYING"}
      [] r = "delete" ->
           /\ Idle /\ NotComputing /\ app.solver # "BUILDING"
           /\ app.solver # "NO_DATA"

\* A request changes the runner's lists, if at all, and is dispatched.
AsksWith(r, e) ==
    /\ Offered(r) /\ Spend(r) /\ Dispatch(e)
    /\ UNCHANGED <<app, worker, dial, open, srv, host, orders>>

\* Most requests are their event and no more.
JustAsk ==
    /\ \E r \in Request \ {"run", "resume", "fetch", "abort"} :
         AsksWith(r, Plain(RequestEvent[r]))
    /\ UNCHANGED <<io, scene>>

\* The scene is cleared for the run, and so are both fetched lists.
AskRun ==
    /\ AsksWith("run", Plain("RunRequested")) /\ io' = Reassigned({}, io)
    /\ scene' = [applied |-> NoOutput, prior |-> host.runs]

InScene == {n \in 1 .. MaxFrame : scene.applied[n] # 0}

\* Resume from a frame: what lies past it is to be fetched again.
AskResume ==
    /\ AsksWith("resume", Numbered("ResumeRequested", host.saved))
    /\ io' = Reassigned({n \in InScene : n <= host.saved}, io)
    /\ UNCHANGED scene

AskFetch ==
    /\ AsksWith("fetch", Plain("FetchRequested"))
    /\ io' = Reassigned(InScene, io) /\ UNCHANGED scene

\* The cancel of a build goes to the worker before the engine is told.
AskAbort ==
    /\ AsksWith("abort", Plain("AbortRequested"))
    /\ io' = IF app.activity = "BUILDING"
             THEN [io EXCEPT !.cmds = Append(@, Do("cancel_build"))] ELSE io
    /\ UNCHANGED scene

-----------------------------------------------------------------------------
(* The server, as the worker's requests find it                            *)

Reachable == io.backend \in open /\ host.up

Answered(s, taken) ==
    [kind |-> IF host.old THEN "mismatch" ELSE "status",
     status |-> Server!StatusString(s), frame |-> s.frame,
     initialized |-> s.initialized, error |-> s.error # "",
     upload_id |-> s.upload_id, stamp |-> taken]
Refused == [EmptyResponse EXCEPT !.kind = "error", !.error = TRUE,
                                 !.stamp = orders.taken]

\* What each request makes of the server's state; one that a guard turns away
\* changes nothing.  A cancel reaches the build, not the state.
Accepts(job) ==
    CASE job.kind = "build" -> Server!CanBuild(srv)
      [] job.kind = "cancel_build" -> Server!CanCancelBuild(srv)
      [] job.kind = "start" -> Server!CanStart(srv)
      [] job.kind = "resume" -> Server!CanResume(srv) /\ job.frame = host.saved
      [] job.kind = "delete" -> Server!CanDelete(srv)
      [] job.kind = "ping" -> FALSE

ServerAfter(job) ==
    CASE job.kind = "build" -> Server!BuildRequested(srv)
      [] job.kind = "start" -> Server!StartRequested(srv)
      [] job.kind = "resume" -> Server!ResumeRequested(srv)
      [] job.kind = "delete" -> Server!DeleteRequested(srv)
      [] job.kind = "cancel_build" -> srv

Launched(boot, from) ==
    [host EXCEPT !.runs = @ + 1, !.boot = boot, !.from = from, !.at = from]
NoFiles(h) == [h EXCEPT !.out = NoOutput, !.saved = 0, !.boot = "no", !.at = 0]

HostAfter(job) ==
    CASE job.kind = "build" -> [host EXCEPT !.cancel = FALSE]
      [] job.kind = "start" -> Launched("fresh", 0)
      [] job.kind = "resume" -> Launched("resume", job.frame)
      [] job.kind = "delete" -> [NoFiles(host) EXCEPT !.app = FALSE]
      [] job.kind = "cancel_build" -> [host EXCEPT !.cancel = TRUE]

-----------------------------------------------------------------------------
(* The I/O worker                                                          *)

\* _pick_job: commands before the poll.
NextJob == IF io.cmds # << >> THEN Head(io.cmds) ELSE Do("ping")
Taken == IF io.cmds # << >> THEN [io EXCEPT !.cmds = Tail(@)]
         ELSE [io EXCEPT !.poll = FALSE]
CountTaken ==
    orders' = [orders EXCEPT !.taken = @ + (IF IsOrder(NextJob) THEN 1 ELSE 0)]

Takes(kinds) ==
    /\ worker.pc = "idle" /\ (io.cmds # << >> \/ io.poll)
    /\ NextJob.kind \in kinds /\ CountTaken

Reports(job, event) ==
    worker' = [IdleWorker EXCEPT !.pc = "report", !.job = job, !.event = event]
Ends(job) == worker' = [IdleWorker EXCEPT !.pc = "after", !.job = job]

QueryJobs == {"ping", "build", "cancel_build", "start", "resume", "delete"}

\* _do_query.  Without a backend nothing happens; without an answer an empty
\* poll stays silent.
Query ==
    /\ Takes(QueryJobs) /\ io' = Taken
    /\ \/ /\ io.backend = 0 /\ worker' = IdleWorker
          /\ UNCHANGED <<srv, host, left>>
       \/ /\ io.backend # 0 /\ ~Reachable
          /\ IF NextJob.kind = "ping" THEN worker' = IdleWorker
             ELSE Reports(NextJob, Plain("ServerLost"))
          /\ UNCHANGED <<srv, host, left>>
       \/ /\ Reachable /\ ~Accepts(NextJob)
          /\ Reports(NextJob, Polled(Answered(srv, orders'.taken)))
          /\ UNCHANGED <<srv, host, left>>
       \/ /\ Reachable /\ Accepts(NextJob)
          /\ NextJob.kind \in {"start", "resume"} => host.runs < MaxRuns
          /\ srv' = ServerAfter(NextJob) /\ host' = HostAfter(NextJob)
          /\ Reports(NextJob, Polled(Answered(srv', orders'.taken)))
          /\ UNCHANGED left
       \/ /\ Reachable /\ Spend("select_fails")
          /\ Reports(NextJob, Polled(Refused)) /\ UNCHANGED <<srv, host>>
    /\ UNCHANGED <<app, draining, events, dial, open, scene>>

\* _do_terminate: the answer after the request, empty if there was none.
Terminate ==
    /\ Takes({"terminate"}) /\ io' = Taken
    /\ \/ io.backend = 0 /\ worker' = IdleWorker /\ UNCHANGED <<srv, host>>
       \/ /\ io.backend # 0 /\ ~Reachable
          /\ Reports(NextJob, Polled(EmptyResponse)) /\ UNCHANGED <<srv, host>>
       \/ /\ Reachable
          /\ srv' = Server!TerminateRequested(srv)
          /\ host' = [host EXCEPT !.boot = "no"]
          /\ Reports(NextJob, Polled(Answered(srv', orders.taken)))
    /\ UNCHANGED <<app, draining, events, dial, open, scene, left>>

\* An exception: what it means is decided when it is reported.
Raises(job) == Reports(job, Plain("ErrorOccurred"))

\* _do_upload_atomic: the upload lands whole, or it raises.
UploadAtomic ==
    /\ Takes({"upload"}) /\ io' = Taken
    /\ \/ io.backend = 0 /\ worker' = IdleWorker /\ UNCHANGED <<srv, host, left>>
       \/ /\ io.backend # 0 /\ (io.interrupt \/ ~Reachable)
          /\ Raises(NextJob) /\ UNCHANGED <<srv, host, left>>
       \/ /\ Reachable /\ Spend("upload_fails")
          /\ Raises(NextJob) /\ UNCHANGED <<srv, host>>
       \/ /\ Reachable /\ ~io.interrupt /\ host.minted < MaxUploads
          /\ LET u == host.minted + 1 IN
               /\ srv' = Server!UploadLanded(srv, u, u, u, TRUE, TRUE)
               /\ host' = [host EXCEPT !.minted = u]
          /\ Reports(NextJob, Plain("UploadPipelineComplete")) /\ UNCHANGED left
    /\ UNCHANGED <<app, draining, events, dial, open, scene>>

\* The state a launched server reads off its disk at the first request.
FromDisk ==
    Server!SwitchProject(Server!DefaultState,
        [name |-> TheProject,
         has_data |-> srv.data = "Uploaded", has_param |-> srv.data = "Uploaded",
         has_app |-> host.app, is_resumable |-> host.saved # 0,
         crash |-> srv.crash_kind, upload_id |-> srv.upload_id,
         data_hash |-> srv.data_hash, param_hash |-> srv.param_hash,
         total_frames |-> srv.total_frames, exemptions |-> 0])

\* _do_launch_server: a server that is up already is the one that answers.
LaunchServer ==
    /\ Takes({"launch"}) /\ io' = Taken
    /\ \/ io.backend = 0 /\ worker' = IdleWorker /\ UNCHANGED <<srv, host>>
       \/ io.backend # 0 /\ Raises(NextJob) /\ UNCHANGED <<srv, host>>
       \/ /\ io.backend \in open
          /\ srv' = IF host.up THEN srv ELSE FromDisk
          /\ host' = IF host.up THEN host
                     ELSE [host EXCEPT !.up = TRUE, !.old = FALSE]
          /\ Reports(NextJob, Plain("ServerLaunched"))
    /\ UNCHANGED <<app, draining, events, dial, open, scene, left>>

\* _do_stop_server ends the process, the build and the solver with it; the kill
\* that a remote server outlives is left out.
StopServer ==
    /\ Takes({"stop"}) /\ io' = Taken
    /\ \/ io.backend = 0 /\ worker' = IdleWorker /\ UNCHANGED host
       \/ /\ io.backend # 0
          /\ host' = IF io.backend \in open
                     THEN [host EXCEPT !.up = FALSE, !.boot = "no",
                                       !.cancel = FALSE] ELSE host
          /\ Reports(NextJob, Plain("ServerStopped"))
    /\ UNCHANGED <<app, draining, events, dial, open, scene, srv, left>>

\* _do_validate_path: nothing to say, or an error.
ValidatePath ==
    /\ Takes({"validate"}) /\ io' = Taken
    /\ \/ Ends(NextJob) /\ UNCHANGED left
       \/ /\ io.backend # 0 /\ Spend("bad_root")
          /\ Reports(NextJob, Plain("ErrorOccurred"))
    /\ UNCHANGED <<app, draining, events, dial, open, scene, srv, host>>

\* The report reaches the queue.  An exception over a transport that is gone is
\* a lost connection and empties the worker's own queue; an exception, a poll
\* and a stop are not followed by a status poll.
Raised == worker.job.kind \in {"upload", "launch"}
          /\ worker.event.kind = "ErrorOccurred"
ConnectionIsLost == Raised /\ io.backend # 0 /\ io.backend \notin open
Report ==
    /\ worker.pc = "report"
    /\ IF ConnectionIsLost
       THEN /\ Send(Plain("ConnectionLost"))
            /\ io' = [io EXCEPT !.cmds = << >>, !.poll = FALSE]
            /\ orders' = [orders EXCEPT !.taken = @ + Orders(io.cmds)]
       ELSE Send(worker.event) /\ UNCHANGED <<io, orders>>
    /\ IF Raised \/ worker.job.kind \in {"ping", "stop"}
       THEN worker' = IdleWorker ELSE Ends(worker.job)
    /\ UNCHANGED <<app, draining, dial, open, scene, srv, host, left>>

\* The status poll after a command, unless the next command is waiting: it
\* would carry the state from before that one.
AutoQuery ==
    /\ worker.pc = "after"
    /\ \/ /\ io.cmds # << >> \/ ~Reachable
          /\ worker' = IdleWorker /\ UNCHANGED left
       \/ /\ io.cmds = << >> /\ Reachable
          /\ Reports(Do("ping"), Polled(Answered(srv, orders.taken)))
          /\ UNCHANGED left
       \/ /\ io.cmds = << >> /\ Reachable /\ Spend("select_fails")
          /\ Reports(Do("ping"), Polled(Refused))
    /\ UNCHANGED <<app, draining, events, io, dial, open, scene, srv, host, orders>>

-----------------------------------------------------------------------------
(* Fetching                                                                *)

\* A live fetch (latest) fails in silence; a Fetch All reports.
FetchEndsWith(job, event) == IF job.latest THEN Ends(job) ELSE Reports(job, event)

FetchMap ==
    /\ Takes({"fetch_map"}) /\ io' = Taken
    /\ Reports(NextJob, Plain(IF Reachable THEN "FetchMapComplete"
                              ELSE "FetchFailed"))
    /\ UNCHANGED <<app, draining, events, dial, open, scene, srv, host, left>>

\* _count_remote_frames: the last frame with a file (0: none), and 0 if the
\* directory cannot be listed.
IsLastOnDisk(n) ==
    IF io.backend \in open
    THEN /\ n > 0 => host.out[n] # 0
         /\ \A m \in (n + 1) .. MaxFrame : host.out[m] = 0
    ELSE n = 0

\* A Fetch All believes the disk before the status; a live fetch the status,
\* unless that knows of no frame.
FrameCount(job, disk) ==
    IF job.latest
    THEN IF job.frame >= 1 THEN job.frame ELSE disk
    ELSE IF disk > 0 THEN disk ELSE job.frame

Wanted(job, count) ==
    (IF job.latest THEN {count} ELSE 1 .. count) \ io.fetched

Stale(job) == job.gen # io.gen

\* _do_fetch_frames up to its loop.
FetchFramesBegin ==
    /\ Takes({"fetch_frames"})
    /\ \E disk \in Frame :
       LET job == NextJob
           count == FrameCount(job, disk)
       IN
       /\ IsLastOnDisk(disk)
       /\ \/ /\ io.backend = 0
             /\ IF job.latest THEN worker' = IdleWorker
                ELSE Reports(job, Plain("FetchFailed"))
             /\ io' = Taken
          \/ /\ io.backend # 0 /\ count < 1
             /\ FetchEndsWith(job, Numbered("FetchComplete", 0)) /\ io' = Taken
          \/ /\ io.backend # 0 /\ count >= 1 /\ Stale(job)
             /\ FetchEndsWith(job, Plain("FetchFailed")) /\ io' = Taken
          \/ /\ io.backend # 0 /\ count >= 1 /\ ~Stale(job)
             /\ worker' = [IdleWorker EXCEPT !.pc = "fetch", !.job = job,
                                             !.todo = Wanted(job, count)]
             /\ io' = IF job.latest THEN Taken
                      ELSE [Taken EXCEPT !.total = Cardinality(Wanted(job, count)),
                                         !.applied = 0]
    /\ UNCHANGED <<app, draining, events, dial, open, scene, srv, host, left>>

\* The next frame's file is read, and then its frame is handed over.
Download ==
    /\ worker.pc = "fetch" /\ ~io.interrupt
    /\ \E n \in worker.todo :
         /\ \A m \in worker.todo : n <= m
         /\ IF Reachable /\ host.out[n] # 0
            THEN worker' = [worker EXCEPT !.pc = "append", !.next = n,
                                          !.data = host.out[n]]
            ELSE FetchEndsWith(worker.job, Plain("FetchFailed"))
    /\ UNCHANGED <<app, draining, events, io, dial, open, scene, srv, host, left, orders>>

\* The loop ends with its frames, or at an interrupt.
FetchFramesEnd ==
    /\ worker.pc = "fetch" /\ (worker.todo = {} \/ io.interrupt)
    /\ FetchEndsWith(worker.job, Numbered("FetchComplete", worker.count))
    /\ UNCHANGED <<app, draining, events, io, dial, open, scene, srv, host, left, orders>>

Buffered ==
    [io EXCEPT !.frames = Append(@, [n |-> worker.next, of |-> worker.data]),
               !.fetched = @ \cup {worker.next}]
OneFrameDone ==
    worker' = [worker EXCEPT !.pc = "fetch", !.next = 0, !.data = 0,
                             !.count = @ + 1, !.todo = @ \ {worker.next}]

\* Mutant: the list is not looked at again after the download.
HandOverBlindly == OneFrameDone /\ io' = Buffered

\* Under the lock of every reassignment: the list is still the one that this
\* fetch was given, or the frame is dropped.
HandOver ==
    IF Stale(worker.job)
    THEN FetchEndsWith(worker.job, Plain("FetchFailed")) /\ UNCHANGED io
    ELSE OneFrameDone /\ io' = Buffered

AppendFrame ==
    /\ worker.pc = "append" /\ HandOver
    /\ UNCHANGED <<app, draining, events, dial, open, scene, srv, host, left, orders>>

\* The interrupt reaches the download itself, which raises.
DownloadInterrupted ==
    /\ worker.pc = "append" /\ io.interrupt
    /\ FetchEndsWith(worker.job, Plain("FetchFailed"))
    /\ UNCHANGED <<app, draining, events, io, dial, open, scene, srv, host, left, orders>>

-----------------------------------------------------------------------------
(* Connection attempts                                                     *)

IsCurrent(t) == t = io.epoch

\* Mutant: whoever opens a transport publishes it.
AdoptAlways(t) ==
    /\ io' = [io EXCEPT !.backend = t] /\ open' = open \cup {t}
    /\ dial' = [dial EXCEPT ![t] = "probing"]

\* _adopt_backend, on a transport that has opened: published if the ticket is
\* still current, else closed.
AdoptBackend(t) ==
    IF IsCurrent(t)
    THEN /\ io' = [io EXCEPT !.backend = t] /\ open' = open \cup {t}
         /\ dial' = [dial EXCEPT ![t] = "probing"]
    ELSE /\ dial' = [dial EXCEPT ![t] = "over"] /\ UNCHANGED <<io, open>>

ConnectOpens(t) ==
    /\ dial[t] = "dialing" /\ AdoptBackend(t)
    /\ UNCHANGED <<app, draining, events, worker, scene, srv, host, left, orders>>

\* Mutant: an attempt that failed says so whether or not it was dropped.
FailureSpeaks(t) == TRUE

\* An abandoned attempt fails in silence.
FailureIsWanted(t) == IsCurrent(t)

ConnectFails(t) ==
    /\ dial[t] = "dialing" /\ Spend("no_host")
    /\ dial' = [dial EXCEPT ![t] = "over"]
    /\ IF FailureIsWanted(t) THEN Send(Plain("ConnectionFailed"))
       ELSE UNCHANGED events
    /\ UNCHANGED <<app, draining, io, worker, open, scene, srv, host, orders>>

\* After the probes: the connection is reported, or an attempt that was
\* dropped meanwhile closes what nobody else will.
ConnectReports(t) ==
    /\ dial[t] = "probing" /\ dial' = [dial EXCEPT ![t] = "over"]
    /\ IF IsCurrent(t) THEN Send(Plain("Connected")) /\ UNCHANGED open
       ELSE /\ open' = IF io.backend # t THEN open \ {t} ELSE open
            /\ UNCHANGED events
    /\ UNCHANGED <<app, draining, io, worker, scene, srv, host, left, orders>>

-----------------------------------------------------------------------------
(* The build, the solver and the faults around them                        *)

\* The app replaces the output of the build before.  A cancel that comes too
\* late finds the build done.
BuildEnds ==
    /\ host.up /\ srv.build = "Building"
    /\ \/ /\ srv' = Server!BuildCompleted(srv, 0)
          /\ host' = [NoFiles(host) EXCEPT !.app = TRUE, !.cancel = FALSE]
          /\ UNCHANGED left
       \/ /\ host.cancel /\ srv' = Server!BuildCancelledEvent(srv)
          /\ host' = [host EXCEPT !.cancel = FALSE] /\ UNCHANGED left
       \/ /\ Spend("build_fails") /\ srv' = Server!BuildFailed(srv, 0)
          /\ host' = [host EXCEPT !.cancel = FALSE]
    /\ UNCHANGED <<app, draining, events, io, worker, dial, open, scene, orders>>

Solving == host.up /\ srv.solver = "Running" /\ srv.build # "Building"

\* A fresh run removes every file of the output, a resumed one what lies past
\* its checkpoint; only then is the solver initialized.
SolverBoots ==
    /\ Solving /\ host.boot # "no"
    /\ srv' = Server!SolverInitialized(srv)
    /\ host' = IF host.boot = "fresh" THEN NoFiles(host)
               ELSE [host EXCEPT !.boot = "no",
                       !.out = [n \in 1 .. MaxFrame |->
                                  IF n <= host.from THEN host.out[n] ELSE 0]]
    /\ UNCHANGED <<app, draining, events, io, worker, dial, open, scene, left, orders>>

SolverAdvances ==
    /\ Solving /\ host.boot = "no" /\ host.at < MaxFrame
    /\ LET n == host.at + 1 IN
         /\ host' = [host EXCEPT !.at = n, !.out[n] = host.runs]
         /\ srv' = Server!SolverFrameUpdated(srv, n)
    /\ UNCHANGED <<app, draining, events, io, worker, dial, open, scene, left, orders>>

SolverFinishes ==
    /\ Solving /\ host.boot = "no" /\ host.at = MaxFrame
    /\ srv' = Server!SolverFinished(srv, host.saved # 0)
    /\ UNCHANGED <<app, draining, events, io, worker, dial, open, scene, host, left, orders>>

SolverCrashes ==
    /\ Solving /\ Spend("solver_crashes")
    /\ srv' = Server!SolverCrashed(srv, "panic", 0)
    /\ host' = [host EXCEPT !.boot = "no"]
    /\ UNCHANGED <<app, draining, events, io, worker, dial, open, scene, orders>>

\* An idle server ends: its idle timeout, or a kill.
ServerDies ==
    /\ host.up /\ ~Server!WorkInProgress(srv) /\ Spend("server_dies")
    /\ host' = [host EXCEPT !.up = FALSE]
    /\ UNCHANGED <<app, draining, events, io, worker, dial, open, scene, srv, orders>>

TransportDrops ==
    /\ io.backend \in open /\ Spend("drop")
    /\ open' = open \ {io.backend}
    /\ UNCHANGED <<app, draining, events, io, worker, dial, scene, srv, host, orders>>

\* _ping_loop, on a thread of its own.
Ping ==
    /\ io.backend # 0 /\ Online /\ app.server = "RUNNING"
    /\ ~draining /\ ~io.poll /\ io' = [io EXCEPT !.poll = TRUE]
    /\ UNCHANGED <<app, draining, events, worker, dial, open, scene, srv, host, left, orders>>

-----------------------------------------------------------------------------
User == JustAsk \/ AskRun \/ AskResume \/ AskFetch \/ AskAbort
MainThread == Drain \/ PersistentTick \/ Watchdog \/ Stall \/ Pump
IoWorker ==
    \/ Query \/ Terminate \/ UploadAtomic \/ LaunchServer \/ StopServer
    \/ ValidatePath \/ FetchMap \/ FetchFramesBegin \/ Download
    \/ FetchFramesEnd \/ AppendFrame \/ DownloadInterrupted
    \/ Report \/ AutoQuery
Attempt(t) == ConnectOpens(t) \/ ConnectFails(t) \/ ConnectReports(t)
SolverRun == SolverBoots \/ SolverAdvances \/ SolverFinishes
Environment ==
    BuildEnds \/ SolverCrashes \/ ServerDies \/ TransportDrops \/ Ping

Next ==
    \/ User \/ MainThread \/ IoWorker \/ (\E t \in Ticket : Attempt(t))
    \/ SolverRun \/ Environment

Spec == Init /\ [][Next]_vars

\* Blender's timers, the worker, the attempts, the build and the solver go on;
\* nobody has to ask, to fail or to ping.
Fairness ==
    /\ WF_vars(Drain) /\ WF_vars(PersistentTick)
    /\ SF_vars(Watchdog \/ Pump)
    /\ WF_vars(IoWorker) /\ WF_vars(\E t \in Ticket : Attempt(t))
    /\ WF_vars(BuildEnds) /\ WF_vars(SolverRun)

FairSpec == Spec /\ Fairness

-----------------------------------------------------------------------------
(* Properties                                                              *)

\* Every part of the state stays in its range: the poll guard of a start never
\* runs below zero, whatever answers a start meets, and the queue holds no more
\* than the reports of other threads and one post of each of the two timers.
TypeOK ==
    /\ app \in AppState /\ events \in Seq(Event) /\ draining \in BOOLEAN
    /\ io \in Io /\ worker \in Worker /\ dial \in [Ticket -> Dial]
    /\ open \subseteq Ticket /\ scene \in Scene
    /\ srv \in Server!ServerState /\ host \in Host
    /\ left \in [Request \cup Fault -> Nat]
    /\ orders \in [given : Nat, taken : Nat]

\* No transport is left open behind the add-on's back: it is the one published,
\* which a disconnect closes, or one whose attempt has yet to look whether it
\* was dropped.  Connection attempts race disconnects and one another; the
\* ticket and the lock around the publication decide (_adopt_backend,
\* _do_disconnect).
NoStrayTransport ==
    \A t \in open : io.backend = t \/ dial[t] = "probing"

\* An attempt that may still report is one the add-on is waiting for, unless
\* its transport has gone again: no report of a dropped attempt can have ended
\* the wait for the one started after it (_do_connect: an abandoned attempt
\* dispatches nothing).  It is about the attempts' own reports: a ConnectionLost
\* that the worker still has to say when the next attempt begins ends that one's
\* wait as well, and the sessions that reconnect are without it.
Underway(t) ==
    dial[t] = "dialing" \/ (dial[t] = "probing" /\ t \in open)
AttemptIsAwaited ==
    \A t \in Ticket :
      IsCurrent(t) /\ Underway(t) => app.phase = "CONNECTING"

\* A Fetch All never applies more frames than it counted: a live fetch that was
\* in flight when the list was renewed cannot slip a frame into the new count
\* (the check under _anim_lock in _do_fetch_frames).
AppliedWithinTotal ==
    Downloading /\ io.total > 0 => io.applied + Len(io.frames) <= io.total

\* The main thread is at an answer of the server.
AtAnswer == draining /\ Head(events).kind = "ServerPolled"

\* It came after everything that was ordered had been carried out.
UpToDate == Head(events).response.stamp = orders.given

\* An answer without an error ends a start only if the start had been carried
\* out: a status read before the request reached the server, and dispatched after
\* the user pressed Run, does not put the panel back to where it was
\* (starting_poll_guard).  FAILED is not spoken of: an answer with an error is let
\* past the guard at any age, so that after a crash a status from before Run may
\* put the panel back to FAILED.
StartNotEndedByStalePoll ==
    [][ /\ AtAnswer /\ app.solver = "STARTING" /\ app'.server = "RUNNING"
        /\ app'.solver \in {"NO_DATA", "NO_BUILD", "READY", "RESUMABLE"}
        => UpToDate ]_vars

\* An answer ends a build only if the build had been carried out: between the
\* upload and the build request the server says NO_BUILD, and to a poll that
\* fell in between the build looks refused (the terminal phases of
\* ServerPolled).
BuildNotEndedByStalePoll ==
    [][ /\ AtAnswer /\ app.activity = "BUILDING"
        /\ app'.activity = "IDLE" /\ app'.server = "RUNNING"
        => UpToDate ]_vars

\* When a Fetch All that nobody aborted is applied, the scene shows the output
\* that is on the server's disk, frame by frame, whatever live fetch it raced
\* (the two fetched lists and the counters of the animation buffer).  It takes a
\* frame that is in the scene for fetched: the frames it finds there have to be
\* of the output on disk, as after a run that cleared the scene and whose live
\* fetches came after its setup; after a resume they need not be.
FetchShowsOutput ==
    [][ /\ app.activity = "APPLYING" /\ app'.activity = "IDLE"
        /\ draining /\ Head(events).kind = "AllFramesApplied" /\ ~io.interrupt
        => \A n \in 1 .. MaxFrame :
             host.out[n] # 0 => scene.applied[n] = host.out[n] ]_vars

\* Whatever the add-on is busy with comes to an end as long as the server can
\* be reached: an upload, a build, a query and an abort, for which the poll is
\* asked for again until an answer is terminal (PollTick); and a fetch even when
\* it cannot be reached, whatever becomes of the worker's job and of the frames,
\* for the watchdog is left when everything else has stopped (_watchdog_check).
OperationEnds == Busy(app) ~> (~Busy(app) \/ (~Reachable /\ ~Downloading))

\* The server is done with a run that began at the first frame.
RunIsOver ==
    /\ host.runs > 0 /\ host.from = 0 /\ host.boot = "no"
    /\ srv.solver = "Idle" /\ host.out[MaxFrame] = host.runs

\* The last frame of a run reaches the scene without a Fetch All: the answer
\* that says the run is over starts one more live fetch, if nothing else is
\* asked of the add-on meanwhile (just_finished in _interpret_response).
LastFrameArrives ==
    RunIsOver /\ app.solver \in Computing ~>
      \/ scene.applied[MaxFrame] = host.runs
      \/ ~RunIsOver \/ ~Reachable \/ Busy(app)

\* After Run has cleared the scene, no frame of an earlier run comes back: the
\* comment on RunRequested promises that a poll around the start cannot
\* surface the prior run's tail as if it belonged to this one.
NoPriorTail ==
    \A n \in 1 .. MaxFrame :
      scene.applied[n] # 0 => scene.applied[n] > scene.prior
=============================================================================
