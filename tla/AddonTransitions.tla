-------------------------- MODULE AddonTransitions --------------------------
(***************************************************************************)
(* The Blender add-on's state machine: blender_addon/core/transitions.py   *)
(* over the record of core/state.py.  The source is one pure function      *)
(*     transition(state, event) -> (state, [effect, ...])                  *)
(* and so is this module: one operator per event, from the state (and the  *)
(* event's fields) to what it Handled, the next state with the effects.  A *)
(* guarded event that its guard turns away is Ignored.                     *)
(*                                                                         *)
(* The effects of one event touch different things, so their order does    *)
(* not matter and they are a record: what happens to the interrupt flag,   *)
(* to the animation buffer and to the connection, the jobs submitted to    *)
(* the I/O worker, and whether its poll slot is filled.                    *)
(*                                                                         *)
(* Left out: progress, traffic, messages, errors shown, violations and     *)
(* exemptions (the panel only shows them), the raw transfers and Exec; and *)
(* the answers that this server does not give to a request that names the  *)
(* project: one without a protocol version or an upload id, or with neither*)
(* status nor error, which _interpret_response turns away (version_ok),    *)
(* and one with an unknown status, which leaves the solver's phase alone.  *)
(***************************************************************************)
EXTENDS Naturals, Sequences

CONSTANTS
    MaxUploads,   \* bound on the uploads that ever land
    MaxFrame      \* the last frame of a scene

ASSUME BoundsAssumption == MaxUploads \in Nat /\ MaxFrame \in Nat

\* Mutant: the first answer after a start is taken at its word.
NoPollGuard == 0

\* In-flight stale polls to drain during STARTING.
STARTING_POLL_GUARD_DEPTH == 3

Upload == 0 .. MaxUploads
Frame == 0 .. MaxFrame

Solver == {"NO_DATA", "NO_BUILD", "BUILDING", "READY", "RESUMABLE",
           "STARTING", "RUNNING", "SAVING", "FAILED"}

AppState ==
    [phase : {"OFFLINE", "CONNECTING", "ONLINE"},
     server : {"UNKNOWN", "LAUNCHING", "RUNNING", "STOPPING"},
     solver : Solver,
     activity : {"IDLE", "BUILDING", "SENDING", "FETCHING", "APPLYING",
                 "EXECUTING", "ABORTING"},
     frame : Frame, active_upload_id : Upload, server_upload_id : Upload,
     pending_build : BOOLEAN,
     starting_poll_guard : 0 .. STARTING_POLL_GUARD_DEPTH,
     version_ok : BOOLEAN]

Offline ==
    [phase |-> "OFFLINE", server |-> "UNKNOWN", solver |-> "NO_DATA",
     activity |-> "IDLE", frame |-> 0, active_upload_id |-> 0,
     server_upload_id |-> 0, pending_build |-> FALSE,
     starting_poll_guard |-> 0, version_ok |-> TRUE]

Busy(s) == s.activity # "IDLE"

CanOperate(s) ==
    s.phase = "ONLINE" /\ s.server = "RUNNING" /\ ~Busy(s) /\ s.version_ok

\* A response.  mismatch: another protocol version; error: the error without a
\* status that a server sends when it cannot select the project; only the kind
\* "status" has a status.  stamp: how many commands the worker had carried out
\* when it came.
Status == {"NO_DATA", "NO_BUILD", "BUILDING", "READY", "RESUMABLE",
           "FAILED", "BUSY", "SAVE_AND_QUIT"}
Response ==
    [kind : {"empty", "mismatch", "error", "status"}, status : Status,
     frame : Frame, initialized : BOOLEAN, error : BOOLEAN,
     upload_id : Upload, stamp : Nat]
EmptyResponse ==
    [kind |-> "empty", status |-> "NO_DATA", frame |-> 0, initialized |-> FALSE,
     error |-> FALSE, upload_id |-> 0, stamp |-> 0]

-----------------------------------------------------------------------------
(* Effects                                                                 *)

\* A job of the I/O worker.  Of a fetch: the frame count it was told, whether
\* it takes only the latest frame, and the fetched list it was given.
JobKind == {"ping", "build", "cancel_build", "start", "resume", "delete",
            "terminate", "upload", "fetch_map", "fetch_frames", "launch",
            "stop", "validate"}
Job == [kind : JobKind, frame : Frame, latest : BOOLEAN, gen : Nat]
Do(kind) == [kind |-> kind, frame |-> 0, latest |-> FALSE, gen |-> 0]
FetchFrames(frame, latest) ==
    [kind |-> "fetch_frames", frame |-> frame, latest |-> latest, gen |-> 0]

NoEffects == [interrupt |-> "keep", buffer |-> "keep", link |-> "keep",
              jobs |-> << >>, poll |-> FALSE]
Jobs(js) == [NoEffects EXCEPT !.jobs = js]
Poll == [NoEffects EXCEPT !.poll = TRUE]
ClearAnimation == [NoEffects EXCEPT !.buffer = "clear"]

Handled(s, fx) == [app |-> s, fx |-> fx]
Ignored(s) == Handled(s, NoEffects)

-----------------------------------------------------------------------------
(* Connection                                                              *)

ConnectRequested(s) ==
    IF s.phase # "OFFLINE" THEN Ignored(s)
    ELSE Handled([s EXCEPT !.phase = "CONNECTING"],
                 [NoEffects EXCEPT !.link = "connect"])

Connected(s) ==
    Handled([s EXCEPT !.phase = "ONLINE", !.activity = "IDLE"],
            [Poll EXCEPT !.jobs = <<Do("validate")>>])

ConnectionFailed(s) == Handled([s EXCEPT !.phase = "OFFLINE"], NoEffects)

DisconnectRequested(s) ==
    Handled(Offline, [ClearAnimation EXCEPT !.link = "disconnect"])

ConnectionLost(s) == Handled(Offline, ClearAnimation)

-----------------------------------------------------------------------------
(* Server lifecycle                                                        *)

\* What a server that stopped answering takes with it.
ServerGone(s) ==
    [s EXCEPT !.server = "UNKNOWN", !.solver = "NO_DATA", !.activity = "IDLE",
              !.active_upload_id = 0, !.version_ok = TRUE]

StartServerRequested(s) ==
    IF s.phase # "ONLINE" \/ Busy(s) THEN Ignored(s)
    ELSE Handled([s EXCEPT !.server = "LAUNCHING"], Jobs(<<Do("launch")>>))

ServerLaunched(s) == Handled([s EXCEPT !.server = "RUNNING"], Poll)

StopServerRequested(s) ==
    IF s.server \notin {"RUNNING", "LAUNCHING"} THEN Ignored(s)
    ELSE Handled([s EXCEPT !.server = "STOPPING"], Jobs(<<Do("stop")>>))

ServerStopped(s) ==
    Handled(ServerGone(s), [NoEffects EXCEPT !.interrupt = "clear"])

ServerLost(s) == Handled(ServerGone(s), NoEffects)

-----------------------------------------------------------------------------
(* Server responses                                                        *)

Computing == {"STARTING", "RUNNING", "SAVING"}

\* The status read as a solver phase; the other statuses are phases' names.
SolverOf(r) ==
    CASE r.status = "BUSY" ->
           IF r.initialized \/ r.frame >= 1 THEN "RUNNING" ELSE "STARTING"
      [] r.status = "SAVE_AND_QUIT" -> "SAVING"
      [] OTHER -> r.status

\* An answer from before the start that is not let through.
HeldBack(s, r) ==
    /\ s.solver = "STARTING" /\ s.starting_poll_guard > 0
    /\ SolverOf(r) \notin Computing /\ ~r.error

\* Mutant: every answer that finds a start counts down.
CountsEveryAnswer(s, r) ==
    IF s.solver = "STARTING" THEN s.starting_poll_guard - 1 ELSE 0

GuardAfter(s, r) ==
    IF HeldBack(s, r) THEN s.starting_poll_guard - 1
    ELSE IF s.solver = "STARTING" /\ SolverOf(r) = "STARTING"
         THEN s.starting_poll_guard ELSE 0

\* An error turns a phase that would end something into FAILED; NO_BUILD is
\* such a phase while the build is awaited and once it is known to be refused.
Judged(s, r, phase) ==
    IF /\ r.error
       /\ \/ phase \in {"READY", "RESUMABLE", "FAILED"}
          \/ phase = "NO_BUILD" /\ s.activity = "BUILDING"
          \/ /\ phase = "NO_BUILD" /\ s.solver = "FAILED"
             /\ r.upload_id = s.server_upload_id
    THEN "FAILED" ELSE phase

Verdict(s, r) ==
    Judged(s, r, IF HeldBack(s, r) THEN "STARTING" ELSE SolverOf(r))

\* The server no longer holds the upload that this build is about.
Desync(s, r) ==
    /\ s.activity = "BUILDING"
    /\ IF s.active_upload_id = 0 THEN r.upload_id = 0
       ELSE r.upload_id # s.active_upload_id

\* Mutant: no fetch for the answer that says the run is over.
FetchesWhileRunning(s, solver) == solver \in Computing

\* The latest frame is fetched during a run, and once more when it is over.
FetchesLatest(s, solver) ==
    \/ solver \in Computing
    \/ s.solver \in Computing /\ solver \in {"READY", "RESUMABLE"}

\* The state read, without what the answer means for a build.
WithAnswer(s, r, solver, frame) ==
    [s EXCEPT !.solver = solver, !.server = "RUNNING", !.frame = frame,
              !.version_ok = TRUE, !.server_upload_id = r.upload_id,
              !.starting_poll_guard = GuardAfter(s, r),
              !.active_upload_id = IF s.activity = "BUILDING"
                                   THEN r.upload_id ELSE @]

ReadAs(s, r, solver, frame) ==
    Handled(IF Desync(s, r)
            THEN [WithAnswer(s, r, solver, frame)
                    EXCEPT !.activity = "IDLE", !.active_upload_id = 0]
            ELSE WithAnswer(s, r, solver, frame),
            IF FetchesLatest(s, solver)
            THEN Jobs(<<FetchFrames(frame, TRUE)>>) ELSE NoEffects)

InterpretStatus(s, r) ==
    ReadAs(s, r, Verdict(s, r), IF HeldBack(s, r) THEN 0 ELSE r.frame)

\* Mutant: an uploaded scene without a build ends a build as it ends an abort.
EndsAnyOperation(activity) ==
    {"READY", "RESUMABLE", "FAILED", "NO_DATA", "NO_BUILD"}

\* The phases that end what the add-on waits for.  NO_BUILD does not end a
\* build: it is what the server says until the build request reaches it.
Terminal(activity) ==
    {"READY", "RESUMABLE", "FAILED"} \cup
    (IF activity = "ABORTING" THEN {"NO_DATA", "NO_BUILD"} ELSE {})

Interpret(s, r) ==
    CASE r.kind = "empty" -> Handled(ServerGone(s), NoEffects)
      [] r.kind = "mismatch" ->
           Handled([s EXCEPT !.version_ok = FALSE], Jobs(<<Do("stop")>>))
      [] r.kind = "error" ->
           Handled([s EXCEPT !.server = "RUNNING", !.version_ok = TRUE,
                             !.server_upload_id = r.upload_id], NoEffects)
      [] r.kind = "status" -> InterpretStatus(s, r)

Concluded(s, read) ==
    CASE s.activity = "EXECUTING" ->
           Handled([read.app EXCEPT !.activity = "IDLE"], read.fx)
      [] /\ s.activity \in {"BUILDING", "ABORTING"}
         /\ read.app.activity # "IDLE"
         /\ read.app.solver \in Terminal(s.activity) ->
           Handled([read.app EXCEPT !.activity = "IDLE",
                                    !.active_upload_id = 0], read.fx)
      [] OTHER -> read

ServerPolled(s, r) == Concluded(s, Interpret(s, r))

\* Mutant: only what the server does is a reason to ask it.
PollTickForServer(s) ==
    IF s.solver \in Computing \cup {"BUILDING"}
    THEN Handled(s, Poll) ELSE Ignored(s)

\* A poll is due while the server works, while an abort waits for an answer,
\* and when a connected add-on does not know its server.
PollTick(s) ==
    IF \/ s.solver \in Computing \cup {"BUILDING"}
       \/ s.activity = "ABORTING"
       \/ s.phase = "ONLINE" /\ s.server = "UNKNOWN" /\ ~Busy(s)
    THEN Handled(s, Poll) ELSE Ignored(s)

-----------------------------------------------------------------------------
(* Builds and runs                                                         *)

BuildRequested(s) ==
    IF ~CanOperate(s) THEN Ignored(s)
    ELSE Handled([s EXCEPT !.activity = "BUILDING", !.solver = "BUILDING",
                           !.active_upload_id = 0], Jobs(<<Do("build")>>))

BuildPipelineRequested(s) ==
    IF ~CanOperate(s) THEN Ignored(s)
    ELSE Handled([s EXCEPT !.activity = "SENDING", !.pending_build = TRUE],
                 [interrupt |-> "clear", buffer |-> "clear", link |-> "keep",
                  jobs |-> <<Do("upload")>>, poll |-> FALSE])

UploadOnlyRequested(s) ==
    IF ~CanOperate(s) THEN Ignored(s)
    ELSE Handled([s EXCEPT !.activity = "SENDING", !.pending_build = FALSE],
                 [Jobs(<<Do("upload")>>) EXCEPT !.interrupt = "clear"])

UploadPipelineComplete(s) ==
    IF s.activity # "SENDING" THEN Ignored(s)
    ELSE IF s.pending_build
    THEN Handled([s EXCEPT !.activity = "BUILDING", !.solver = "BUILDING",
                           !.active_upload_id = 0, !.pending_build = FALSE],
                 Jobs(<<Do("build")>>))
    ELSE Handled([s EXCEPT !.activity = "IDLE"], NoEffects)

Starting(s) ==
    [s EXCEPT !.solver = "STARTING", !.frame = 0,
              !.starting_poll_guard = STARTING_POLL_GUARD_DEPTH]

RunRequested(s) ==
    IF ~CanOperate(s) \/ s.solver \notin {"READY", "RESUMABLE", "FAILED"}
    THEN Ignored(s)
    ELSE Handled(Starting(s),
                 [interrupt |-> "clear", buffer |-> "clear", link |-> "keep",
                  jobs |-> <<Do("start")>>, poll |-> FALSE])

ResumeRequested(s, from_frame) ==
    IF ~CanOperate(s) \/ s.solver \notin {"RESUMABLE", "FAILED"}
    THEN Ignored(s)
    ELSE Handled(Starting(s),
                 [Jobs(<<[Do("resume") EXCEPT !.frame = from_frame]>>)
                     EXCEPT !.interrupt = "clear"])

TerminateRequested(s) ==
    Handled([s EXCEPT !.activity = "ABORTING"],
            [interrupt |-> "set", buffer |-> "clear", link |-> "keep",
             jobs |-> <<Do("terminate")>>, poll |-> FALSE])

AbortRequested(s) ==
    Handled([s EXCEPT !.activity = "ABORTING", !.pending_build = FALSE],
            [ClearAnimation EXCEPT !.interrupt = "set"])

-----------------------------------------------------------------------------
(* Fetching                                                                *)

FetchRequested(s) ==
    IF Busy(s) THEN Ignored(s)
    ELSE Handled([s EXCEPT !.activity = "FETCHING"],
                 [Jobs(<<Do("fetch_map")>>) EXCEPT !.interrupt = "clear",
                                                   !.buffer = "clear"])

FetchMapComplete(s) == Handled(s, Jobs(<<FetchFrames(s.frame, FALSE)>>))

FetchComplete(s, total) ==
    Handled([s EXCEPT !.activity = IF total > 0 THEN "APPLYING" ELSE "IDLE"],
            NoEffects)

AllFramesApplied(s) ==
    IF s.activity # "APPLYING" THEN Ignored(s)
    ELSE Handled([s EXCEPT !.activity = "IDLE"], NoEffects)

\* Mutant: a stall is only a failure while frames are downloaded.
FailsOnlyFetching(s) ==
    IF s.activity # "FETCHING" THEN Ignored(s)
    ELSE Handled([s EXCEPT !.activity = "IDLE"], ClearAnimation)

FetchFailed(s) ==
    IF s.activity \notin {"FETCHING", "APPLYING"} THEN Ignored(s)
    ELSE Handled([s EXCEPT !.activity = "IDLE"], ClearAnimation)

-----------------------------------------------------------------------------
(* Queries and errors                                                      *)

\* The one query a panel sends as an operation of its own deletes the data.
QueryRequested(s) ==
    IF Busy(s) THEN Ignored(s)
    ELSE Handled([s EXCEPT !.activity = "EXECUTING"], Jobs(<<Do("delete")>>))

ErrorOccurred(s) ==
    Handled([s EXCEPT !.server = IF @ = "LAUNCHING" THEN "UNKNOWN" ELSE @,
                      !.activity = "IDLE", !.pending_build = FALSE],
            NoEffects)

-----------------------------------------------------------------------------
(* The dispatch on the event                                               *)

EventKind ==
    {"ConnectRequested", "Connected", "ConnectionFailed",
     "DisconnectRequested", "ConnectionLost", "StartServerRequested",
     "ServerLaunched", "StopServerRequested", "ServerStopped", "ServerLost",
     "ServerPolled", "PollTick", "BuildRequested", "BuildPipelineRequested",
     "UploadOnlyRequested", "UploadPipelineComplete", "RunRequested",
     "ResumeRequested", "TerminateRequested", "AbortRequested", "FetchRequested",
     "FetchMapComplete", "FetchComplete", "AllFramesApplied", "FetchFailed",
     "QueryRequested", "ErrorOccurred"}
\* number: the frames a fetch found, or the frame to resume from.
Event == [kind : EventKind, response : Response, number : Frame]
Plain(kind) == [kind |-> kind, response |-> EmptyResponse, number |-> 0]
Numbered(kind, n) == [Plain(kind) EXCEPT !.number = n]
Polled(r) == [Plain("ServerPolled") EXCEPT !.response = r]

Transition(s, e) ==
    CASE e.kind = "ConnectRequested" -> ConnectRequested(s)
      [] e.kind = "Connected" -> Connected(s)
      [] e.kind = "ConnectionFailed" -> ConnectionFailed(s)
      [] e.kind = "DisconnectRequested" -> DisconnectRequested(s)
      [] e.kind = "ConnectionLost" -> ConnectionLost(s)
      [] e.kind = "StartServerRequested" -> StartServerRequested(s)
      [] e.kind = "ServerLaunched" -> ServerLaunched(s)
      [] e.kind = "StopServerRequested" -> StopServerRequested(s)
      [] e.kind = "ServerStopped" -> ServerStopped(s)
      [] e.kind = "ServerLost" -> ServerLost(s)
      [] e.kind = "ServerPolled" -> ServerPolled(s, e.response)
      [] e.kind = "PollTick" -> PollTick(s)
      [] e.kind = "BuildRequested" -> BuildRequested(s)
      [] e.kind = "UploadOnlyRequested" -> UploadOnlyRequested(s)
      [] e.kind = "BuildPipelineRequested" -> BuildPipelineRequested(s)
      [] e.kind = "UploadPipelineComplete" -> UploadPipelineComplete(s)
      [] e.kind = "RunRequested" -> RunRequested(s)
      [] e.kind = "ResumeRequested" -> ResumeRequested(s, e.number)
      [] e.kind = "TerminateRequested" -> TerminateRequested(s)
      [] e.kind = "AbortRequested" -> AbortRequested(s)
      [] e.kind = "FetchRequested" -> FetchRequested(s)
      [] e.kind = "FetchMapComplete" -> FetchMapComplete(s)
      [] e.kind = "FetchComplete" -> FetchComplete(s, e.number)
      [] e.kind = "AllFramesApplied" -> AllFramesApplied(s)
      [] e.kind = "FetchFailed" -> FetchFailed(s)
      [] e.kind = "QueryRequested" -> QueryRequested(s)
      [] e.kind = "ErrorOccurred" -> ErrorOccurred(s)
=============================================================================
