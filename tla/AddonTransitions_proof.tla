----------------------- MODULE AddonTransitions_proof -----------------------
(***************************************************************************)
(* The add-on's transition function is total over its states, and what it  *)
(* promises of single answers, for any frames and uploads.                 *)
(***************************************************************************)
EXTENDS AddonTransitions, TLAPS

\* What the effects of one event may be.
Effects ==
    [interrupt : {"keep", "set", "clear"}, buffer : {"keep", "clear"},
     link : {"keep", "connect", "disconnect"}, jobs : Seq(Job),
     poll : BOOLEAN]

Outcome == [app : AppState, fx : Effects]

(* The first frame and the empty upload are there for any bounds.          *)
LEMMA Zeros == 0 \in Upload /\ 0 \in Frame /\ 0 \in 0 .. STARTING_POLL_GUARD_DEPTH
BY BoundsAssumption DEF Upload, Frame, STARTING_POLL_GUARD_DEPTH

(* The jobs that effects submit are jobs.                                  *)
LEMMA JobTypes ==
    /\ \A k \in JobKind : Do(k) \in Job
    /\ \A f \in Frame, b \in BOOLEAN : FetchFrames(f, b) \in Job
    /\ \A f \in Frame : [Do("resume") EXCEPT !.frame = f] \in Job
BY Zeros DEF Do, FetchFrames, Job, JobKind

(* The effects that most events have.                                      *)
LEMMA EffectTypes ==
    /\ NoEffects \in Effects /\ Poll \in Effects /\ ClearAnimation \in Effects
    /\ \A j \in Job : Jobs(<<j>>) \in Effects /\ <<j>> \in Seq(Job)
<1>1. << >> \in Seq(Job) /\ \A j \in Job : <<j>> \in Seq(Job)
  OBVIOUS
<1>2. NoEffects \in Effects
  BY <1>1 DEF NoEffects, Effects
<1>3. Poll \in Effects /\ ClearAnimation \in Effects
  BY <1>2 DEF Poll, ClearAnimation, Effects
<1>4. ASSUME NEW js \in Seq(Job)
      PROVE  Jobs(js) \in Effects
  BY <1>2 DEF Jobs, Effects
<1> QED
  BY <1>1, <1>2, <1>3, <1>4

(* A state with its effects is an outcome.                                 *)
LEMMA HandledType ==
    ASSUME NEW s \in AppState, NEW fx \in Effects
    PROVE  Handled(s, fx) \in Outcome
BY DEF Handled, Outcome

(* Connection events keep a state a state.                                 *)
LEMMA ConnectionEventsType ==
    ASSUME NEW s \in AppState
    PROVE  /\ ConnectRequested(s) \in Outcome /\ Connected(s) \in Outcome
           /\ ConnectionFailed(s) \in Outcome
           /\ DisconnectRequested(s) \in Outcome /\ ConnectionLost(s) \in Outcome
<1>1. Offline \in AppState
  BY Zeros DEF Offline, AppState, Solver
<1>2. /\ [s EXCEPT !.phase = "CONNECTING"] \in AppState
      /\ [s EXCEPT !.phase = "ONLINE", !.activity = "IDLE"] \in AppState
      /\ [s EXCEPT !.phase = "OFFLINE"] \in AppState
  BY DEF AppState
<1>3. /\ [NoEffects EXCEPT !.link = "connect"] \in Effects
      /\ [ClearAnimation EXCEPT !.link = "disconnect"] \in Effects
      /\ [Poll EXCEPT !.jobs = <<Do("validate")>>] \in Effects
  BY JobTypes, EffectTypes DEF Effects, JobKind
<1> QED
  BY <1>1, <1>2, <1>3, EffectTypes, HandledType
     DEF ConnectRequested, Connected, ConnectionFailed, DisconnectRequested,
         ConnectionLost, Ignored

(* The requests and reports about the server process.                      *)
LEMMA ServerEventsType ==
    ASSUME NEW s \in AppState
    PROVE  /\ ServerGone(s) \in AppState
           /\ StartServerRequested(s) \in Outcome /\ ServerLaunched(s) \in Outcome
           /\ StopServerRequested(s) \in Outcome /\ ServerStopped(s) \in Outcome
           /\ ServerLost(s) \in Outcome
<1>1. ServerGone(s) \in AppState
  BY Zeros DEF ServerGone, AppState, Solver
<1>2. \A v \in {"LAUNCHING", "RUNNING", "STOPPING"} :
         [s EXCEPT !.server = v] \in AppState
  BY DEF AppState
<1>3. [NoEffects EXCEPT !.interrupt = "clear"] \in Effects
  BY EffectTypes DEF Effects
<1>4. Do("launch") \in Job /\ Do("stop") \in Job
  BY JobTypes DEF JobKind
<1> QED
  BY <1>1, <1>2, <1>3, <1>4, EffectTypes, HandledType
     DEF StartServerRequested, ServerLaunched, StopServerRequested,
         ServerStopped, ServerLost, Ignored

(* What an answer says of the solver is one of its phases.                 *)
LEMMA VerdictType ==
    ASSUME NEW s \in AppState, NEW r \in Response
    PROVE  SolverOf(r) \in Solver /\ Verdict(s, r) \in Solver
<1>1. r.status \in Status
  BY DEF Response
<1>2. SolverOf(r) \in Solver
  BY <1>1 DEF SolverOf, Status, Solver
<1>3. ASSUME NEW p \in Solver
      PROVE  Judged(s, r, p) \in Solver
  BY DEF Judged, Solver
<1> QED
  BY <1>2, <1>3 DEF Verdict, Solver

(* The guard never runs below zero.                                        *)
LEMMA GuardType ==
    ASSUME NEW s \in AppState, NEW r \in Response
    PROVE  GuardAfter(s, r) \in 0 .. STARTING_POLL_GUARD_DEPTH
<1>1. s.starting_poll_guard \in 0 .. STARTING_POLL_GUARD_DEPTH
  BY DEF AppState
<1> QED
  BY <1>1 DEF GuardAfter, HeldBack, STARTING_POLL_GUARD_DEPTH

(* What an answer says keeps a state a state.                              *)
LEMMA InterpretType ==
    ASSUME NEW s \in AppState, NEW r \in Response
    PROVE  Interpret(s, r) \in Outcome
<1>1. /\ r.frame \in Frame /\ r.upload_id \in Upload
      /\ (IF HeldBack(s, r) THEN 0 ELSE r.frame) \in Frame
  BY Zeros DEF Response
<1>2. ASSUME NEW solver \in Solver, NEW frame \in Frame
      PROVE  ReadAs(s, r, solver, frame) \in Outcome
  <2>1. WithAnswer(s, r, solver, frame) \in AppState
    <3> DEFINE guard == GuardAfter(s, r)
               upload == IF s.activity = "BUILDING" THEN r.upload_id
                         ELSE s.active_upload_id
    <3>1. guard \in 0 .. STARTING_POLL_GUARD_DEPTH /\ upload \in Upload
      BY <1>1, GuardType DEF AppState
    <3>2. WithAnswer(s, r, solver, frame) =
            [s EXCEPT !.solver = solver, !.server = "RUNNING", !.frame = frame,
                      !.version_ok = TRUE, !.server_upload_id = r.upload_id,
                      !.starting_poll_guard = guard, !.active_upload_id = upload]
      BY DEF WithAnswer
    <3> HIDE DEF guard, upload
    <3> QED
      BY <1>1, <1>2, <3>1, <3>2 DEF AppState
  <2>2. [WithAnswer(s, r, solver, frame)
            EXCEPT !.activity = "IDLE", !.active_upload_id = 0] \in AppState
    BY <2>1, Zeros DEF AppState
  <2>3. Jobs(<<FetchFrames(frame, TRUE)>>) \in Effects
    BY <1>2, JobTypes, EffectTypes
  <2> QED
    BY <2>1, <2>2, <2>3, EffectTypes, HandledType DEF ReadAs
<1>3. CASE r.kind = "empty"
  BY <1>3, ServerEventsType, EffectTypes, HandledType DEF Interpret
<1>4. CASE r.kind = "mismatch"
  <2>1. [s EXCEPT !.version_ok = FALSE] \in AppState
    BY DEF AppState
  <2>2. Jobs(<<Do("stop")>>) \in Effects
    BY JobTypes, EffectTypes DEF JobKind
  <2> QED
    BY <1>4, <2>1, <2>2, HandledType DEF Interpret
<1>5. CASE r.kind = "error"
  <2>1. [s EXCEPT !.server = "RUNNING", !.version_ok = TRUE,
                  !.server_upload_id = r.upload_id] \in AppState
    BY <1>1 DEF AppState
  <2> QED
    BY <1>5, <2>1, EffectTypes, HandledType DEF Interpret
<1>6. CASE r.kind = "status"
  BY <1>6, <1>1, <1>2, VerdictType DEF Interpret, InterpretStatus
<1> QED
  BY <1>3, <1>4, <1>5, <1>6 DEF Response

(* An answer keeps a state a state.                                        *)
LEMMA ServerPolledType ==
    ASSUME NEW s \in AppState, NEW r \in Response
    PROVE  ServerPolled(s, r) \in Outcome
<1>1. ASSUME NEW read \in Outcome
      PROVE  Concluded(s, read) \in Outcome
  <2>1. read.app \in AppState /\ read.fx \in Effects
    BY DEF Outcome
  <2>2. /\ [read.app EXCEPT !.activity = "IDLE"] \in AppState
        /\ [read.app EXCEPT !.activity = "IDLE", !.active_upload_id = 0] \in AppState
    BY <2>1, Zeros DEF AppState
  <2> QED
    BY <2>1, <2>2, HandledType DEF Concluded
<1> QED
  BY <1>1, InterpretType DEF ServerPolled

(* The requests for builds, runs and their end.                            *)
LEMMA BuildAndRunType ==
    ASSUME NEW s \in AppState, NEW f \in Frame
    PROVE  /\ PollTick(s) \in Outcome /\ BuildRequested(s) \in Outcome
           /\ BuildPipelineRequested(s) \in Outcome
           /\ UploadOnlyRequested(s) \in Outcome
           /\ UploadPipelineComplete(s) \in Outcome
           /\ RunRequested(s) \in Outcome /\ ResumeRequested(s, f) \in Outcome
           /\ TerminateRequested(s) \in Outcome /\ AbortRequested(s) \in Outcome
<1>1. /\ [s EXCEPT !.activity = "BUILDING", !.solver = "BUILDING",
                   !.active_upload_id = 0] \in AppState
      /\ [s EXCEPT !.activity = "BUILDING", !.solver = "BUILDING",
                   !.active_upload_id = 0, !.pending_build = FALSE] \in AppState
      /\ \A b \in BOOLEAN :
            [s EXCEPT !.activity = "SENDING", !.pending_build = b] \in AppState
      /\ [s EXCEPT !.activity = "IDLE"] \in AppState
      /\ [s EXCEPT !.activity = "ABORTING"] \in AppState
      /\ [s EXCEPT !.activity = "ABORTING", !.pending_build = FALSE] \in AppState
  <2>1. /\ [s EXCEPT !.activity = "BUILDING", !.solver = "BUILDING",
                     !.active_upload_id = 0] \in AppState
        /\ [s EXCEPT !.activity = "BUILDING", !.solver = "BUILDING",
                     !.active_upload_id = 0, !.pending_build = FALSE] \in AppState
    BY Zeros DEF AppState, Solver
  <2>2. \A b \in BOOLEAN :
            [s EXCEPT !.activity = "SENDING", !.pending_build = b] \in AppState
    BY DEF AppState
  <2>3. /\ [s EXCEPT !.activity = "IDLE"] \in AppState
        /\ [s EXCEPT !.activity = "ABORTING"] \in AppState
        /\ [s EXCEPT !.activity = "ABORTING", !.pending_build = FALSE] \in AppState
    BY DEF AppState
  <2> QED
    BY <2>1, <2>2, <2>3
<1>2. Starting(s) \in AppState
  <2>1. STARTING_POLL_GUARD_DEPTH \in 0 .. STARTING_POLL_GUARD_DEPTH
    BY DEF STARTING_POLL_GUARD_DEPTH
  <2> QED
    BY <2>1, Zeros DEF Starting, AppState, Solver
<1>3. /\ \A k \in JobKind : Jobs(<<Do(k)>>) \in Effects /\ <<Do(k)>> \in Seq(Job)
      /\ <<[Do("resume") EXCEPT !.frame = f]>> \in Seq(Job)
      /\ Jobs(<<[Do("resume") EXCEPT !.frame = f]>>) \in Effects
  BY JobTypes, EffectTypes
<1>4. ASSUME NEW fx \in Effects
      PROVE  /\ [fx EXCEPT !.interrupt = "clear"] \in Effects
             /\ [fx EXCEPT !.interrupt = "set"] \in Effects
  BY DEF Effects
<1>5. ASSUME NEW i \in {"set", "clear"}, NEW k \in JobKind
      PROVE  [interrupt |-> i, buffer |-> "clear", link |-> "keep",
              jobs |-> <<Do(k)>>, poll |-> FALSE] \in Effects
  BY <1>3 DEF Effects
<1>6. {"build", "upload", "start", "terminate"} \subseteq JobKind
  BY DEF JobKind
<1>7. PollTick(s) \in Outcome /\ BuildRequested(s) \in Outcome
  BY <1>1, <1>3, <1>6, EffectTypes, HandledType DEF PollTick, BuildRequested, Ignored
<1>8. BuildPipelineRequested(s) \in Outcome /\ UploadOnlyRequested(s) \in Outcome
  BY <1>1, <1>3, <1>4, <1>5, <1>6, EffectTypes, HandledType
     DEF BuildPipelineRequested, UploadOnlyRequested, Ignored
<1>9. UploadPipelineComplete(s) \in Outcome
  BY <1>1, <1>3, <1>6, EffectTypes, HandledType DEF UploadPipelineComplete, Ignored
<1>10. RunRequested(s) \in Outcome /\ ResumeRequested(s, f) \in Outcome
  BY <1>2, <1>3, <1>4, <1>5, <1>6, EffectTypes, HandledType
     DEF RunRequested, ResumeRequested, Ignored
<1>11. TerminateRequested(s) \in Outcome /\ AbortRequested(s) \in Outcome
  BY <1>1, <1>4, <1>5, <1>6, EffectTypes, HandledType
     DEF TerminateRequested, AbortRequested
<1> QED
  BY <1>7, <1>8, <1>9, <1>10, <1>11

(* Fetches, the deletion and errors.                                       *)
LEMMA FetchAndErrorType ==
    ASSUME NEW s \in AppState, NEW f \in Frame
    PROVE  /\ FetchRequested(s) \in Outcome /\ FetchMapComplete(s) \in Outcome
           /\ FetchComplete(s, f) \in Outcome /\ AllFramesApplied(s) \in Outcome
           /\ FetchFailed(s) \in Outcome /\ QueryRequested(s) \in Outcome
           /\ ErrorOccurred(s) \in Outcome
<1>1. \A a \in {"FETCHING", "APPLYING", "IDLE", "EXECUTING"} :
         [s EXCEPT !.activity = a] \in AppState
  BY DEF AppState
<1>2. ASSUME NEW k \in {"fetch_map", "delete"}
      PROVE  Jobs(<<Do(k)>>) \in Effects
  BY JobTypes, EffectTypes DEF JobKind
<1>3. ASSUME NEW fx \in Effects
      PROVE  [fx EXCEPT !.interrupt = "clear", !.buffer = "clear"] \in Effects
  BY DEF Effects
<1>4. Jobs(<<FetchFrames(s.frame, FALSE)>>) \in Effects
  BY JobTypes, EffectTypes DEF AppState
<1>5. ErrorOccurred(s) \in Outcome
  <2> DEFINE server == IF s.server = "LAUNCHING" THEN "UNKNOWN" ELSE s.server
  <2>1. server \in {"UNKNOWN", "LAUNCHING", "RUNNING", "STOPPING"}
    BY DEF AppState
  <2>2. ErrorOccurred(s) =
          Handled([s EXCEPT !.server = server, !.activity = "IDLE",
                            !.pending_build = FALSE], NoEffects)
    BY DEF ErrorOccurred
  <2> HIDE DEF server
  <2>3. [s EXCEPT !.server = server, !.activity = "IDLE",
                  !.pending_build = FALSE] \in AppState
    BY <2>1 DEF AppState
  <2> QED
    BY <2>2, <2>3, EffectTypes, HandledType
<1> QED
  BY <1>1, <1>2, <1>3, <1>4, <1>5, EffectTypes, HandledType
     DEF FetchRequested, FetchMapComplete, FetchComplete, AllFramesApplied,
         FetchFailed, QueryRequested, Ignored

(* The transition function is total: whatever event meets whatever state,  *)
(* the next state is a state and the effects are effects.                  *)
THEOREM TransitionType ==
    ASSUME NEW s \in AppState, NEW e \in Event
    PROVE  Transition(s, e) \in Outcome
<1>1. e.kind \in EventKind /\ e.response \in Response /\ e.number \in Frame
  BY DEF Event
<1> QED
  BY <1>1, ConnectionEventsType, ServerEventsType, ServerPolledType,
     BuildAndRunType, FetchAndErrorType
     DEF Transition, EventKind

-----------------------------------------------------------------------------
(* An answer from before a start leaves the start where it is: the phase   *)
(* stays STARTING at frame 0, whatever run the answer told of, and one     *)
(* such answer fewer will be let pass (starting_poll_guard).               *)
THEOREM HeldBackKeepsStart ==
    ASSUME NEW s \in AppState, NEW r \in Response,
           r.kind = "status", HeldBack(s, r)
    PROVE  LET t == ServerPolled(s, r).app IN
           /\ t.solver = "STARTING" /\ t.frame = 0
           /\ t.starting_poll_guard = s.starting_poll_guard - 1
<1>1. Verdict(s, r) = "STARTING"
  BY DEF Verdict, Judged, HeldBack
<1>2. GuardAfter(s, r) = s.starting_poll_guard - 1
  BY DEF GuardAfter
<1>3. Interpret(s, r) = ReadAs(s, r, "STARTING", 0)
  BY <1>1 DEF Interpret, InterpretStatus
<1> DEFINE w == WithAnswer(s, r, "STARTING", 0)
<1>4. /\ w.solver = "STARTING" /\ w.frame = 0
      /\ w.starting_poll_guard = s.starting_poll_guard - 1
  BY <1>2 DEF WithAnswer, AppState
<1>5. w \in AppState
  <2>1. r.upload_id \in Upload /\ s.active_upload_id \in Upload
    BY DEF Response, AppState
  <2>2. s.starting_poll_guard - 1 \in 0 .. STARTING_POLL_GUARD_DEPTH
    BY <1>2, GuardType
  <2> QED
    BY <1>2, <2>1, <2>2, Zeros DEF WithAnswer, AppState, Solver
<1> DEFINE read == ReadAs(s, r, "STARTING", 0)
<1>6. /\ read.app.solver = "STARTING" /\ read.app.frame = 0
      /\ read.app.starting_poll_guard = s.starting_poll_guard - 1
      /\ read.app \in AppState
  <2> HIDE DEF w
  <2>1. read.app = w \/ read.app = [w EXCEPT !.activity = "IDLE", !.active_upload_id = 0]
    BY DEF ReadAs, Handled, w
  <2>2. LET idle == [w EXCEPT !.activity = "IDLE", !.active_upload_id = 0] IN
        /\ idle.solver = w.solver /\ idle.frame = w.frame
        /\ idle.starting_poll_guard = w.starting_poll_guard
        /\ idle \in AppState
    BY <1>5, Zeros DEF AppState
  <2> QED
    BY <1>4, <1>5, <2>1, <2>2
<1> HIDE DEF read, w
<1>7. ServerPolled(s, r) = Concluded(s, read)
  BY <1>3 DEF ServerPolled, read
<1> QED
  BY <1>6, <1>7 DEF Concluded, Handled, AppState

(* An answer that says no more than that the scene of the awaited upload   *)
(* is not built does not end the build: it is what the server says until   *)
(* the request reaches it (the terminal phases of ServerPolled).           *)
THEOREM NoBuildKeepsBuild ==
    ASSUME NEW s \in AppState, NEW r \in Response,
           s.activity = "BUILDING", s.solver # "STARTING",
           r.kind = "status", r.status = "NO_BUILD", ~r.error,
           IF s.active_upload_id = 0 THEN r.upload_id # 0
           ELSE r.upload_id = s.active_upload_id
    PROVE  /\ ServerPolled(s, r).app.activity = "BUILDING"
           /\ ServerPolled(s, r).app.active_upload_id = r.upload_id
<1>1. ~HeldBack(s, r) /\ SolverOf(r) = "NO_BUILD"
  BY DEF HeldBack, SolverOf
<1>2. Verdict(s, r) = "NO_BUILD"
  BY <1>1 DEF Verdict, Judged
<1>3. ~Desync(s, r)
  BY DEF Desync
<1>4. Interpret(s, r) = ReadAs(s, r, "NO_BUILD", r.frame)
  BY <1>1, <1>2 DEF Interpret, InterpretStatus
<1> DEFINE w == WithAnswer(s, r, "NO_BUILD", r.frame)
<1>5. w.activity = "BUILDING" /\ w.solver = "NO_BUILD" /\ w.active_upload_id = r.upload_id
  BY DEF WithAnswer, AppState
<1> HIDE DEF w
<1>6. ReadAs(s, r, "NO_BUILD", r.frame).app = w
  BY <1>3 DEF ReadAs, Handled, w
<1>7. Concluded(s, ReadAs(s, r, "NO_BUILD", r.frame)).app = w
  BY <1>5, <1>6 DEF Concluded, Terminal
<1> QED
  BY <1>4, <1>5, <1>7 DEF ServerPolled

(* Nothing but a run or a resume arms the guard, so that a start lets at   *)
(* most STARTING_POLL_GUARD_DEPTH answers from before it pass.             *)
THEOREM OnlyStartsArmTheGuard ==
    ASSUME NEW s \in AppState, NEW e \in Event,
           e.kind \notin {"RunRequested", "ResumeRequested"}
    PROVE  Transition(s, e).app.starting_poll_guard
               \in 0 .. s.starting_poll_guard
<1> DEFINE g == s.starting_poll_guard
           Low == 0 .. g
           Kept(o) == o.app.starting_poll_guard \in Low
<1>1. g \in 0 .. STARTING_POLL_GUARD_DEPTH
  BY DEF AppState
<1>2. 0 \in Low /\ g \in Low
  BY <1>1 DEF STARTING_POLL_GUARD_DEPTH
<1>3. e.kind \in EventKind /\ e.response \in Response
  BY DEF Event
<1>4. GuardAfter(s, e.response) \in Low
  BY <1>1 DEF GuardAfter, HeldBack, STARTING_POLL_GUARD_DEPTH
<1> HIDE DEF Low
<1>5. ServerGone(s).starting_poll_guard = g /\ Offline.starting_poll_guard = 0
  BY DEF ServerGone, Offline, AppState
<1>6. ASSUME NEW p, NEW v, NEW a
      PROVE  /\ [s EXCEPT !.phase = p].starting_poll_guard = g
             /\ [s EXCEPT !.phase = p, !.activity = a].starting_poll_guard = g
             /\ [s EXCEPT !.server = v].starting_poll_guard = g
             /\ [s EXCEPT !.activity = a].starting_poll_guard = g
  BY DEF AppState
<1>7. ASSUME NEW a, NEW b
      PROVE  /\ [s EXCEPT !.activity = a, !.pending_build = b].starting_poll_guard = g
             /\ [s EXCEPT !.activity = a, !.solver = "BUILDING",
                          !.active_upload_id = 0].starting_poll_guard = g
             /\ [s EXCEPT !.activity = a, !.solver = "BUILDING",
                          !.active_upload_id = 0,
                          !.pending_build = b].starting_poll_guard = g
  BY DEF AppState
<1>8. /\ Kept(ConnectRequested(s)) /\ Kept(Connected(s))
      /\ Kept(ConnectionFailed(s)) /\ Kept(DisconnectRequested(s))
      /\ Kept(ConnectionLost(s)) /\ Kept(StartServerRequested(s))
      /\ Kept(ServerLaunched(s)) /\ Kept(StopServerRequested(s))
      /\ Kept(ServerStopped(s)) /\ Kept(ServerLost(s))
  <2>1. /\ Kept(ConnectRequested(s)) /\ Kept(Connected(s))
        /\ Kept(ConnectionFailed(s))
    BY <1>2, <1>6 DEF Ignored, ConnectRequested, Connected, ConnectionFailed, Handled
  <2>2. Kept(DisconnectRequested(s)) /\ Kept(ConnectionLost(s))
    BY <1>2, <1>5 DEF DisconnectRequested, ConnectionLost, Handled
  <2>3. /\ Kept(StartServerRequested(s)) /\ Kept(ServerLaunched(s))
        /\ Kept(StopServerRequested(s))
    BY <1>2, <1>6
       DEF StartServerRequested, ServerLaunched, StopServerRequested, Ignored, Handled
  <2>4. Kept(ServerStopped(s)) /\ Kept(ServerLost(s))
    BY <1>2, <1>5 DEF ServerStopped, ServerLost, Handled
  <2> QED
    BY <2>1, <2>2, <2>3, <2>4
<1>9. /\ Kept(PollTick(s)) /\ Kept(BuildRequested(s))
      /\ Kept(BuildPipelineRequested(s)) /\ Kept(UploadOnlyRequested(s))
      /\ Kept(UploadPipelineComplete(s)) /\ Kept(TerminateRequested(s))
      /\ Kept(AbortRequested(s))
  <2>1. Kept(PollTick(s)) /\ Kept(UploadPipelineComplete(s))
    BY <1>2, <1>6, <1>7 DEF PollTick, UploadPipelineComplete, Ignored, Handled
  <2>2. /\ Kept(BuildRequested(s)) /\ Kept(BuildPipelineRequested(s))
        /\ Kept(UploadOnlyRequested(s))
    BY <1>2, <1>6, <1>7
       DEF BuildRequested, BuildPipelineRequested, UploadOnlyRequested, Ignored,
           Handled
  <2>3. Kept(TerminateRequested(s)) /\ Kept(AbortRequested(s))
    BY <1>2, <1>6, <1>7 DEF TerminateRequested, AbortRequested, Ignored, Handled
  <2> QED
    BY <2>1, <2>2, <2>3
<1>10. ErrorOccurred(s).app.starting_poll_guard = g
  BY DEF ErrorOccurred, Handled, AppState
<1>11. /\ Kept(FetchRequested(s)) /\ Kept(FetchMapComplete(s))
       /\ Kept(FetchComplete(s, e.number)) /\ Kept(AllFramesApplied(s))
       /\ Kept(FetchFailed(s)) /\ Kept(QueryRequested(s))
       /\ Kept(ErrorOccurred(s))
  BY <1>2, <1>6, <1>10
     DEF FetchRequested, FetchMapComplete, FetchComplete, AllFramesApplied,
         FetchFailed, QueryRequested, Ignored, Handled
<1>12. Kept(ServerPolled(s, e.response))
  <2> DEFINE r == e.response
  <2>1. ASSUME NEW solver, NEW frame
        PROVE  Kept(ReadAs(s, r, solver, frame))
    <3> DEFINE w == WithAnswer(s, r, solver, frame)
    <3>1. /\ w.starting_poll_guard = GuardAfter(s, r)
          /\ [w EXCEPT !.activity = "IDLE",
                       !.active_upload_id = 0].starting_poll_guard
                 = GuardAfter(s, r)
      BY DEF WithAnswer, AppState
    <3> QED
      BY <1>4, <3>1 DEF ReadAs, Handled
  <2>2. [s EXCEPT !.version_ok = FALSE].starting_poll_guard = g
    BY DEF AppState
  <2>3. ASSUME NEW u
        PROVE  [s EXCEPT !.server = "RUNNING", !.version_ok = TRUE,
                         !.server_upload_id = u].starting_poll_guard = g
    BY DEF AppState
  <2>4. Kept(Interpret(s, r)) /\ Interpret(s, r).app \in AppState
    <3>1. Interpret(s, r).app \in AppState
      BY <1>3, InterpretType DEF Outcome
    <3>2. r.kind \in {"empty", "mismatch", "error", "status"}
      BY <1>3 DEF Response
    <3> QED
      BY <1>2, <1>5, <2>1, <2>2, <2>3, <3>1, <3>2
         DEF Interpret, InterpretStatus, Handled
  <2>5. ASSUME NEW read, read.app \in AppState, Kept(read)
        PROVE  Kept(Concluded(s, read))
    <3>1. /\ [read.app EXCEPT !.activity = "IDLE"].starting_poll_guard
                 = read.app.starting_poll_guard
          /\ [read.app EXCEPT !.activity = "IDLE",
                              !.active_upload_id = 0].starting_poll_guard
                 = read.app.starting_poll_guard
      BY <2>5 DEF AppState
    <3> QED
      BY <2>5, <3>1 DEF Concluded, Handled
  <2> QED
    BY <2>4, <2>5 DEF ServerPolled
<1> HIDE DEF Kept
<1>13. Kept(Transition(s, e))
  BY <1>3, <1>8, <1>9, <1>11, <1>12 DEF Transition, EventKind
<1> QED
  BY <1>13 DEF Kept, Low
=============================================================================
