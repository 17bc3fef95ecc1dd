-------------------------- MODULE AddonFetch_proof --------------------------
(***************************************************************************)
(* Fetch All over the output of a server at rest, for any scene, any       *)
(* number of fetches, aborts, stalls, disconnects and connects, and any    *)
(* number of events that wait: no more frames are applied than were        *)
(* counted, and a fetch that says it is applied shows the output.          *)
(*                                                                         *)
(* Neither is inductive.  A fetch that was aborted, or given up by the     *)
(* watchdog, goes on in the worker, its reports reach the next one, and    *)
(* two fetches may end up with the same list.  FetchInv says why that does *)
(* no harm: whoever appends has the current list, and a fetch leaves that  *)
(* list with frames in the buffer only if it took every frame there is or  *)
(* was interrupted.                                                        *)
(***************************************************************************)
EXTENDS AddonLinks_proof

Elements(s) == {s[i] : i \in 1 .. Len(s)}
Waiting == Elements(events)
Commands == Elements(io.cmds)
InBuffer == {p.n : p \in Elements(io.frames)}

\* The frames that the server has, which are the first ones.
OnDisk == {n \in 1 .. MaxFrame : host.out[n] # 0}
OutputIsWhole ==
    \A n, m \in 1 .. MaxFrame : n <= m /\ m \in OnDisk => n \in OnDisk

\* The session is one of fetches: nothing is asked for that makes the server
\* work or changes its disk, and neither the server nor the transport goes.
DiskTokens ==
    {"transfer", "upload", "build", "run", "resume", "delete", "stop_server",
     "server_dies", "drop"}
ServerRests ==
    /\ \A t \in DiskTokens : left[t] = 0
    /\ ~Server!WorkInProgress(srv) /\ ~host.old
    /\ OutputIsWhole

\* What the scene shows is what the server has.
SceneIsOfDisk == \A n \in InScene : scene.applied[n] = host.out[n]

-----------------------------------------------------------------------------
(* The invariant                                                           *)

RestingJobs ==
    {"ping", "cancel_build", "terminate", "fetch_map", "fetch_frames",
     "launch", "validate"}
Harmful ==
    {"BuildPipelineRequested", "UploadOnlyRequested", "BuildRequested",
     "RunRequested", "ResumeRequested", "QueryRequested",
     "StopServerRequested", "ServerStopped", "UploadPipelineComplete",
     "ConnectionLost"}
Harmless(e) ==
    /\ e.kind \notin Harmful
    /\ ~SaysComputing(e) /\ e.response.kind # "mismatch"

\* What the worker reports is neither a request nor said by the frame pump.
Reportable(e) == Harmless(e) /\ e.kind \notin Requested \cup {"AllFramesApplied"}

\* Nobody is about to make the server work, and no answer says that it does.
RestInv ==
    /\ ServerRests
    /\ \A j \in Commands : j.kind \in RestingJobs
    /\ \A e \in Waiting : Harmless(e)
    /\ worker.job.kind \in RestingJobs /\ Reportable(worker.event)

IsFetchAll(job) == job.kind = "fetch_frames" /\ ~job.latest
IsLive(job) == job.kind = "fetch_frames" /\ job.latest

AtWork == worker.pc \in {"fetch", "append"}
InLoop == AtWork /\ ~Stale(worker.job)

\* The current list is the one of a Fetch All that downloads.
InFetchAll == InLoop /\ ~worker.job.latest

\* No Fetch All is on its way.
NoFetchAll ==
    /\ io.total = 0
    /\ \A e \in Waiting : e.kind \notin {"FetchRequested", "FetchMapComplete"}
    /\ \A j \in Commands : j.kind # "fetch_map" /\ ~IsFetchAll(j)
    /\ worker.event.kind # "FetchMapComplete"
    /\ AtWork => ~IsFetchAll(worker.job)

\* No live fetch will have the current list, now or later.
NoLiveFetch ==
    /\ app.solver \notin Computing
    /\ \A j \in Commands : IsLive(j) => j.gen < io.gen
    /\ AtWork /\ IsLive(worker.job) => worker.job.gen < io.gen

ListsArePast ==
    /\ \A j \in Commands : j.kind = "fetch_frames" => j.gen <= io.gen
    /\ AtWork => worker.job.kind = "fetch_frames" /\ worker.job.gen <= io.gen

\* A request is the last of its drain, but for what other threads report.
RequestsLast ==
    \A i \in 1 .. Len(events) :
      events[i].kind \in Requested =>
        /\ draining
        /\ \A j \in 1 .. Len(events) :
             events[j].kind \in Requested \cup {"AllFramesApplied"} => j <= i

LineInv == ListsArePast /\ RequestsLast /\ (NoFetchAll \/ NoLiveFetch)

\* The counters and the buffer of the frame pump.  A fetch that has left the
\* list behind with frames in the buffer took every frame there is, or was
\* interrupted.
LoopIsLinked == InLoop => io.backend # 0
DownIsEmpty ==
    ~host.up => io.frames = << >> /\ io.applied = 0 /\ worker.pc # "append"
NoOutputIsEmpty ==
    OnDisk = {} => io.frames = << >> /\ io.applied = 0 /\ worker.pc # "append"
Interrupted ==
    io.interrupt => /\ worker.pc = "append" => io.frames = << >>
                    /\ Len(io.frames) <= 1
FromOutput ==
    /\ worker.pc = "append" => /\ worker.next \in worker.todo
                               /\ worker.data = host.out[worker.next]
                               /\ worker.data # 0
    /\ \A p \in Elements(io.frames) : p.of = host.out[p.n] /\ p.of # 0
LoopCounts ==
    InFetchAll =>
      /\ worker.todo \cap io.fetched = {}
      /\ OnDisk \subseteq worker.todo \cup io.fetched
      /\ OnDisk # {} => worker.todo \subseteq OnDisk
      /\ \/ io.total = 0
         \/ io.applied + Len(io.frames) + Cardinality(worker.todo) <= io.total
         \/ io.interrupt /\ worker.pc = "fetch"
AllFetched == OnDisk # {} /\ OnDisk \subseteq io.fetched
NothingIsLeft ==
    ~NoFetchAll /\ ~InFetchAll => io.frames = << >> \/ io.interrupt \/ AllFetched
Counted == io.total > 0 => io.applied + Len(io.frames) <= io.total

FetchInv ==
    /\ LoopIsLinked /\ DownIsEmpty /\ NoOutputIsEmpty /\ Interrupted
    /\ FromOutput /\ LoopCounts /\ NothingIsLeft /\ Counted

\* Where each frame of the output is: in the scene, in the buffer, or still to
\* come, and then the count is not reached.
IsWaiting(kind) == \E e \in Waiting : e.kind = kind
Shown == OnDisk \subseteq InScene \cup InBuffer
KnownWhenDown == ~host.up => io.fetched \subseteq InScene
Told ==
    io.total > 0 /\ ~io.interrupt =>
      \/ Shown
      \/ InFetchAll /\ OnDisk \subseteq InScene \cup InBuffer \cup worker.todo
      \/ ~InFetchAll /\ io.applied + Len(io.frames) < io.total
LeftIsShown ==
    ~NoFetchAll /\ ~InFetchAll /\ ~io.interrupt =>
      AllFetched \/ io.fetched \cap OnDisk \subseteq InScene \cup InBuffer
Asked ==
    IsWaiting("FetchRequested") =>
      /\ draining
      /\ io.interrupt => /\ io.frames = << >> /\ io.fetched \subseteq InScene
                         /\ InFetchAll => worker.pc = "fetch"
Claimed ==
    IsWaiting("AllFramesApplied") /\ ~io.interrupt => OnDisk \subseteq InScene

ShowInv ==
    SceneIsOfDisk /\ KnownWhenDown /\ Told /\ LeftIsShown /\ Asked /\ Claimed

-----------------------------------------------------------------------------
(* Sequences as the sets of their elements                                 *)

(* What is in a sequence after one of the usual operations.                *)
LEMMA ElementsOf ==
    /\ Elements(<< >>) = {}
    /\ \A x : Elements(<<x>>) = {x}
    /\ \A S, s, x : s \in Seq(S) /\ x \in S
                      => Elements(Append(s, x)) = Elements(s) \cup {x}
    /\ \A S, s, t : s \in Seq(S) /\ t \in Seq(S)
                      => Elements(s \o t) = Elements(s) \cup Elements(t)
<1>1. Elements(<< >>) = {} /\ \A x : Elements(<<x>>) = {x}
  BY DEF Elements
<1>2. ASSUME NEW S, NEW s \in Seq(S), NEW x \in S
      PROVE  Elements(Append(s, x)) = Elements(s) \cup {x}
  <2>1. /\ Len(s) \in Nat /\ Len(Append(s, x)) = Len(s) + 1
        /\ \A i \in 1 .. Len(s) : Append(s, x)[i] = s[i]
        /\ Append(s, x)[Len(s) + 1] = x
    BY AppendProperties
  <2>2. 1 .. Len(s) + 1 = 1 .. Len(s) \cup {Len(s) + 1}
    BY <2>1
  <2> QED
    BY <2>1, <2>2 DEF Elements
<1>3. ASSUME NEW S, NEW s \in Seq(S), NEW t \in Seq(S)
      PROVE  Elements(s \o t) = Elements(s) \cup Elements(t)
  <2>1. /\ Len(s) \in Nat /\ Len(t) \in Nat /\ Len(s \o t) = Len(s) + Len(t)
        /\ \A i \in 1 .. Len(s) + Len(t) :
             (s \o t)[i] = IF i <= Len(s) THEN s[i] ELSE t[i - Len(s)]
    BY ConcatProperties
  <2>2. Elements(s \o t) \subseteq Elements(s) \cup Elements(t)
    <3> SUFFICES ASSUME NEW i \in 1 .. Len(s) + Len(t)
                 PROVE  (s \o t)[i] \in Elements(s) \cup Elements(t)
      BY <2>1 DEF Elements
    <3>1. CASE i <= Len(s)
      BY <2>1, <3>1 DEF Elements
    <3>2. CASE i > Len(s)
      <4>1. i - Len(s) \in 1 .. Len(t)
        BY <2>1, <3>2
      <4> QED
        BY <2>1, <3>2, <4>1 DEF Elements
    <3> QED
      BY <2>1, <3>1, <3>2
  <2>3. Elements(s) \subseteq Elements(s \o t)
    BY <2>1 DEF Elements
  <2>4. Elements(t) \subseteq Elements(s \o t)
    <3> SUFFICES ASSUME NEW i \in 1 .. Len(t)
                 PROVE  t[i] \in Elements(s \o t)
      BY DEF Elements
    <3>1. /\ Len(s) + i \in 1 .. Len(s) + Len(t)
          /\ (s \o t)[Len(s) + i] = t[i]
      BY <2>1
    <3> QED
      BY <2>1, <3>1 DEF Elements
  <2> QED
    BY <2>2, <2>3, <2>4
<1> QED
  BY <1>1, <1>2, <1>3

(* A sequence that is not empty is its head and its tail.                  *)
LEMMA HeadAndTail ==
    ASSUME NEW S, NEW s \in Seq(S), s # << >>
    PROVE  /\ Elements(s) = {Head(s)} \cup Elements(Tail(s))
           /\ Head(s) \in S /\ Head(s) = s[1] /\ Tail(s) \in Seq(S)
           /\ Len(Tail(s)) = Len(s) - 1 /\ Len(s) \in Nat \ {0}
           /\ \A i \in 1 .. Len(Tail(s)) : Tail(s)[i] = s[i + 1]
<1>1. /\ Head(s) \in S /\ Head(s) = s[1] /\ Tail(s) \in Seq(S)
      /\ Len(Tail(s)) = Len(s) - 1 /\ Len(s) \in Nat \ {0}
      /\ \A i \in 1 .. Len(Tail(s)) : Tail(s)[i] = s[i + 1]
  <2>1. Len(s) \in Nat /\ Len(s) # 0
    BY EmptySeq
  <2> QED
    BY <2>1, HeadTailProperties
<1>2. Elements(s) \subseteq {Head(s)} \cup Elements(Tail(s))
  <2> SUFFICES ASSUME NEW i \in 1 .. Len(s), i # 1
               PROVE  s[i] \in Elements(Tail(s))
    BY <1>1 DEF Elements
  <2>1. i - 1 \in 1 .. Len(Tail(s)) /\ Tail(s)[i - 1] = s[i]
    BY <1>1
  <2> QED
    BY <2>1 DEF Elements
<1>3. {Head(s)} \cup Elements(Tail(s)) \subseteq Elements(s)
  <2>1. Head(s) \in Elements(s)
    BY <1>1 DEF Elements
  <2>2. ASSUME NEW i \in 1 .. Len(Tail(s))
        PROVE  Tail(s)[i] \in Elements(s)
    BY <1>1 DEF Elements
  <2> QED
    BY <2>1, <2>2 DEF Elements
<1> QED
  BY <1>1, <1>2, <1>3

(* The requests of the panels.                                             *)
LEMMA RequestKinds ==
    /\ Requested =
        {"ConnectRequested", "DisconnectRequested", "StartServerRequested",
         "StopServerRequested", "BuildPipelineRequested",
         "UploadOnlyRequested", "BuildRequested", "RunRequested",
         "ResumeRequested", "FetchRequested", "TerminateRequested",
         "AbortRequested", "QueryRequested"}
    /\ Requested \subseteq EventKind
<1>1. \A r \in Request : RequestEvent[r] \in
        {"ConnectRequested", "DisconnectRequested", "StartServerRequested",
         "StopServerRequested", "BuildPipelineRequested",
         "UploadOnlyRequested", "BuildRequested", "RunRequested",
         "ResumeRequested", "FetchRequested", "TerminateRequested",
         "AbortRequested", "QueryRequested"}
  BY DEF Request, RequestEvent
<1>2. /\ RequestEvent["connect"] = "ConnectRequested"
      /\ RequestEvent["disconnect"] = "DisconnectRequested"
      /\ RequestEvent["start_server"] = "StartServerRequested"
      /\ RequestEvent["stop_server"] = "StopServerRequested"
      /\ RequestEvent["transfer"] = "BuildPipelineRequested"
      /\ RequestEvent["upload"] = "UploadOnlyRequested"
      /\ RequestEvent["build"] = "BuildRequested"
      /\ RequestEvent["run"] = "RunRequested"
      /\ RequestEvent["resume"] = "ResumeRequested"
      /\ RequestEvent["fetch"] = "FetchRequested"
      /\ RequestEvent["terminate"] = "TerminateRequested"
      /\ RequestEvent["abort"] = "AbortRequested"
      /\ RequestEvent["delete"] = "QueryRequested"
  BY DEF RequestEvent
<1>3. {"ConnectRequested", "DisconnectRequested", "StartServerRequested",
       "StopServerRequested", "BuildPipelineRequested",
       "UploadOnlyRequested", "BuildRequested", "RunRequested",
       "ResumeRequested", "FetchRequested", "TerminateRequested",
       "AbortRequested", "QueryRequested"} \subseteq Requested
  BY <1>2 DEF Requested, Request
<1>4. Requested =
        {"ConnectRequested", "DisconnectRequested", "StartServerRequested",
         "StopServerRequested", "BuildPipelineRequested",
         "UploadOnlyRequested", "BuildRequested", "RunRequested",
         "ResumeRequested", "FetchRequested", "TerminateRequested",
         "AbortRequested", "QueryRequested"}
  BY <1>1, <1>3 DEF Requested
<1> QED
  BY <1>4 DEF EventKind

-----------------------------------------------------------------------------
(* What an event of such a session does                                    *)

\* The jobs of an event: a Fetch All goes on from its map, a live fetch
\* belongs to a server that computes.
JobsAreDue(s, e, fx) ==
    \A j \in Elements(fx.jobs) :
      /\ j.kind \in RestingJobs
      /\ j.kind = "fetch_map" => e.kind = "FetchRequested"
      /\ IsFetchAll(j) => e.kind = "FetchMapComplete"
      /\ IsLive(j) => s.solver \in Computing

\* An interrupt, its end and a disconnect all empty the buffer.
ClearsBuffer(e, fx) ==
    /\ fx.interrupt = "set" => /\ e.kind \in Requested \ {"FetchRequested"}
                               /\ fx.buffer = "clear" /\ fx.link # "disconnect"
    /\ fx.interrupt = "clear" => /\ e.kind = "FetchRequested"
                                 /\ fx.buffer = "clear" /\ fx.link # "disconnect"
    /\ fx.link = "disconnect" => /\ e.kind \in Requested \ {"FetchRequested"}
                                 /\ fx.buffer = "clear"

Rests(s, e, o) ==
    /\ o.app.solver \in Computing => s.solver \in Computing
    /\ JobsAreDue(s, e, o.fx)
    /\ ClearsBuffer(e, o.fx)

(* Effects without a job, or with one that is due.                         *)
LEMMA PlainJobs ==
    ASSUME NEW s, NEW e, NEW fx
    PROVE  /\ fx.jobs = << >> => JobsAreDue(s, e, fx)
           /\ \A k \in {"terminate", "launch", "validate"} :
                fx.jobs = <<Do(k)>> => JobsAreDue(s, e, fx)
           /\ e.kind = "FetchRequested" /\ fx.jobs = <<Do("fetch_map")>>
                => JobsAreDue(s, e, fx)
           /\ \A n : e.kind = "FetchMapComplete" /\ fx.jobs = <<FetchFrames(n, FALSE)>>
                      => JobsAreDue(s, e, fx)
           /\ \A n : s.solver \in Computing /\ fx.jobs = <<FetchFrames(n, TRUE)>>
                      => JobsAreDue(s, e, fx)
<1>1. \A k : Do(k).kind = k
  BY DEF Do
<1>2. \A n : /\ FetchFrames(n, TRUE).kind = "fetch_frames"
             /\ FetchFrames(n, FALSE).kind = "fetch_frames"
             /\ FetchFrames(n, TRUE).latest /\ ~FetchFrames(n, FALSE).latest
  BY DEF FetchFrames
<1>3. ASSUME NEW j, NEW jobs, jobs = <<j>>
      PROVE  Elements(jobs) = {j}
  BY <1>3, ElementsOf
<1>4. ASSUME fx.jobs = << >>
      PROVE  JobsAreDue(s, e, fx)
  BY <1>4, ElementsOf DEF JobsAreDue
<1>5. ASSUME NEW j, fx.jobs = <<j>>, j.kind \in RestingJobs,
             j.kind = "fetch_map" => e.kind = "FetchRequested",
             IsFetchAll(j) => e.kind = "FetchMapComplete",
             IsLive(j) => s.solver \in Computing
      PROVE  JobsAreDue(s, e, fx)
  BY <1>3, <1>5 DEF JobsAreDue
<1>6. ASSUME NEW k \in {"terminate", "launch", "validate"}, fx.jobs = <<Do(k)>>
      PROVE  JobsAreDue(s, e, fx)
  BY <1>1, <1>5, <1>6 DEF RestingJobs, IsFetchAll, IsLive
<1>7. ASSUME e.kind = "FetchRequested", fx.jobs = <<Do("fetch_map")>>
      PROVE  JobsAreDue(s, e, fx)
  BY <1>1, <1>5, <1>7 DEF RestingJobs, IsFetchAll, IsLive
<1>8. ASSUME NEW n, e.kind = "FetchMapComplete", fx.jobs = <<FetchFrames(n, FALSE)>>
      PROVE  JobsAreDue(s, e, fx)
  BY <1>2, <1>5, <1>8 DEF RestingJobs, IsFetchAll, IsLive
<1>9. ASSUME NEW n, s.solver \in Computing, fx.jobs = <<FetchFrames(n, TRUE)>>
      PROVE  JobsAreDue(s, e, fx)
  BY <1>2, <1>5, <1>9 DEF RestingJobs, IsFetchAll, IsLive
<1> QED
  BY <1>4, <1>6, <1>7, <1>8, <1>9

(* An answer of a server at rest starts nothing.                           *)
LEMMA RestingAnswer ==
    ASSUME NEW s \in AppState, NEW e \in Event, e.kind = "ServerPolled",
           Harmless(e)
    PROVE  Rests(s, e, ServerPolled(s, e.response))
<1> DEFINE r == e.response
<1>1. /\ r \in Response /\ r.kind \in {"empty", "error", "status"}
      /\ r.status \in Status /\ r.status \notin {"BUSY", "SAVE_AND_QUIT"}
  BY DEF Harmless, SaysComputing, Event, Response
<1> HIDE DEF r
<1>2. SolverOf(r) \notin Computing
  BY <1>1 DEF SolverOf, Computing, Status
<1> DEFINE Kept(o) == /\ o.app \in AppState
                      /\ o.app.solver \in Computing => s.solver \in Computing
                      /\ JobsAreDue(s, e, o.fx)
                      /\ o.fx.interrupt = "keep" /\ o.fx.link = "keep"
<1>3. /\ NoEffects.jobs = << >> /\ NoEffects.interrupt = "keep"
      /\ NoEffects.link = "keep"
      /\ \A js : /\ Jobs(js).jobs = js /\ Jobs(js).interrupt = "keep"
                 /\ Jobs(js).link = "keep"
  BY DEF NoEffects, Jobs
<1>4. Interpret(s, r).app \in AppState
  BY <1>1, InterpretType DEF Outcome
<1>10. /\ JobsAreDue(s, e, NoEffects)
       /\ s.solver \in Computing
            => \A n : JobsAreDue(s, e, Jobs(<<FetchFrames(n, TRUE)>>))
  BY <1>3, PlainJobs
<1>5. Verdict(s, r) \in Computing => s.solver \in Computing
  BY <1>2 DEF Verdict, Judged, HeldBack, Computing
<1>6. ASSUME NEW v, NEW n, v \in Computing => s.solver \in Computing
      PROVE  /\ ReadAs(s, r, v, n).app.solver = v
             /\ JobsAreDue(s, e, ReadAs(s, r, v, n).fx)
             /\ ReadAs(s, r, v, n).fx.interrupt = "keep"
             /\ ReadAs(s, r, v, n).fx.link = "keep"
  <2>1. WithAnswer(s, r, v, n).solver = v
    BY DEF WithAnswer, AppState
  <2>2. [WithAnswer(s, r, v, n) EXCEPT !.activity = "IDLE",
                                       !.active_upload_id = 0].solver = v
    BY DEF WithAnswer, AppState
  <2>3. FetchesLatest(s, v) => s.solver \in Computing
    BY <1>6 DEF FetchesLatest
  <2>4. ReadAs(s, r, v, n).fx = IF FetchesLatest(s, v)
                                THEN Jobs(<<FetchFrames(n, TRUE)>>) ELSE NoEffects
    BY DEF ReadAs, Handled
  <2>5. ReadAs(s, r, v, n).app =
          IF Desync(s, r)
          THEN [WithAnswer(s, r, v, n) EXCEPT !.activity = "IDLE",
                                              !.active_upload_id = 0]
          ELSE WithAnswer(s, r, v, n)
    BY DEF ReadAs, Handled
  <2> QED
    BY <1>3, <1>10, <2>1, <2>2, <2>3, <2>4, <2>5
<1>7. Kept(Interpret(s, r))
  <2>1. CASE r.kind = "empty"
    <3>1. Interpret(s, r) = Handled(ServerGone(s), NoEffects)
      BY <2>1 DEF Interpret
    <3>2. ServerGone(s).solver = "NO_DATA"
      BY DEF ServerGone, AppState
    <3> QED
      BY <1>3, <1>4, <1>10, <3>1, <3>2 DEF Handled, Computing
  <2>2. CASE r.kind = "error"
    <3> DEFINE a == [s EXCEPT !.server = "RUNNING", !.version_ok = TRUE,
                              !.server_upload_id = r.upload_id]
    <3>1. Interpret(s, r) = Handled(a, NoEffects)
      BY <2>2 DEF Interpret
    <3>2. a.solver = s.solver
      BY DEF AppState
    <3> HIDE DEF a
    <3> QED
      BY <1>3, <1>4, <1>10, <3>1, <3>2 DEF Handled
  <2>3. CASE r.kind = "status"
    <3>1. Interpret(s, r) =
            ReadAs(s, r, Verdict(s, r), IF HeldBack(s, r) THEN 0 ELSE r.frame)
      BY <2>3 DEF Interpret, InterpretStatus
    <3> QED
      BY <1>4, <1>5, <1>6, <3>1
  <2> QED
    BY <1>1, <2>1, <2>2, <2>3
<1>8. ASSUME NEW read, Kept(read)
      PROVE  Kept(Concluded(s, read)) \/ Rests(s, e, Concluded(s, read))
  <2>1. /\ [read.app EXCEPT !.activity = "IDLE"].solver = read.app.solver
        /\ [read.app EXCEPT !.activity = "IDLE",
                            !.active_upload_id = 0].solver = read.app.solver
    BY <1>8 DEF AppState
  <2>2. /\ Concluded(s, read).app.solver = read.app.solver
        /\ Concluded(s, read).fx = read.fx
    BY <2>1 DEF Concluded, Handled
  <2> QED
    BY <1>8, <2>2 DEF Rests, ClearsBuffer
<1>9. ASSUME NEW o, Kept(o)
      PROVE  Rests(s, e, o)
  BY <1>9 DEF Rests, ClearsBuffer
<1> QED
  BY <1>7, <1>8, <1>9 DEF ServerPolled, r

(* Every event of such a session: none makes the server work, and only the *)
(* three that empty the buffer touch the interrupt or the list.            *)
LEMMA RestingTransition ==
    ASSUME NEW s \in AppState, NEW e \in Event, Harmless(e)
    PROVE  Rests(s, e, Transition(s, e))
<1> DEFINE Keeps(fx) == /\ JobsAreDue(s, e, fx) /\ fx.interrupt = "keep"
                        /\ fx.link # "disconnect"
           Kept(o) == /\ o.app.solver \in Computing => s.solver \in Computing
                      /\ Keeps(o.fx)
<1>1. /\ e.kind \in EventKind /\ e.kind \notin Harmful
  BY DEF Event, Harmless
<1>2. ASSUME NEW o, Kept(o)
      PROVE  Rests(s, e, o)
  BY <1>2 DEF Rests, ClearsBuffer
<1>3. /\ Keeps(NoEffects) /\ Keeps(Poll) /\ Keeps(ClearAnimation)
      /\ Keeps([NoEffects EXCEPT !.link = "connect"])
  <2>1. ASSUME NEW fx, fx.jobs = << >>, fx.interrupt = "keep",
               fx.link # "disconnect"
        PROVE  Keeps(fx)
    BY <2>1, PlainJobs
  <2> HIDE DEF Keeps
  <2> QED
    BY <2>1 DEF NoEffects, Poll, ClearAnimation
<1>4. /\ Keeps([Poll EXCEPT !.jobs = <<Do("validate")>>])
      /\ Keeps(Jobs(<<Do("launch")>>))
      /\ e.kind = "FetchMapComplete"
           => \A n : Keeps(Jobs(<<FetchFrames(n, FALSE)>>))
  <2>1. ASSUME NEW js
        PROVE  /\ Jobs(js).jobs = js /\ Jobs(js).interrupt = "keep"
               /\ Jobs(js).link # "disconnect"
               /\ [Poll EXCEPT !.jobs = js].jobs = js
               /\ [Poll EXCEPT !.jobs = js].interrupt = "keep"
               /\ [Poll EXCEPT !.jobs = js].link # "disconnect"
    BY DEF NoEffects, Jobs, Poll
  <2>2. JobsAreDue(s, e, Jobs(<<Do("launch")>>))
    BY <2>1, PlainJobs
  <2>3. JobsAreDue(s, e, [Poll EXCEPT !.jobs = <<Do("validate")>>])
    BY <2>1, PlainJobs
  <2>4. ASSUME e.kind = "FetchMapComplete", NEW n
        PROVE  JobsAreDue(s, e, Jobs(<<FetchFrames(n, FALSE)>>))
    <3> DEFINE fx == Jobs(<<FetchFrames(n, FALSE)>>)
    <3>1. fx.jobs = <<FetchFrames(n, FALSE)>>
      BY <2>1
    <3> HIDE DEF fx
    <3>2. JobsAreDue(s, e, fx)
      BY <2>4, <3>1, PlainJobs
    <3> QED
      BY <3>2 DEF fx
  <2> QED
    BY <2>1, <2>2, <2>3, <2>4
<1> HIDE DEF Keeps
<1>5. ASSUME NEW v, NEW a, NEW b
      PROVE  /\ [s EXCEPT !.phase = v].solver = s.solver
             /\ [s EXCEPT !.phase = v, !.activity = a].solver = s.solver
             /\ [s EXCEPT !.server = v].solver = s.solver
             /\ [s EXCEPT !.activity = a].solver = s.solver
             /\ [s EXCEPT !.activity = a, !.pending_build = b].solver = s.solver
             /\ [s EXCEPT !.server = v, !.activity = a,
                          !.pending_build = b].solver = s.solver
  BY DEF AppState
<1>6. /\ Offline.solver = "NO_DATA" /\ ServerGone(s).solver = "NO_DATA"
      /\ "NO_DATA" \notin Computing
  BY DEF Offline, ServerGone, AppState, Computing
<1>7. /\ Kept(ConnectRequested(s)) /\ Kept(Connected(s))
      /\ Kept(ConnectionFailed(s))
  BY <1>3, <1>4, <1>5
     DEF ConnectRequested, Connected, ConnectionFailed, Ignored, Handled
<1>8. /\ Kept(StartServerRequested(s)) /\ Kept(ServerLaunched(s))
      /\ Kept(ServerLost(s)) /\ Kept(PollTick(s))
  BY <1>3, <1>4, <1>5, <1>6
     DEF StartServerRequested, ServerLaunched, ServerLost, PollTick, Ignored,
         Handled
<1>9. /\ Kept(FetchComplete(s, e.number)) /\ Kept(AllFramesApplied(s))
      /\ Kept(FetchFailed(s)) /\ Kept(ErrorOccurred(s))
  <2>1. ErrorOccurred(s).app.solver = s.solver /\ ErrorOccurred(s).fx = NoEffects
    BY DEF ErrorOccurred, Handled, AppState
  <2>2. /\ FetchComplete(s, e.number).app.solver = s.solver
        /\ FetchComplete(s, e.number).fx = NoEffects
    BY DEF FetchComplete, Handled, AppState
  <2> QED
    BY <1>3, <1>5, <2>1, <2>2
       DEF AllFramesApplied, FetchFailed, Ignored, Handled
<1>10. e.kind = "FetchMapComplete" => Kept(FetchMapComplete(s))
  BY <1>4 DEF FetchMapComplete, Handled
<1> HIDE DEF Kept
<1>11. e.kind = "DisconnectRequested" => Rests(s, e, DisconnectRequested(s))
  <2> DEFINE fx == [ClearAnimation EXCEPT !.link = "disconnect"]
  <2>1. /\ fx.jobs = << >> /\ fx.interrupt = "keep" /\ fx.buffer = "clear"
    BY DEF ClearAnimation, NoEffects
  <2>2. /\ DisconnectRequested(s).fx = fx
        /\ DisconnectRequested(s).app.solver = "NO_DATA"
    BY <1>6 DEF DisconnectRequested, Handled
  <2> HIDE DEF fx
  <2> QED
    BY <1>6, <2>1, <2>2, PlainJobs, RequestKinds DEF Rests, ClearsBuffer
<1>12. e.kind = "TerminateRequested" => Rests(s, e, TerminateRequested(s))
  BY <1>5, PlainJobs, RequestKinds
     DEF TerminateRequested, Rests, ClearsBuffer, Handled
<1>13. e.kind = "AbortRequested" => Rests(s, e, AbortRequested(s))
  <2> DEFINE fx == [ClearAnimation EXCEPT !.interrupt = "set"]
  <2>1. /\ fx.jobs = << >> /\ fx.link = "keep" /\ fx.buffer = "clear"
        /\ fx.interrupt = "set"
    BY DEF ClearAnimation, NoEffects
  <2>2. AbortRequested(s).fx = fx /\ AbortRequested(s).app.solver = s.solver
    BY <1>5 DEF AbortRequested, Handled
  <2> HIDE DEF fx
  <2> QED
    BY <2>1, <2>2, PlainJobs, RequestKinds DEF Rests, ClearsBuffer
<1>14. e.kind = "FetchRequested" => Rests(s, e, FetchRequested(s))
  <2> DEFINE fx == [Jobs(<<Do("fetch_map")>>) EXCEPT !.interrupt = "clear",
                                                     !.buffer = "clear"]
  <2>1. /\ fx.jobs = <<Do("fetch_map")>> /\ fx.link = "keep"
        /\ fx.buffer = "clear" /\ fx.interrupt = "clear"
    BY DEF Jobs, NoEffects
  <2>2. \/ FetchRequested(s).fx = fx /\ FetchRequested(s).app.solver = s.solver
        \/ FetchRequested(s) = Ignored(s)
    BY <1>5 DEF FetchRequested, Handled
  <2> HIDE DEF fx
  <2>3. Kept(Ignored(s))
    BY <1>3 DEF Kept, Ignored, Handled
  <2> QED
    BY <1>2, <2>1, <2>2, <2>3, PlainJobs, RequestKinds DEF Rests, ClearsBuffer
<1>15. e.kind = "ServerPolled" => Rests(s, e, ServerPolled(s, e.response))
  BY RestingAnswer
<1> QED
  BY <1>1, <1>2, <1>7, <1>8, <1>9, <1>10, <1>11, <1>12, <1>13, <1>14, <1>15
     DEF Transition, EventKind, Harmful

-----------------------------------------------------------------------------
(* What the effects do to the runner                                       *)

\* A job as it is submitted: a fetch is given the list.
Given(j, gen) == IF j.kind = "fetch_frames" THEN [j EXCEPT !.gen = gen] ELSE j

(* The runner after the effects of an event.                               *)
LEMMA DrainIo ==
    ASSUME NEW r \in Io, NEW fx \in Effects
    PROVE  LET q == Linked(fx, Submitted(fx, Buffer(fx, r)))
               empty == fx.buffer = "clear" \/ fx.link = "disconnect"
           IN
           /\ q.interrupt <=> CASE fx.interrupt = "set" -> TRUE
                                [] fx.interrupt = "clear" -> FALSE
                                [] fx.interrupt = "keep" -> r.interrupt
           /\ q.gen = IF fx.link = "disconnect" THEN r.gen + 1 ELSE r.gen
           /\ q.fetched = IF fx.link = "disconnect" THEN {} ELSE r.fetched
           /\ q.frames = IF empty THEN << >> ELSE r.frames
           /\ q.total = IF empty THEN 0 ELSE r.total
           /\ q.applied = IF empty THEN 0 ELSE r.applied
           /\ Elements(q.cmds) = Elements(r.cmds) \cup
                {Given(j, r.gen) : j \in Elements(fx.jobs)}
<1> DEFINE b == Buffer(fx, r)
           m == Submitted(fx, b)
           q == Linked(fx, m)
<1>1. b \in Io /\ m \in Io /\ q \in Io
  BY IoTypes
<1>2. /\ b.interrupt = r.interrupt /\ b.gen = r.gen /\ b.fetched = r.fetched
      /\ b.cmds = r.cmds
      /\ b.frames = IF fx.buffer = "clear" THEN << >> ELSE r.frames
      /\ b.total = IF fx.buffer = "clear" THEN 0 ELSE r.total
      /\ b.applied = IF fx.buffer = "clear" THEN 0 ELSE r.applied
  BY DEF Buffer, Cleared, Io
<1>3. b.interrupt <=> r.interrupt
  BY <1>2
<1> HIDE DEF b
<1>4. /\ fx.interrupt \in {"keep", "set", "clear"} /\ fx.jobs \in Seq(Job)
      /\ fx.link \in {"keep", "connect", "disconnect"}
      /\ r.cmds \in Seq(Job) /\ b.cmds \in Seq(Job)
  BY <1>1 DEF Effects, Io
<1> DEFINE jobs == [i \in 1 .. Len(fx.jobs) |->
                      IF fx.jobs[i].kind = "fetch_frames"
                      THEN [fx.jobs[i] EXCEPT !.gen = b.gen] ELSE fx.jobs[i]]
<1>5. /\ m.gen = b.gen /\ m.fetched = b.fetched /\ m.frames = b.frames
      /\ m.total = b.total /\ m.applied = b.applied
      /\ m.cmds = b.cmds \o jobs
  BY <1>1 DEF Submitted, Io
<1>6. m.interrupt <=> CASE fx.interrupt = "set" -> TRUE
                        [] fx.interrupt = "clear" -> FALSE
                        [] fx.interrupt = "keep" -> r.interrupt
  <2>1. m.interrupt = CASE fx.interrupt = "set" -> TRUE
                        [] fx.interrupt = "clear" -> FALSE
                        [] fx.interrupt = "keep" -> b.interrupt
    BY <1>1 DEF Submitted, Io
  <2> QED
    BY <1>3, <1>4, <2>1
<1>7. /\ jobs \in Seq(Job) /\ Len(jobs) = Len(fx.jobs)
      /\ \A i \in 1 .. Len(fx.jobs) : jobs[i] = Given(fx.jobs[i], b.gen)
  <2>1. Len(fx.jobs) \in Nat /\ \A i \in 1 .. Len(fx.jobs) : fx.jobs[i] \in Job
    BY <1>4
  <2>2. b.gen \in Nat
    BY <1>1 DEF Io
  <2>3. \A j \in Job : [j EXCEPT !.gen = b.gen] \in Job
    BY <2>2 DEF Job
  <2>4. jobs \in [1 .. Len(fx.jobs) -> Job]
    BY <2>1, <2>3
  <2>5. \A i \in 1 .. Len(fx.jobs) : jobs[i] = Given(fx.jobs[i], b.gen)
    BY DEF Given
  <2> HIDE DEF jobs
  <2> QED
    BY <2>1, <2>4, <2>5, IsASeq
<1> HIDE DEF jobs, m
<1>8. Elements(jobs) = {Given(j, b.gen) : j \in Elements(fx.jobs)}
  BY <1>7 DEF Elements
<1>9. Elements(m.cmds) = Elements(r.cmds) \cup {Given(j, r.gen) : j \in Elements(fx.jobs)}
  <2>1. Elements(b.cmds \o jobs) = Elements(b.cmds) \cup Elements(jobs)
    BY <1>4, <1>7, ElementsOf
  <2> QED
    BY <1>2, <1>5, <1>8, <2>1
<1>10. CASE fx.link = "keep"
  BY <1>2, <1>5, <1>6, <1>9, <1>10 DEF Linked, m, b
<1>11. CASE fx.link = "connect"
  <2>1. /\ [m EXCEPT !.epoch = @ + 1].gen = m.gen
        /\ [m EXCEPT !.epoch = @ + 1].fetched = m.fetched
        /\ [m EXCEPT !.epoch = @ + 1].frames = m.frames
        /\ [m EXCEPT !.epoch = @ + 1].total = m.total
        /\ [m EXCEPT !.epoch = @ + 1].applied = m.applied
        /\ [m EXCEPT !.epoch = @ + 1].cmds = m.cmds
        /\ [m EXCEPT !.epoch = @ + 1].interrupt = m.interrupt
    BY <1>1 DEF Io
  <2> QED
    BY <1>2, <1>5, <1>6, <1>9, <1>11, <2>1 DEF Linked, m, b
<1>12. CASE fx.link = "disconnect"
  <2>1. /\ Disconnected(m).gen = m.gen + 1 /\ Disconnected(m).fetched = {}
        /\ Disconnected(m).frames = << >> /\ Disconnected(m).total = 0
        /\ Disconnected(m).applied = 0 /\ Disconnected(m).cmds = m.cmds
        /\ Disconnected(m).interrupt = m.interrupt
    BY <1>1 DEF Disconnected, Cleared, Reassigned, Io
  <2> QED
    BY <1>2, <1>5, <1>6, <1>9, <1>12, <2>1 DEF Linked, m, b
<1> QED
  BY <1>4, <1>10, <1>11, <1>12

\* What the steps do to the list, to the counters and to the interrupt.
SameList == io'.gen = io.gen /\ io'.fetched = io.fetched
SameBuffer ==
    io'.frames = io.frames /\ io'.total = io.total /\ io'.applied = io.applied
Emptied == io'.frames = << >> /\ io'.total = 0 /\ io'.applied = 0
SameInterrupt == io'.interrupt <=> io.interrupt

(* The main thread takes an event of such a session.                       *)
LEMMA DrainRests ==
    ASSUME WellFormed, RestInv, Drain, NEW e, e = Head(events)
    PROVE  /\ draining /\ events # << >> /\ events' = Tail(events)
           /\ draining' <=> events' # << >>
           /\ UNCHANGED <<worker, scene, srv, host, left>>
           /\ e \in Event /\ e \in Waiting
           /\ app'.solver \in Computing => app.solver \in Computing
           /\ \A j \in Commands' :
                \/ j \in Commands
                \/ /\ j.kind \in RestingJobs
                   /\ j.kind = "fetch_map" => e.kind = "FetchRequested"
                   /\ IsFetchAll(j) => e.kind = "FetchMapComplete"
                   /\ IsLive(j) => app.solver \in Computing
                   /\ j.kind = "fetch_frames" => j.gen = io.gen
           /\ \/ SameList /\ (SameBuffer \/ Emptied) /\ SameInterrupt
              \/ /\ SameList /\ Emptied /\ io'.interrupt
                 /\ e.kind \in Requested \ {"FetchRequested"}
              \/ /\ SameList /\ Emptied /\ ~io'.interrupt
                 /\ e.kind = "FetchRequested"
              \/ /\ io'.gen = io.gen + 1 /\ io'.fetched = {} /\ Emptied
                 /\ SameInterrupt /\ e.kind \in Requested \ {"FetchRequested"}
           /\ io'.backend = io.backend \/ io'.gen = io.gen + 1
<1> DEFINE o == Transition(app, e)
<1>1. /\ io \in Io /\ app \in AppState /\ events \in Seq(Event)
      /\ events # << >> /\ draining
  BY DEF WellFormed, TypeOK, QueueWellFormed, Drain
<1>2. e \in Event /\ e \in Waiting
  BY <1>1, HeadAndTail DEF Waiting
<1>3. Rests(app, e, o)
  BY <1>1, <1>2, RestingTransition DEF RestInv
<1>4. o.app \in AppState /\ o.fx \in Effects
  BY <1>1, <1>2, TransitionType DEF Outcome
<1>5. /\ app' = o.app /\ io' = Linked(o.fx, Submitted(o.fx, Buffer(o.fx, io)))
      /\ events' = Tail(events) /\ (draining' <=> events' # << >>)
      /\ UNCHANGED <<worker, scene, srv, host, left>>
  BY DEF Drain, Carried
<1> HIDE DEF o
<1> DEFINE fx == o.fx
           empty == fx.buffer = "clear" \/ fx.link = "disconnect"
<1>6. /\ io'.interrupt <=> CASE fx.interrupt = "set" -> TRUE
                             [] fx.interrupt = "clear" -> FALSE
                             [] fx.interrupt = "keep" -> io.interrupt
      /\ io'.gen = IF fx.link = "disconnect" THEN io.gen + 1 ELSE io.gen
      /\ io'.fetched = IF fx.link = "disconnect" THEN {} ELSE io.fetched
      /\ io'.frames = IF empty THEN << >> ELSE io.frames
      /\ io'.total = IF empty THEN 0 ELSE io.total
      /\ io'.applied = IF empty THEN 0 ELSE io.applied
      /\ Elements(io'.cmds) = Elements(io.cmds) \cup
                                {Given(j, io.gen) : j \in Elements(fx.jobs)}
  <2> HIDE DEF fx
  <2> DEFINE q == Linked(fx, Submitted(fx, Buffer(fx, io)))
  <2>1. fx \in Effects /\ io' = q
    BY <1>4, <1>5 DEF fx
  <2>2. /\ q.interrupt <=> CASE fx.interrupt = "set" -> TRUE
                             [] fx.interrupt = "clear" -> FALSE
                             [] fx.interrupt = "keep" -> io.interrupt
        /\ q.gen = IF fx.link = "disconnect" THEN io.gen + 1 ELSE io.gen
        /\ q.fetched = IF fx.link = "disconnect" THEN {} ELSE io.fetched
        /\ q.frames = IF empty THEN << >> ELSE io.frames
        /\ q.total = IF empty THEN 0 ELSE io.total
        /\ q.applied = IF empty THEN 0 ELSE io.applied
        /\ Elements(q.cmds) = Elements(io.cmds) \cup
                                {Given(j, io.gen) : j \in Elements(fx.jobs)}
    BY <1>1, <2>1, DrainIo
  <2> HIDE DEF q
  <2> QED
    BY <2>1, <2>2
<1>7. fx.link # "disconnect" => io'.backend = io.backend
  BY <1>1, <1>4, <1>5, EffectsLink DEF Effects
<1>8. /\ fx.interrupt \in {"keep", "set", "clear"}
      /\ fx.link \in {"keep", "connect", "disconnect"}
      /\ fx.buffer \in {"keep", "clear"} /\ fx.jobs \in Seq(Job)
  BY <1>4 DEF Effects
<1>9. /\ app'.solver \in Computing => app.solver \in Computing
      /\ JobsAreDue(app, e, fx) /\ ClearsBuffer(e, fx)
  BY <1>3, <1>5 DEF Rests
<1> HIDE DEF fx
<1>10. \A j \in Commands' :
         \/ j \in Commands
         \/ /\ j.kind \in RestingJobs
            /\ j.kind = "fetch_map" => e.kind = "FetchRequested"
            /\ IsFetchAll(j) => e.kind = "FetchMapComplete"
            /\ IsLive(j) => app.solver \in Computing
            /\ j.kind = "fetch_frames" => j.gen = io.gen
  <2> SUFFICES ASSUME NEW i \in Elements(fx.jobs), NEW j, j = Given(i, io.gen)
               PROVE  /\ j.kind \in RestingJobs
                      /\ j.kind = "fetch_map" => e.kind = "FetchRequested"
                      /\ IsFetchAll(j) => e.kind = "FetchMapComplete"
                      /\ IsLive(j) => app.solver \in Computing
                      /\ j.kind = "fetch_frames" => j.gen = io.gen
    BY <1>6 DEF Commands
  <2>1. i \in Job
    BY <1>8 DEF Elements
  <2>2. /\ i.kind \in RestingJobs
        /\ i.kind = "fetch_map" => e.kind = "FetchRequested"
        /\ IsFetchAll(i) => e.kind = "FetchMapComplete"
        /\ IsLive(i) => app.solver \in Computing
    BY <1>9 DEF JobsAreDue
  <2>3. CASE i.kind # "fetch_frames"
    BY <2>2, <2>3 DEF Given
  <2>4. CASE i.kind = "fetch_frames"
    <3>1. j = [i EXCEPT !.gen = io.gen]
      BY <2>4 DEF Given
    <3>2. j.kind = i.kind /\ j.gen = io.gen /\ (j.latest <=> i.latest)
      BY <2>1, <3>1 DEF Job
    <3> QED
      BY <2>2, <2>4, <3>2 DEF IsFetchAll, IsLive
  <2> QED
    BY <2>3, <2>4
<1>11. \/ SameList /\ (SameBuffer \/ Emptied) /\ SameInterrupt
       \/ /\ SameList /\ Emptied /\ io'.interrupt
          /\ e.kind \in Requested \ {"FetchRequested"}
       \/ /\ SameList /\ Emptied /\ ~io'.interrupt
          /\ e.kind = "FetchRequested"
       \/ /\ io'.gen = io.gen + 1 /\ io'.fetched = {} /\ Emptied
          /\ SameInterrupt /\ e.kind \in Requested \ {"FetchRequested"}
  <2>1. CASE fx.link = "disconnect"
    <3>1. fx.interrupt = "keep" /\ fx.buffer = "clear"
      BY <1>8, <1>9, <2>1 DEF ClearsBuffer
    <3> QED
      BY <1>6, <1>9, <2>1, <3>1 DEF ClearsBuffer, Emptied, SameInterrupt
  <2>2. CASE fx.link # "disconnect" /\ fx.interrupt = "keep"
    BY <1>6, <1>8, <2>2 DEF SameList, SameBuffer, Emptied, SameInterrupt
  <2>3. CASE fx.link # "disconnect" /\ fx.interrupt = "set"
    BY <1>6, <1>9, <2>3 DEF ClearsBuffer, SameList, Emptied
  <2>4. CASE fx.link # "disconnect" /\ fx.interrupt = "clear"
    BY <1>6, <1>9, <2>4 DEF ClearsBuffer, SameList, Emptied
  <2> QED
    BY <1>8, <2>1, <2>2, <2>3, <2>4
<1>12. io'.backend = io.backend \/ io'.gen = io.gen + 1
  BY <1>6, <1>7
<1> QED
  BY <1>1, <1>2, <1>5, <1>9, <1>10, <1>11, <1>12

-----------------------------------------------------------------------------
(* The server stays at rest                                                *)

(* A token that is spent stays spent.                                      *)
LEMMA NoToken ==
    ASSUME TypeOK, NEW u \in Request \cup Fault, left[u] = 0,
           \/ UNCHANGED left
           \/ \E t \in Request \cup Fault : Spend(t)
    PROVE  left'[u] = 0
<1>1. left \in [Request \cup Fault -> Nat]
  BY DEF TypeOK
<1>2. ASSUME NEW t \in Request \cup Fault, Spend(t)
      PROVE  left'[u] = 0
  BY <1>1, <1>2 DEF Spend
<1> QED
  BY <1>2

(* Every step spends a token at most.                                      *)
LEMMA TokensAreSpent ==
    ASSUME [Next]_vars
    PROVE  UNCHANGED left \/ \E t \in Request \cup Fault : Spend(t)
<1>1. CASE User
  BY <1>1 DEF User, JustAsk, AskRun, AskResume, AskFetch, AskAbort, AsksWith,
              Request
<1>2. CASE MainThread
  BY <1>2 DEF MainThread, Drain, PersistentTick, Watchdog, Stall, Pump, Fault
<1>3. CASE IoWorker
  BY <1>3
     DEF IoWorker, Query, Terminate, UploadAtomic, LaunchServer, StopServer,
         ValidatePath, FetchMap, FetchFramesBegin, Download, FetchFramesEnd,
         AppendFrame, DownloadInterrupted, Report, AutoQuery, Fault
<1>4. CASE \E t \in Ticket : Attempt(t)
  BY <1>4 DEF Attempt, ConnectOpens, ConnectFails, ConnectReports, Fault
<1>5. CASE SolverRun \/ Environment
  BY <1>5
     DEF SolverRun, SolverBoots, SolverAdvances, SolverFinishes, Environment,
         BuildEnds, SolverCrashes, ServerDies, TransportDrops, Ping, Fault
<1>6. CASE UNCHANGED vars
  BY <1>6 DEF vars
<1> QED
  BY <1>1, <1>2, <1>3, <1>4, <1>5, <1>6 DEF Next

(* No step asks for anything that makes the server work.                   *)
LEMMA StillNoTokens ==
    ASSUME WellFormed, RestInv, [Next]_vars
    PROVE  \A t \in DiskTokens : left'[t] = 0
<1>1. /\ TypeOK /\ DiskTokens \subseteq Request \cup Fault
      /\ \A t \in DiskTokens : left[t] = 0
  BY DEF WellFormed, RestInv, ServerRests, DiskTokens, Request, Fault
<1>2. UNCHANGED left \/ \E t \in Request \cup Fault : Spend(t)
  BY TokensAreSpent
<1> QED
  BY <1>1, <1>2, NoToken

(* What a step of the worker starts from: its next job, and the runner     *)
(* without it.                                                             *)
LEMMA TakenIo ==
    ASSUME WellFormed
    PROVE  /\ NextJob \in Job /\ (NextJob \in Commands \/ NextJob = Do("ping"))
           /\ Elements(Taken.cmds) \subseteq Commands
           /\ Taken.gen = io.gen /\ Taken.fetched = io.fetched
           /\ Taken.frames = io.frames /\ Taken.total = io.total
           /\ Taken.applied = io.applied /\ (Taken.interrupt <=> io.interrupt)
           /\ Taken.backend = io.backend
<1>1. /\ io \in Io /\ io.cmds \in Seq(Job) /\ NextJob \in Job
  BY TakenTypes DEF WellFormed, TypeOK, Io
<1>2. CASE io.cmds = << >>
  <2>1. NextJob = Do("ping") /\ Taken = [io EXCEPT !.poll = FALSE]
    BY <1>2 DEF NextJob, Taken
  <2> QED
    BY <1>1, <2>1 DEF Io, Commands
<1>3. CASE io.cmds # << >>
  <2>1. NextJob = Head(io.cmds) /\ Taken = [io EXCEPT !.cmds = Tail(io.cmds)]
    BY <1>3 DEF NextJob, Taken
  <2>2. Elements(io.cmds) = {Head(io.cmds)} \cup Elements(Tail(io.cmds))
    BY <1>1, <1>3, HeadAndTail
  <2>3. Taken.cmds = Tail(io.cmds)
    BY <1>1, <2>1 DEF Io
  <2> QED
    BY <1>1, <2>1, <2>2, <2>3 DEF Io, Commands
<1> QED
  BY <1>2, <1>3

(* The ways in which a job ends.                                           *)
LEMMA WorkerEnds ==
    ASSUME NEW j, NEW e
    PROVE  /\ IdleWorker.pc = "idle" /\ IdleWorker.job = Do("ping")
           /\ IdleWorker.event = Plain("PollTick")
           /\ Reports(j, e) => /\ worker'.pc = "report" /\ worker'.job = j
                               /\ worker'.event = e
           /\ Ends(j) => /\ worker'.pc = "after" /\ worker'.job = j
                         /\ worker'.event = Plain("PollTick")
           /\ FetchEndsWith(j, e) =>
                /\ worker'.pc \in {"report", "after"} /\ worker'.job = j
                /\ worker'.event = e \/ worker'.event = Plain("PollTick")
<1>1. /\ IdleWorker.pc = "idle" /\ IdleWorker.job = Do("ping")
      /\ IdleWorker.event = Plain("PollTick")
  BY DEF IdleWorker
<1>2. Reports(j, e) => /\ worker'.pc = "report" /\ worker'.job = j
                       /\ worker'.event = e
  BY DEF Reports, IdleWorker
<1>3. Ends(j) => /\ worker'.pc = "after" /\ worker'.job = j
                 /\ worker'.event = Plain("PollTick")
  BY DEF Ends, IdleWorker
<1> QED
  BY <1>1, <1>2, <1>3 DEF FetchEndsWith

(* What the threads report in such a session.                              *)
LEMMA HarmlessEvents ==
    /\ \A k : k \notin Harmful /\ k # "ServerPolled" => Harmless(Plain(k))
    /\ \A k, n : k \notin Harmful /\ k # "ServerPolled" => Harmless(Numbered(k, n))
    /\ \A k, n : k \in {"PollTick", "ErrorOccurred", "ServerLost",
                      "ServerLaunched", "FetchMapComplete", "FetchFailed",
                      "FetchComplete"}
                 => Reportable(Plain(k)) /\ Reportable(Numbered(k, n))
    /\ Reportable(Polled(Refused)) /\ Reportable(Polled(EmptyResponse))
    /\ ~host.old => \A s, n : ~Server!WorkInProgress(s)
                                => Reportable(Polled(Answered(s, n)))
<1>1. \A k : Plain(k).kind = k /\ Plain(k).response = EmptyResponse
  BY DEF Plain
<1>2. \A k, n : Numbered(k, n).kind = k /\ Numbered(k, n).response = EmptyResponse
  BY DEF Numbered, Plain
<1>3. \A r : Polled(r).kind = "ServerPolled" /\ Polled(r).response = r
  BY DEF Polled, Plain
<1>4. /\ EmptyResponse.kind = "empty" /\ EmptyResponse.status = "NO_DATA"
      /\ Refused.kind = "error" /\ Refused.status = "NO_DATA"
  BY DEF EmptyResponse, Refused
<1>5. /\ "ServerPolled" \notin Harmful
      /\ {"ServerPolled", "PollTick", "ErrorOccurred", "ServerLost",
          "ServerLaunched", "FetchMapComplete", "FetchFailed", "FetchComplete"}
           \cap (Requested \cup {"AllFramesApplied"}) = {}
      /\ {"PollTick", "ErrorOccurred", "ServerLost", "ServerLaunched",
          "FetchMapComplete", "FetchFailed", "FetchComplete"} \cap Harmful = {}
  BY RequestKinds DEF Harmful
<1>7. /\ \A k : k \notin Harmful /\ k # "ServerPolled" => Harmless(Plain(k))
      /\ \A k, n : k \notin Harmful /\ k # "ServerPolled" => Harmless(Numbered(k, n))
      /\ Harmless(Polled(Refused)) /\ Harmless(Polled(EmptyResponse))
  BY <1>1, <1>2, <1>3, <1>4, <1>5 DEF Harmless, SaysComputing
<1>6. ASSUME ~host.old, NEW s, NEW n, ~Server!WorkInProgress(s)
      PROVE  Harmless(Polled(Answered(s, n)))
  <2>1. Answered(s, n).kind = "status"
    BY <1>6 DEF Answered
  <2>2. Answered(s, n).status = Server!StatusString(s)
    BY DEF Answered
  <2>3. Server!StatusString(s) \notin {"BUSY", "SAVE_AND_QUIT"}
    BY <1>6, ZenonT(60) DEF Server!StatusString, Server!WorkInProgress
  <2> QED
    BY <1>3, <1>5, <2>1, <2>2, <2>3 DEF Harmless, SaysComputing
<1> QED
  BY <1>1, <1>2, <1>3, <1>5, <1>6, <1>7 DEF Reportable

(* What a query, a terminate and a launch find and leave.                  *)
LEMMA RequestsRest ==
    ASSUME WellFormed, RestInv, Query \/ Terminate \/ LaunchServer
    PROVE  /\ ~Server!WorkInProgress(srv') /\ ~host'.old
           /\ host'.out = host.out /\ (host.up => host'.up)
           /\ worker'.job.kind \in RestingJobs /\ Reportable(worker'.event)
           /\ worker'.pc \in {"idle", "report"}
           /\ worker'.event.kind # "FetchMapComplete"
<1>1. /\ TypeOK /\ host \in Host /\ srv \in Server!ServerState
      /\ ~Server!WorkInProgress(srv) /\ ~host.old
      /\ NextJob.kind \in RestingJobs /\ Do("ping").kind = "ping"
  BY TakenIo DEF WellFormed, TypeOK, RestInv, ServerRests, Do, RestingJobs
<1> DEFINE Safe(e) == Reportable(e) /\ e.kind # "FetchMapComplete"
           Fine == /\ worker'.job.kind \in RestingJobs /\ Safe(worker'.event)
                   /\ worker'.pc \in {"idle", "report"}
<1>2. /\ \A k \in {"ServerLost", "ErrorOccurred", "ServerLaunched", "PollTick"} :
           Safe(Plain(k))
      /\ Safe(Polled(Refused)) /\ Safe(Polled(EmptyResponse))
      /\ \A s, n : ~Server!WorkInProgress(s) => Safe(Polled(Answered(s, n)))
  BY <1>1, HarmlessEvents, EventKinds DEF Harmful
<1> HIDE DEF Safe
<1>3. /\ worker' = IdleWorker => Fine
      /\ \A e : Safe(e) /\ Reports(NextJob, e) => Fine
  <2>1. worker' = IdleWorker => Fine
    BY <1>1, <1>2, WorkerEnds DEF RestingJobs
  <2>2. ASSUME NEW e, Safe(e), Reports(NextJob, e)
        PROVE  Fine
    BY <1>1, <2>2, WorkerEnds
  <2> QED
    BY <2>1, <2>2
<1> DEFINE Still == /\ ~Server!WorkInProgress(srv') /\ ~host'.old
                    /\ host'.out = host.out /\ (host.up => host'.up)
<1> HIDE DEF Fine
<1>4. CASE Query
  <2>1. ~Accepts(NextJob)
    <3>1. NextJob.kind \in {"ping", "cancel_build"}
      BY <1>1, <1>4 DEF Query, Takes, QueryJobs, RestingJobs
    <3>2. ~Server!CanCancelBuild(srv)
      BY <1>1 DEF Server!CanCancelBuild, Server!WorkInProgress
    <3> QED
      BY <3>1, <3>2 DEF Accepts
  <2>2. UNCHANGED <<srv, host>>
    BY <1>4, <2>1 DEF Query
  <2>3. \/ worker' = IdleWorker
        \/ Reports(NextJob, Plain("ServerLost"))
        \/ Reports(NextJob, Polled(Answered(srv, orders'.taken)))
        \/ Reports(NextJob, Polled(Refused))
    BY <1>4, <2>1 DEF Query
  <2>4. Fine
    BY <1>1, <1>2, <1>3, <2>3
  <2> QED
    BY <1>1, <2>2, <2>4 DEF Fine, Safe
<1>5. CASE Terminate
  <2>1. ~Server!WorkInProgress(Server!TerminateRequested(srv))
    BY <1>1 DEF Server!WorkInProgress, Server!TerminateRequested, Server!ServerState
  <2>2. /\ [host EXCEPT !.boot = "no"].out = host.out
        /\ [host EXCEPT !.boot = "no"].up = host.up
        /\ [host EXCEPT !.boot = "no"].old = host.old
    BY <1>1 DEF Host
  <2>3. /\ srv' = srv \/ srv' = Server!TerminateRequested(srv)
        /\ host' = host \/ host' = [host EXCEPT !.boot = "no"]
    BY <1>5 DEF Terminate
  <2>4. Still
    BY <1>1, <2>1, <2>2, <2>3
  <2>5. \/ worker' = IdleWorker
        \/ Reports(NextJob, Polled(EmptyResponse))
        \/ Reports(NextJob, Polled(Answered(srv', orders.taken)))
    BY <1>5 DEF Terminate
  <2>6. Fine
    BY <1>2, <1>3, <2>4, <2>5
  <2> QED
    BY <2>4, <2>6 DEF Fine, Safe
<1>6. CASE LaunchServer
  <2>1. ~Server!WorkInProgress(FromDisk)
    <3>1. FromDisk.solver \in {"Idle", "Failed"} /\ FromDisk.build \in {"Built", "None"}
      BY DEF FromDisk, Server!SwitchProject, Server!DefaultState
    <3> QED
      BY <3>1 DEF Server!WorkInProgress
  <2>2. /\ [host EXCEPT !.up = TRUE, !.old = FALSE].out = host.out
        /\ [host EXCEPT !.up = TRUE, !.old = FALSE].up = TRUE
        /\ [host EXCEPT !.up = TRUE, !.old = FALSE].old = FALSE
    BY <1>1 DEF Host
  <2>3. /\ srv' = srv \/ srv' = FromDisk
        /\ host' = host \/ host' = [host EXCEPT !.up = TRUE, !.old = FALSE]
    BY <1>6 DEF LaunchServer
  <2>4. Still
    BY <1>1, <2>1, <2>2, <2>3
  <2>5. \/ worker' = IdleWorker
        \/ Reports(NextJob, Plain("ErrorOccurred"))
        \/ Reports(NextJob, Plain("ServerLaunched"))
    BY <1>6 DEF LaunchServer, Raises
  <2>6. Fine
    BY <1>2, <1>3, <2>5
  <2> QED
    BY <2>4, <2>6 DEF Fine, Safe
<1> QED
  BY <1>4, <1>5, <1>6

(* What the rest of the worker's steps report.                             *)
LEMMA FetchesRest ==
    ASSUME WellFormed, RestInv,
           \/ ValidatePath \/ FetchMap \/ FetchFramesBegin \/ Download
           \/ FetchFramesEnd \/ AppendFrame \/ DownloadInterrupted
           \/ Report \/ AutoQuery
    PROVE  /\ UNCHANGED <<srv, host>>
           /\ worker'.job.kind \in RestingJobs /\ Reportable(worker'.event)
<1>1. /\ worker \in Worker /\ ~Server!WorkInProgress(srv) /\ ~host.old
      /\ NextJob.kind \in RestingJobs /\ Do("ping").kind = "ping"
      /\ worker.job.kind \in RestingJobs /\ Reportable(worker.event)
  BY TakenIo DEF WellFormed, TypeOK, RestInv, ServerRests, Do, RestingJobs
<1> DEFINE Fine == worker'.job.kind \in RestingJobs /\ Reportable(worker'.event)
<1>2. /\ \A k \in {"ErrorOccurred", "FetchMapComplete", "FetchFailed",
                   "PollTick"} : Reportable(Plain(k))
      /\ \A n : Reportable(Numbered("FetchComplete", n))
      /\ Reportable(Polled(Refused)) /\ \A n : Reportable(Polled(Answered(srv, n)))
  BY <1>1, HarmlessEvents DEF Harmful
<1>3. /\ worker' = IdleWorker => Fine
      /\ \A j : j.kind \in RestingJobs /\ Ends(j) => Fine
      /\ \A j, e : j.kind \in RestingJobs /\ Reportable(e) /\ Reports(j, e) => Fine
      /\ \A j, e : j.kind \in RestingJobs /\ Reportable(e) /\ FetchEndsWith(j, e)
                     => Fine
  <2>1. worker' = IdleWorker => Fine
    BY <1>1, <1>2, WorkerEnds DEF RestingJobs
  <2>2. ASSUME NEW j, j.kind \in RestingJobs, Ends(j)
        PROVE  Fine
    BY <1>2, <2>2, WorkerEnds
  <2>3. ASSUME NEW j, NEW e, j.kind \in RestingJobs, Reportable(e), Reports(j, e)
        PROVE  Fine
    BY <2>3, WorkerEnds
  <2> HIDE DEF Fine
  <2> QED
    BY <2>1, <2>2, <2>3 DEF FetchEndsWith
<1>4. UNCHANGED <<srv, host>>
  BY DEF ValidatePath, FetchMap, FetchFramesBegin, Download, FetchFramesEnd,
         AppendFrame, DownloadInterrupted, Report, AutoQuery
<1>5. /\ \A w : worker' = w /\ w.job = worker.job /\ w.event = worker.event => Fine
      /\ \A w : worker' = w /\ w.job = NextJob /\ w.event = Plain("PollTick")
                  => Fine
  BY <1>1, <1>2
<1> HIDE DEF Fine
<1>6. ASSUME ValidatePath \/ FetchMap PROVE Fine
  BY <1>1, <1>2, <1>3, <1>6 DEF ValidatePath, FetchMap
<1>7. ASSUME FetchFramesBegin PROVE Fine
  <2>1. \/ worker' = IdleWorker
        \/ Reports(NextJob, Plain("FetchFailed"))
        \/ FetchEndsWith(NextJob, Plain("FetchFailed"))
        \/ FetchEndsWith(NextJob, Numbered("FetchComplete", 0))
        \/ \E todo : worker' = [IdleWorker EXCEPT !.pc = "fetch",
                                   !.job = NextJob, !.todo = todo]
    BY <1>7 DEF FetchFramesBegin
  <2>2. ASSUME NEW todo
        PROVE  /\ [IdleWorker EXCEPT !.pc = "fetch", !.job = NextJob,
                                     !.todo = todo].job = NextJob
               /\ [IdleWorker EXCEPT !.pc = "fetch", !.job = NextJob,
                                     !.todo = todo].event = Plain("PollTick")
    BY DEF IdleWorker
  <2> QED
    BY <1>1, <1>2, <1>3, <1>5, <2>1, <2>2
<1>8. ASSUME Download PROVE Fine
  <2>1. \/ FetchEndsWith(worker.job, Plain("FetchFailed"))
        \/ \E n \in worker.todo :
             worker' = [worker EXCEPT !.pc = "append", !.next = n,
                                      !.data = host.out[n]]
    BY <1>8 DEF Download
  <2>2. ASSUME NEW n, NEW d
        PROVE  /\ [worker EXCEPT !.pc = "append", !.next = n,
                                 !.data = d].job = worker.job
               /\ [worker EXCEPT !.pc = "append", !.next = n,
                                 !.data = d].event = worker.event
    BY <1>1 DEF Worker
  <2>3. ASSUME NEW n \in worker.todo,
               worker' = [worker EXCEPT !.pc = "append", !.next = n,
                                        !.data = host.out[n]]
        PROVE  worker'.job = worker.job /\ worker'.event = worker.event
    BY <2>2, <2>3
  <2> QED
    BY <1>1, <1>2, <1>3, <1>5, <2>1, <2>3
<1>9. ASSUME FetchFramesEnd \/ DownloadInterrupted PROVE Fine
  BY <1>1, <1>2, <1>3, <1>9 DEF FetchFramesEnd, DownloadInterrupted
<1>10. ASSUME AppendFrame PROVE Fine
  <2>1. OneFrameDone => worker'.job = worker.job /\ worker'.event = worker.event
    BY <1>1 DEF OneFrameDone, Worker
  <2> QED
    BY <1>1, <1>2, <1>3, <1>5, <1>10, <2>1 DEF AppendFrame, HandOver
<1>11. ASSUME Report \/ AutoQuery PROVE Fine
  BY <1>1, <1>2, <1>3, <1>11 DEF Report, AutoQuery, RestingJobs
<1> QED
  BY <1>4, <1>6, <1>7, <1>8, <1>9, <1>10, <1>11 DEF Fine

(* What waits after an event has joined the queue or left it.              *)
LEMMA WaitingAfter ==
    ASSUME TypeOK
    PROVE  /\ \A e \in Event : events' = Append(events, e)
                                 => Waiting' = Waiting \cup {e}
           /\ events # << >> /\ events' = Tail(events) => Waiting' \subseteq Waiting
           /\ events' = events => Waiting' = Waiting
<1>1. events \in Seq(Event)
  BY DEF TypeOK
<1>2. ASSUME NEW e \in Event, events' = Append(events, e)
      PROVE  Waiting' = Waiting \cup {e}
  BY <1>1, <1>2, ElementsOf DEF Waiting
<1>3. ASSUME events # << >>, events' = Tail(events)
      PROVE  Waiting' \subseteq Waiting
  <2>1. Elements(events) = {Head(events)} \cup Elements(Tail(events))
    BY <1>1, <1>3, HeadAndTail
  <2> QED
    BY <1>3, <2>1 DEF Waiting
<1> QED
  BY <1>2, <1>3 DEF Waiting

(* No step of the worker disturbs the rest.                                *)
LEMMA WorkerRests ==
    ASSUME WellFormed, LinkInv, RestInv, IoWorker
    PROVE  /\ RestInv' /\ host'.out = host.out /\ (host.up => host'.up)
           /\ ~UploadAtomic /\ ~StopServer
           /\ Commands' \subseteq Commands
           /\ \/ events' = events
              \/ /\ Report /\ worker.event \in Event
                 /\ Waiting' = Waiting \cup {worker.event}
                 /\ events' = Append(events, worker.event)
<1>1. /\ TypeOK /\ NextJob.kind \in RestingJobs /\ worker.event \in Event
      /\ Elements(Taken.cmds) \subseteq Commands /\ io \in Io
  BY TakenIo DEF WellFormed, TypeOK, Worker, RestInv, Do, RestingJobs
<1>2. ~UploadAtomic /\ ~StopServer
  BY <1>1 DEF UploadAtomic, StopServer, Takes, RestingJobs
<1>3. /\ ~Server!WorkInProgress(srv') /\ ~host'.old
      /\ host'.out = host.out /\ (host.up => host'.up)
      /\ worker'.job.kind \in RestingJobs /\ Reportable(worker'.event)
  BY <1>2, RequestsRest, FetchesRest DEF IoWorker, RestInv, ServerRests
<1>4. \A t \in DiskTokens : left'[t] = 0
  BY StillNoTokens DEF Next
<1>5. ~ConnectionIsLost
  BY DEF ConnectionIsLost, LinkInv, BackendIsOpen
<1>6. Commands' \subseteq Commands
  <2>1. CASE Query \/ Terminate \/ LaunchServer \/ ValidatePath \/ FetchMap
    BY <1>1, <2>1
       DEF Query, Terminate, LaunchServer, ValidatePath, FetchMap, Commands
  <2>2. CASE FetchFramesBegin
    <3>1. \A n : [Taken EXCEPT !.total = n, !.applied = 0].cmds = Taken.cmds
      BY TakenTypes, <1>1 DEF Io
    <3> QED
      BY <1>1, <2>2, <3>1 DEF FetchFramesBegin, Commands
  <2>3. CASE AppendFrame
    <3>1. Buffered.cmds = io.cmds
      BY <1>1 DEF Buffered, Io
    <3> QED
      BY <2>3, <3>1 DEF AppendFrame, HandOver, Commands
  <2>4. CASE \/ Download \/ FetchFramesEnd \/ DownloadInterrupted \/ Report
             \/ AutoQuery
    BY <1>5, <2>4
       DEF Download, FetchFramesEnd, DownloadInterrupted, Report, AutoQuery,
           Commands
  <2> QED
    BY <1>2, <2>1, <2>2, <2>3, <2>4 DEF IoWorker
<1>7. \/ events' = events
      \/ Report /\ events' = Append(events, worker.event)
  BY <1>2, <1>5
     DEF IoWorker, Query, Terminate, LaunchServer, ValidatePath, FetchMap,
         FetchFramesBegin, Download, FetchFramesEnd, AppendFrame,
         DownloadInterrupted, Report, AutoQuery, Send
<1>8. \/ events' = events
      \/ /\ Report /\ worker.event \in Event
         /\ Waiting' = Waiting \cup {worker.event}
         /\ events' = Append(events, worker.event)
  BY <1>1, <1>7, WaitingAfter
<1>9. \A e \in Waiting' : Harmless(e)
  BY <1>8 DEF RestInv, Waiting, Reportable
<1>10. OutputIsWhole'
  BY <1>3 DEF RestInv, ServerRests, OutputIsWhole, OnDisk
<1>11. RestInv'
  BY <1>3, <1>4, <1>6, <1>9, <1>10 DEF RestInv, ServerRests
<1> QED
  BY <1>2, <1>3, <1>6, <1>8, <1>11

(* A step that leaves the server and the worker alone, and submits and     *)
(* sends nothing that could wake the server.                               *)
LEMMA CalmStep ==
    ASSUME WellFormed, RestInv, [Next]_vars, UNCHANGED <<worker, srv, host>>,
           \A j \in Commands' : j.kind \in RestingJobs,
           \A e \in Waiting' : Harmless(e)
    PROVE  RestInv'
<1>1. \A t \in DiskTokens : left'[t] = 0
  BY StillNoTokens
<1>2. ServerRests'
  BY <1>1 DEF RestInv, ServerRests, OutputIsWhole, OnDisk
<1> QED
  BY <1>2 DEF RestInv

(* The user and the timers.                                                *)
LEMMA AskersRest ==
    ASSUME WellFormed, RestInv,
           User \/ PersistentTick \/ Watchdog \/ Stall \/ Pump
    PROVE  /\ RestInv' /\ UNCHANGED <<app, worker, srv, host>>
           /\ ~AskRun /\ ~AskResume
           /\ \/ events' = events
              \/ \E e \in Event : events' = Append(events, e)
           /\ \A j \in Commands' : j \in Commands \/ j = Do("cancel_build")
<1>1. /\ TypeOK /\ io \in Io /\ io.cmds \in Seq(Job)
      /\ \A t \in DiskTokens : left[t] = 0
  BY DEF WellFormed, TypeOK, Io, RestInv, ServerRests
<1>2. ~AskRun /\ ~AskResume
  BY <1>1 DEF AskRun, AskResume, AsksWith, Spend, DiskTokens
<1>3. UNCHANGED <<app, worker, srv, host>>
  BY <1>2
     DEF User, JustAsk, AskFetch, AskAbort, AsksWith, PersistentTick, Watchdog,
         Stall, Pump
<1>4. \/ events' = events
      \/ \E k \in {"PollTick", "FetchFailed", "AllFramesApplied",
                   "FetchRequested", "AbortRequested", "ConnectRequested",
                   "DisconnectRequested", "StartServerRequested",
                   "TerminateRequested"} : events' = Append(events, Plain(k))
  <2>1. CASE JustAsk
    <3>1. PICK r \in Request \ {"run", "resume", "fetch", "abort"} :
             AsksWith(r, Plain(RequestEvent[r]))
      BY <2>1 DEF JustAsk
    <3>2. r \notin DiskTokens
      BY <1>1, <3>1 DEF AsksWith, Spend
    <3>3. r \in {"connect", "disconnect", "start_server", "terminate"}
      BY <3>1, <3>2 DEF Request, DiskTokens
    <3>4. RequestEvent[r] \in {"ConnectRequested", "DisconnectRequested",
                               "StartServerRequested", "TerminateRequested"}
      BY <3>3 DEF RequestEvent
    <3> QED
      BY <3>1, <3>4 DEF AsksWith, Dispatch
  <2>2. CASE AskFetch \/ AskAbort
    BY <2>2 DEF AskFetch, AskAbort, AsksWith, Dispatch
  <2>3. CASE PersistentTick \/ Watchdog \/ Stall \/ Pump
    BY <2>3 DEF PersistentTick, Watchdog, Stall, Pump, Dispatch, Post
  <2> QED
    BY <1>2, <2>1, <2>2, <2>3 DEF User
<1>5. \/ events' = events
      \/ \E e \in Event : Harmless(e) /\ events' = Append(events, e)
  <2>1. \A k \in {"PollTick", "FetchFailed", "AllFramesApplied",
                  "FetchRequested", "AbortRequested", "ConnectRequested",
                  "DisconnectRequested", "StartServerRequested",
                  "TerminateRequested"} : Plain(k) \in Event /\ Harmless(Plain(k))
    BY EventTypes, HarmlessEvents DEF EventKind, Harmful
  <2> QED
    BY <1>4, <2>1
<1>6. \A e \in Waiting' : Harmless(e)
  BY <1>1, <1>5, WaitingAfter DEF RestInv
<1>7. \A j \in Commands' : j \in Commands \/ j = Do("cancel_build")
  <2>1. CASE JustAsk \/ PersistentTick \/ Watchdog \/ Stall
    BY <2>1 DEF JustAsk, PersistentTick, Watchdog, Stall, Commands
  <2>2. CASE AskFetch \/ Pump
    BY <1>1, <2>2 DEF AskFetch, Pump, Reassigned, Commands, Io
  <2>3. CASE AskAbort
    <3>1. CASE app.activity = "BUILDING"
      <4>1. io' = [io EXCEPT !.cmds = Append(@, Do("cancel_build"))]
        BY <2>3, <3>1 DEF AskAbort
      <4>2. io'.cmds = Append(io.cmds, Do("cancel_build"))
        BY <1>1, <4>1 DEF Io
      <4>3. Do("cancel_build") \in Job
        BY JobTypes DEF JobKind
      <4> QED
        BY <1>1, <4>2, <4>3, ElementsOf DEF Commands
    <3>2. CASE app.activity # "BUILDING"
      BY <2>3, <3>2 DEF AskAbort, Commands
    <3> QED
      BY <3>1, <3>2
  <2> QED
    BY <1>2, <2>1, <2>2, <2>3 DEF User
<1>8. \A j \in Commands' : j.kind \in RestingJobs
  <2>1. Do("cancel_build").kind = "cancel_build"
    BY DEF Do
  <2> QED
    BY <1>7, <2>1 DEF RestInv, RestingJobs
<1>9. [Next]_vars
  BY DEF Next, MainThread
<1> QED
  BY <1>2, <1>3, <1>5, <1>6, <1>7, <1>8, <1>9, CalmStep

(* A drain.                                                                *)
LEMMA DrainKeepsRest ==
    ASSUME WellFormed, RestInv, Drain
    PROVE  RestInv'
<1> DEFINE e == Head(events)
<1>1. /\ TypeOK /\ events # << >> /\ events' = Tail(events)
      /\ UNCHANGED <<worker, srv, host>>
      /\ \A j \in Commands' : j \in Commands \/ j.kind \in RestingJobs
  <2> HIDE DEF e
  <2>1. e = Head(events)
    BY DEF e
  <2> QED
    BY <2>1, DrainRests DEF WellFormed
<1>2. Waiting' \subseteq Waiting
  BY <1>1, WaitingAfter
<1>3. [Next]_vars
  BY DEF Next, MainThread
<1> QED
  BY <1>1, <1>2, <1>3, CalmStep DEF RestInv

(* Attempts and what is left of the environment: a ping.                   *)
LEMMA OthersRest ==
    ASSUME WellFormed, RestInv,
           (\E t \in Ticket : Attempt(t)) \/ SolverRun \/ Environment
    PROVE  /\ RestInv' /\ UNCHANGED <<app, draining, worker, srv, host>>
           /\ Commands' = Commands
           /\ \/ events' = events
              \/ \E k \in {"Connected", "ConnectionFailed"} :
                   Plain(k) \in Event /\ events' = Append(events, Plain(k))
<1>1. /\ TypeOK /\ io \in Io /\ ~Server!WorkInProgress(srv)
      /\ \A t \in DiskTokens : left[t] = 0
  BY DEF WellFormed, TypeOK, RestInv, ServerRests
<1>2. ~SolverRun /\ (Environment => Ping)
  BY <1>1
     DEF SolverRun, SolverBoots, SolverAdvances, SolverFinishes, Environment,
         BuildEnds, SolverCrashes, ServerDies, TransportDrops, Solving,
         Server!WorkInProgress, Spend, DiskTokens
<1>3. UNCHANGED <<app, draining, worker, srv, host>>
  BY <1>2 DEF Attempt, ConnectOpens, ConnectFails, ConnectReports, Ping
<1>4. Commands' = Commands
  <2>1. CASE Ping
    BY <1>1, <2>1 DEF Ping, Commands, Io
  <2>2. ASSUME NEW t \in Ticket, Attempt(t)
        PROVE  Commands' = Commands
    <3>1. [io EXCEPT !.backend = t].cmds = io.cmds
      BY <1>1 DEF Io
    <3>2. io' = io \/ io' = [io EXCEPT !.backend = t]
      BY <2>2 DEF Attempt, ConnectOpens, AdoptBackend, ConnectFails,
                  ConnectReports
    <3> QED
      BY <3>1, <3>2 DEF Commands
  <2> QED
    BY <1>2, <2>1, <2>2
<1>5. \/ events' = events
      \/ \E k \in {"Connected", "ConnectionFailed"} :
           events' = Append(events, Plain(k))
  BY <1>2 DEF Attempt, ConnectOpens, ConnectFails, ConnectReports, Ping, Send
<1>6. \A k \in {"Connected", "ConnectionFailed"} :
        Plain(k) \in Event /\ Harmless(Plain(k))
  BY EventTypes, HarmlessEvents DEF EventKind, Harmful
<1>7. \A e \in Waiting' : Harmless(e)
  BY <1>1, <1>5, <1>6, WaitingAfter DEF RestInv
<1>8. [Next]_vars
  BY DEF Next
<1>9. RestInv'
  BY <1>3, <1>4, <1>7, <1>8, CalmStep DEF RestInv
<1> QED
  BY <1>3, <1>4, <1>5, <1>6, <1>9

(* Every step leaves the server at rest, and its output as it is.          *)
LEMMA StepRests ==
    ASSUME WellFormed, LinkInv, RestInv, [Next]_vars
    PROVE  /\ RestInv' /\ host'.out = host.out /\ (host.up => host'.up)
           /\ OnDisk' = OnDisk
<1>1. RestInv' /\ host'.out = host.out /\ (host.up => host'.up)
  <2>1. CASE User
    BY <2>1, AskersRest
  <2>2. CASE MainThread
    BY <2>2, AskersRest, DrainKeepsRest DEF MainThread, Drain
  <2>3. CASE IoWorker
    BY <2>3, WorkerRests
  <2>4. CASE (\E t \in Ticket : Attempt(t)) \/ SolverRun \/ Environment
    BY <2>4, OthersRest
  <2>5. CASE UNCHANGED vars
    BY <2>5 DEF vars, RestInv, ServerRests, OutputIsWhole, OnDisk, Waiting,
                Commands
  <2> QED
    BY <2>1, <2>2, <2>3, <2>4, <2>5 DEF Next
<1> QED
  BY <1>1 DEF OnDisk

-----------------------------------------------------------------------------
(* Who comes before whom                                                   *)

(* A download begins with the job that is next, and only a Fetch All sets  *)
(* the count.                                                              *)
LEMMA BeginsWith ==
    ASSUME WellFormed, FetchFramesBegin
    PROVE  /\ NextJob \in Commands /\ NextJob.kind = "fetch_frames" /\ ~AtWork
           /\ SameList /\ SameInterrupt /\ io'.backend = io.backend
           /\ io'.frames = io.frames
           /\ UNCHANGED <<app, draining, events, scene, host>>
           /\ \/ /\ SameBuffer /\ ~AtWork'
                 /\ worker'.event.kind # "FetchMapComplete"
              \/ /\ io.backend # 0 /\ ~Stale(NextJob)
                 /\ worker'.pc = "fetch" /\ worker'.job = NextJob
                 /\ worker'.event = Plain("PollTick")
                 /\ \E disk \in Frame :
                      LET count == FrameCount(NextJob, disk) IN
                      /\ IsLastOnDisk(disk)
                      /\ worker'.todo = Wanted(NextJob, count)
                      /\ IF NextJob.latest THEN SameBuffer
                         ELSE /\ io'.total = Cardinality(Wanted(NextJob, count))
                              /\ io'.applied = 0
<1>1. /\ io \in Io /\ Taken \in Io
      /\ worker.pc = "idle" /\ NextJob.kind = "fetch_frames"
      /\ NextJob \in Commands \/ NextJob = Do("ping")
  BY TakenIo, TakenTypes DEF WellFormed, TypeOK, FetchFramesBegin, Takes
<1>2. NextJob \in Commands
  BY <1>1 DEF Do
<1>3. UNCHANGED <<app, draining, events, scene, host>>
  BY DEF FetchFramesBegin
<1>4. /\ Taken.gen = io.gen /\ Taken.fetched = io.fetched
      /\ Taken.frames = io.frames /\ Taken.total = io.total
      /\ Taken.applied = io.applied /\ (Taken.interrupt <=> io.interrupt)
      /\ Taken.backend = io.backend
  BY TakenIo
<1>5. ASSUME NEW n
      PROVE  LET q == [Taken EXCEPT !.total = n, !.applied = 0] IN
             /\ q.gen = io.gen /\ q.fetched = io.fetched
             /\ q.frames = io.frames /\ q.total = n
             /\ q.applied = 0 /\ (q.interrupt <=> io.interrupt)
             /\ q.backend = io.backend
  BY <1>1, <1>4 DEF Io
<1>6. PICK disk \in Frame :
        /\ IsLastOnDisk(disk)
        /\ \/ /\ io.backend = 0
              /\ IF NextJob.latest THEN worker' = IdleWorker
                 ELSE Reports(NextJob, Plain("FetchFailed"))
              /\ io' = Taken
           \/ /\ FetchEndsWith(NextJob, Numbered("FetchComplete", 0)) /\ io' = Taken
           \/ /\ FetchEndsWith(NextJob, Plain("FetchFailed")) /\ io' = Taken
           \/ /\ io.backend # 0 /\ ~Stale(NextJob)
              /\ worker' = [IdleWorker EXCEPT !.pc = "fetch", !.job = NextJob,
                              !.todo = Wanted(NextJob, FrameCount(NextJob, disk))]
              /\ io' = IF NextJob.latest THEN Taken
                       ELSE [Taken EXCEPT
                               !.total = Cardinality(Wanted(NextJob,
                                             FrameCount(NextJob, disk))),
                               !.applied = 0]
  BY DEF FetchFramesBegin
<1>7. \A k \in {"FetchFailed", "PollTick"} : Plain(k).kind # "FetchMapComplete"
  BY EventKinds
<1>8. Numbered("FetchComplete", 0).kind # "FetchMapComplete"
  BY EventKinds
<1>9. CASE io' = Taken /\ \/ worker' = IdleWorker
                          \/ Reports(NextJob, Plain("FetchFailed"))
                          \/ FetchEndsWith(NextJob, Numbered("FetchComplete", 0))
                          \/ FetchEndsWith(NextJob, Plain("FetchFailed"))
  <2>1. ~AtWork' /\ worker'.event.kind # "FetchMapComplete"
    BY <1>7, <1>8, <1>9, WorkerEnds DEF AtWork
  <2> QED
    BY <1>1, <1>2, <1>3, <1>4, <1>9, <2>1
       DEF SameList, SameBuffer, SameInterrupt, AtWork
<1>10. CASE /\ io.backend # 0 /\ ~Stale(NextJob)
            /\ worker' = [IdleWorker EXCEPT !.pc = "fetch", !.job = NextJob,
                            !.todo = Wanted(NextJob, FrameCount(NextJob, disk))]
            /\ io' = IF NextJob.latest THEN Taken
                     ELSE [Taken EXCEPT
                             !.total = Cardinality(Wanted(NextJob,
                                           FrameCount(NextJob, disk))),
                             !.applied = 0]
  <2> DEFINE w == Wanted(NextJob, FrameCount(NextJob, disk))
             n == Cardinality(w)
  <2>1. /\ worker'.pc = "fetch" /\ worker'.job = NextJob /\ worker'.todo = w
        /\ worker'.event = Plain("PollTick")
    <3>1. worker' = [IdleWorker EXCEPT !.pc = "fetch", !.job = NextJob, !.todo = w]
      BY <1>10
    <3> HIDE DEF w
    <3> QED
      BY <3>1 DEF IdleWorker
  <2>2. io' = IF NextJob.latest THEN Taken
              ELSE [Taken EXCEPT !.total = n, !.applied = 0]
    BY <1>10
  <2> HIDE DEF n
  <2>3. /\ SameList /\ SameInterrupt /\ io'.backend = io.backend
        /\ io'.frames = io.frames
        /\ IF NextJob.latest THEN SameBuffer ELSE io'.total = n /\ io'.applied = 0
    <3>1. CASE NextJob.latest
      BY <1>4, <2>2, <3>1 DEF SameList, SameBuffer, SameInterrupt
    <3>2. CASE ~NextJob.latest
      BY <1>5, <2>2, <3>2 DEF SameList, SameInterrupt
    <3> QED
      BY <3>1, <3>2
  <2> QED
    BY <1>1, <1>2, <1>3, <1>6, <1>10, <2>1, <2>3 DEF n, AtWork
<1> QED
  BY <1>6, <1>9, <1>10

(* The worker in the line of fetches.                                      *)
LEMMA WorkerLine ==
    ASSUME WellFormed, LinkInv, RestInv, IoWorker
    PROVE  /\ io'.gen = io.gen
           /\ AtWork' => \/ AtWork /\ worker'.job = worker.job
                         \/ worker'.job \in Commands
                            /\ worker'.job.kind = "fetch_frames"
           /\ worker'.event.kind = "FetchMapComplete" =>
                \/ worker.event.kind = "FetchMapComplete"
                \/ \E j \in Commands : j.kind = "fetch_map"
           /\ io'.total = io.total \/ \E j \in Commands : IsFetchAll(j)
           /\ UNCHANGED <<app, draining, scene>>
<1>1. /\ worker \in Worker /\ io \in Io /\ Taken \in Io
      /\ ~UploadAtomic /\ ~StopServer /\ ~ConnectionIsLost
  BY WorkerRests, TakenTypes
     DEF WellFormed, TypeOK, ConnectionIsLost, LinkInv, BackendIsOpen
<1> DEFINE Line ==
             /\ io'.gen = io.gen
             /\ AtWork' => \/ AtWork /\ worker'.job = worker.job
                           \/ worker'.job \in Commands
                              /\ worker'.job.kind = "fetch_frames"
             /\ worker'.event.kind = "FetchMapComplete" =>
                  \/ worker.event.kind = "FetchMapComplete"
                  \/ \E j \in Commands : j.kind = "fetch_map"
             /\ io'.total = io.total \/ \E j \in Commands : IsFetchAll(j)
<1>2. UNCHANGED <<app, draining, scene>>
  BY <1>1
     DEF IoWorker, Query, Terminate, LaunchServer, ValidatePath, FetchMap,
         FetchFramesBegin, Download, FetchFramesEnd, AppendFrame,
         DownloadInterrupted, Report, AutoQuery
<1>3. /\ \A k : k # "FetchMapComplete" => Plain(k).kind # "FetchMapComplete"
      /\ \A n : Numbered("FetchComplete", n).kind # "FetchMapComplete"
      /\ \A r : Polled(r).kind # "FetchMapComplete"
  BY EventKinds
<1> DEFINE Out == worker'.pc \in {"idle", "report", "after"}
                  /\ worker'.event.kind # "FetchMapComplete"
<1>4. /\ worker' = IdleWorker => Out
      /\ \A j : Ends(j) => Out
      /\ \A j, e : Reports(j, e) /\ e.kind # "FetchMapComplete" => Out
      /\ \A j, e : FetchEndsWith(j, e) /\ e.kind # "FetchMapComplete" => Out
  BY <1>3, WorkerEnds
<1>5. ASSUME Out, io'.gen = io.gen, io'.total = io.total
      PROVE  Line
  BY <1>5 DEF AtWork
<1>6. Taken.gen = io.gen /\ Taken.total = io.total
  BY TakenIo
<1> HIDE DEF Out
<1>7. ASSUME Query \/ Terminate \/ LaunchServer PROVE Line
  <2>1. Out
    BY <1>7, RequestsRest DEF Out
  <2>2. io' = Taken
    BY <1>7 DEF Query, Terminate, LaunchServer
  <2> QED
    BY <1>5, <1>6, <2>1, <2>2
<1>8. ASSUME ValidatePath PROVE Line
  BY <1>3, <1>4, <1>5, <1>6, <1>8 DEF ValidatePath
<1>9. ASSUME FetchMap PROVE Line
  <2>1. NextJob \in Commands /\ NextJob.kind = "fetch_map"
    <3>1. NextJob.kind = "fetch_map" /\ Do("ping").kind = "ping"
      BY <1>9 DEF FetchMap, Takes, Do
    <3> QED
      BY <3>1, TakenIo
  <2>2. worker'.pc = "report" /\ io' = Taken
    BY <1>9, WorkerEnds DEF FetchMap
  <2> QED
    BY <1>6, <2>1, <2>2 DEF AtWork
<1>10. ASSUME FetchFramesBegin PROVE Line
  BY <1>3, <1>10, BeginsWith DEF SameList, SameBuffer, IsFetchAll, AtWork
<1>11. ASSUME Download PROVE Line
  <2>1. \/ FetchEndsWith(worker.job, Plain("FetchFailed"))
        \/ \E n \in worker.todo :
             worker' = [worker EXCEPT !.pc = "append", !.next = n,
                                      !.data = host.out[n]]
    BY <1>11 DEF Download
  <2>2. ASSUME NEW n, NEW d
        PROVE  /\ [worker EXCEPT !.pc = "append", !.next = n,
                                 !.data = d].job = worker.job
               /\ [worker EXCEPT !.pc = "append", !.next = n,
                                 !.data = d].event = worker.event
    BY <1>1 DEF Worker
  <2>3. ASSUME NEW n \in worker.todo,
               worker' = [worker EXCEPT !.pc = "append", !.next = n,
                                        !.data = host.out[n]]
        PROVE  worker'.job = worker.job /\ worker'.event = worker.event
    BY <2>2, <2>3
  <2>4. io' = io /\ AtWork
    BY <1>11 DEF Download, AtWork
  <2>5. CASE FetchEndsWith(worker.job, Plain("FetchFailed"))
    BY <1>3, <1>4, <1>5, <2>4, <2>5
  <2> QED
    BY <2>1, <2>3, <2>4, <2>5
<1>12. ASSUME FetchFramesEnd \/ DownloadInterrupted PROVE Line
  BY <1>3, <1>4, <1>5, <1>12 DEF FetchFramesEnd, DownloadInterrupted
<1>13. ASSUME AppendFrame PROVE Line
  <2>1. OneFrameDone => worker'.job = worker.job /\ worker'.event = worker.event
    BY <1>1 DEF OneFrameDone, Worker
  <2>2. Buffered.gen = io.gen /\ Buffered.total = io.total
    BY <1>1 DEF Buffered, Io
  <2>3. AtWork
    BY <1>13 DEF AppendFrame, AtWork
  <2>4. \/ OneFrameDone /\ io' = Buffered
        \/ FetchEndsWith(worker.job, Plain("FetchFailed")) /\ io' = io
    BY <1>13 DEF AppendFrame, HandOver
  <2>5. CASE FetchEndsWith(worker.job, Plain("FetchFailed")) /\ io' = io
    BY <1>3, <1>4, <1>5, <2>5
  <2> QED
    BY <2>1, <2>2, <2>3, <2>4, <2>5
<1>14. ASSUME Report PROVE Line
  BY <1>1, <1>4, <1>5, <1>14 DEF Report
<1>15. ASSUME AutoQuery PROVE Line
  BY <1>3, <1>4, <1>5, <1>15 DEF AutoQuery
<1> HIDE DEF Line
<1>16. Line
  BY <1>1, <1>7, <1>8, <1>9, <1>10, <1>11, <1>12, <1>13, <1>14, <1>15
     DEF IoWorker
<1> QED
  BY <1>2, <1>16 DEF Line

(* An event that joins the queue leaves the request last.                  *)
LEMMA RequestJoins ==
    ASSUME TypeOK, RequestsLast, NEW e \in Event, events' = Append(events, e),
           \/ ~draining /\ (e.kind \in Requested => draining')
           \/ /\ e.kind \notin Requested \cup {"AllFramesApplied"}
              /\ draining' = draining
    PROVE  RequestsLast'
<1>1. events \in Seq(Event) /\ Len(events) \in Nat
  BY DEF TypeOK
<1>2. /\ Len(events') = Len(events) + 1
      /\ \A i \in 1 .. Len(events) : events'[i] = events[i]
      /\ events'[Len(events) + 1] = e
  BY <1>1, AppendProperties
<1> SUFFICES ASSUME NEW i \in 1 .. Len(events'), events'[i].kind \in Requested
             PROVE  /\ draining'
                    /\ \A j \in 1 .. Len(events') :
                         events'[j].kind \in Requested \cup {"AllFramesApplied"}
                           => j <= i
  BY DEF RequestsLast
<1>3. CASE i = Len(events) + 1
  <2>1. e.kind \in Requested
    BY <1>2, <1>3
  <2> QED
    BY <1>1, <1>2, <1>3, <2>1
<1>4. CASE i # Len(events) + 1
  <2>1. i \in 1 .. Len(events) /\ events[i].kind \in Requested
    BY <1>1, <1>2, <1>4
  <2>2. /\ draining
        /\ \A j \in 1 .. Len(events) :
             events[j].kind \in Requested \cup {"AllFramesApplied"} => j <= i
    BY <2>1 DEF RequestsLast
  <2>3. /\ e.kind \notin Requested \cup {"AllFramesApplied"}
        /\ draining' = draining
    BY <2>2
  <2>4. ASSUME NEW j \in 1 .. Len(events'),
               events'[j].kind \in Requested \cup {"AllFramesApplied"}
        PROVE  j <= i
    <3>1. j # Len(events) + 1
      BY <1>2, <2>3, <2>4
    <3>2. j \in 1 .. Len(events) /\ events'[j] = events[j]
      BY <1>1, <1>2, <3>1
    <3> QED
      BY <2>2, <2>4, <3>2
  <2> QED
    BY <2>2, <2>3, <2>4
<1> QED
  BY <1>3, <1>4

(* A request that is taken leaves no other, and nothing of the pump.       *)
LEMMA RequestLeaves ==
    ASSUME TypeOK, RequestsLast, draining, events # << >>,
           events' = Tail(events), draining' <=> events' # << >>
    PROVE  /\ RequestsLast'
           /\ Head(events).kind \in Requested =>
                \A e \in Waiting' : e.kind \notin Requested \cup {"AllFramesApplied"}
<1>1. /\ events \in Seq(Event) /\ Len(events) \in Nat /\ Head(events) = events[1]
      /\ events' \in Seq(Event) /\ Len(events') = Len(events) - 1
      /\ Len(events) > 0
      /\ \A i \in 1 .. Len(events') : events'[i] = events[i + 1]
  BY HeadAndTail DEF TypeOK
<1>2. ASSUME NEW i \in 1 .. Len(events'), events'[i].kind \in Requested
      PROVE  /\ draining'
             /\ \A j \in 1 .. Len(events') :
                  events'[j].kind \in Requested \cup {"AllFramesApplied"}
                    => j <= i
  <2>1. events' # << >>
    <3>1. << >> \in Seq(Event) /\ Len(<< >>) = 0
      BY EmptySeq
    <3>2. Len(events') # 0
      BY <1>1
    <3> QED
      BY <3>1, <3>2
  <2>2. i + 1 \in 1 .. Len(events) /\ events[i + 1].kind \in Requested
    BY <1>1, <1>2
  <2>3. ASSUME NEW j \in 1 .. Len(events'),
               events'[j].kind \in Requested \cup {"AllFramesApplied"}
        PROVE  j <= i
    <3>1. j + 1 \in 1 .. Len(events) /\ events'[j] = events[j + 1]
      BY <1>1
    <3>2. j + 1 <= i + 1
      BY <2>2, <2>3, <3>1 DEF RequestsLast
    <3> QED
      BY <1>1, <3>2
  <2> QED
    BY <2>1, <2>3
<1>3. ASSUME Head(events).kind \in Requested, NEW e \in Waiting',
             e.kind \in Requested \cup {"AllFramesApplied"}
      PROVE  FALSE
  <2>1. PICK j \in 1 .. Len(events') : e = events'[j]
    BY <1>3 DEF Waiting, Elements
  <2>2. /\ j + 1 \in 1 .. Len(events) /\ events'[j] = events[j + 1]
        /\ 1 \in 1 .. Len(events)
    BY <1>1
  <2>3. j + 1 <= 1
    BY <1>1, <1>3, <2>1, <2>2 DEF RequestsLast
  <2> QED
    BY <1>1, <2>3
<1> QED
  BY <1>2, <1>3 DEF RequestsLast

\* Whoever asks for a Fetch All waits for nothing that is live.
Kept == (NoFetchAll => NoFetchAll') /\ (NoLiveFetch => NoLiveFetch')

(* The worker's steps keep the line.                                       *)
LEMMA WorkerKeepsLine ==
    ASSUME WellFormed, LinkInv, RestInv, LineInv, IoWorker
    PROVE  ListsArePast' /\ RequestsLast' /\ Kept
<1>1. /\ Commands' \subseteq Commands /\ worker.event \in Event /\ TypeOK
      /\ \/ events' = events /\ Waiting' = Waiting
         \/ /\ events' = Append(events, worker.event)
            /\ Waiting' = Waiting \cup {worker.event}
  BY WorkerRests DEF WellFormed, TypeOK, Worker, Waiting
<1>2. /\ io'.gen = io.gen
      /\ AtWork' => \/ AtWork /\ worker'.job = worker.job
                    \/ worker'.job \in Commands
                       /\ worker'.job.kind = "fetch_frames"
      /\ worker'.event.kind = "FetchMapComplete" =>
           \/ worker.event.kind = "FetchMapComplete"
           \/ \E j \in Commands : j.kind = "fetch_map"
      /\ io'.total = io.total \/ \E j \in Commands : IsFetchAll(j)
      /\ UNCHANGED <<app, draining, scene>>
  BY WorkerLine
<1>3. worker.event.kind \notin Requested \cup {"AllFramesApplied"}
      /\ "FetchRequested" \in Requested
  BY RequestKinds DEF RestInv, Reportable
<1>4. ListsArePast'
  BY <1>1, <1>2 DEF LineInv, ListsArePast
<1>5. RequestsLast'
  <2>1. CASE events' = events
    BY <1>2, <2>1 DEF LineInv, RequestsLast
  <2>2. CASE events' = Append(events, worker.event)
    BY <1>1, <1>2, <1>3, <2>2, RequestJoins DEF LineInv
  <2> QED
    BY <1>1, <2>1, <2>2
<1>6. NoFetchAll => NoFetchAll'
  BY <1>1, <1>2, <1>3 DEF NoFetchAll
<1>7. NoLiveFetch => NoLiveFetch'
  BY <1>1, <1>2 DEF NoLiveFetch, IsLive
<1> QED
  BY <1>4, <1>5, <1>6, <1>7 DEF Kept

(* A drain keeps the line.                                                 *)
LEMMA DrainKeepsLine ==
    ASSUME WellFormed, RestInv, LineInv, Drain
    PROVE  ListsArePast' /\ RequestsLast' /\ Kept
<1>1. PICK e : e = Head(events)
  OBVIOUS
<1>2. /\ TypeOK /\ io.gen \in Nat /\ draining /\ events # << >>
      /\ events' = Tail(events) /\ (draining' <=> events' # << >>)
      /\ worker' = worker /\ e \in Waiting /\ Waiting' \subseteq Waiting
  BY <1>1, DrainRests, WaitingAfter DEF WellFormed, TypeOK, Io
<1>3. /\ app'.solver \in Computing => app.solver \in Computing
      /\ \A j \in Commands' :
           \/ j \in Commands
           \/ /\ j.kind = "fetch_map" => e.kind = "FetchRequested"
              /\ IsFetchAll(j) => e.kind = "FetchMapComplete"
              /\ IsLive(j) => app.solver \in Computing
              /\ j.kind = "fetch_frames" => j.gen = io.gen
      /\ io'.gen = io.gen \/ io'.gen = io.gen + 1
      /\ io'.total = io.total \/ io'.total = 0
  BY <1>1, DrainRests DEF SameList, SameBuffer, Emptied
<1>4. RequestsLast'
  BY <1>2, RequestLeaves DEF LineInv
<1>5. /\ io'.gen \in Nat /\ io'.gen >= io.gen
      /\ AtWork => worker.job.gen \in Nat
      /\ \A j \in Commands : j.gen \in Nat
  <2>1. worker.job \in Job /\ io.cmds \in Seq(Job)
    BY <1>2 DEF TypeOK, Worker, Io
  <2>2. \A j \in Commands : j \in Job
    BY <2>1 DEF Commands, Elements
  <2> QED
    BY <1>2, <1>3, <2>1, <2>2 DEF Job
<1>6. ListsArePast'
  BY <1>2, <1>3, <1>5 DEF LineInv, ListsArePast, AtWork
<1>7. NoFetchAll => NoFetchAll'
  BY <1>2, <1>3 DEF NoFetchAll, AtWork
<1>8. NoLiveFetch => NoLiveFetch'
  BY <1>2, <1>3, <1>5 DEF NoLiveFetch, AtWork
<1> QED
  BY <1>4, <1>6, <1>7, <1>8 DEF Kept

(* The user and the timers keep it; a Fetch All is only offered when no    *)
(* live fetch will be, and it renews the list that the ones under way have.*)
LEMMA AskersKeepLine ==
    ASSUME WellFormed, RestInv, LineInv,
           User \/ PersistentTick \/ Watchdog \/ Stall \/ Pump
    PROVE  /\ ListsArePast' /\ RequestsLast'
           /\ AskFetch => NoLiveFetch'
           /\ ~AskFetch => Kept
<1>1. /\ TypeOK /\ io \in Io /\ io.gen \in Nat
      /\ UNCHANGED <<app, worker, srv, host>> /\ ~AskRun /\ ~AskResume
      /\ \A j \in Commands' : j \in Commands \/ j = Do("cancel_build")
      /\ worker.job \in Job /\ \A j \in Commands : j \in Job
  <2>1. TypeOK /\ io \in Io /\ io.gen \in Nat /\ worker.job \in Job
        /\ io.cmds \in Seq(Job)
    BY DEF WellFormed, TypeOK, Io, Worker
  <2> QED
    BY <2>1, AskersRest DEF Commands, Elements
<1>2. Do("cancel_build").kind = "cancel_build"
  BY DEF Do
<1>3. /\ \A k : Plain(k).kind = k
      /\ \A r \in Request : RequestEvent[r] \in Requested
      /\ {"RunRequested", "FetchRequested", "AbortRequested"} \subseteq Requested
      /\ {"PollTick", "FetchFailed", "AllFramesApplied"} \cap Requested = {}
      /\ "FetchRequested" \in Requested /\ "FetchMapComplete" \notin Requested
      /\ Requested \cup {"PollTick", "FetchFailed", "AllFramesApplied"}
           \subseteq EventKind
  BY EventKinds, RequestKinds DEF Requested, EventKind
<1>4. \/ events' = events /\ draining' = draining
      \/ /\ ~draining
         /\ \E k \in Requested \cup {"PollTick", "FetchFailed", "AllFramesApplied"} :
              /\ events' = Append(events, Plain(k))
              /\ k \in Requested => draining'
              /\ k = "FetchRequested" => AskFetch
  <2>1. CASE JustAsk
    <3>1. PICK r \in Request \ {"run", "resume", "fetch", "abort"} :
             AsksWith(r, Plain(RequestEvent[r]))
      BY <2>1 DEF JustAsk
    <3>2. RequestEvent[r] # "FetchRequested"
      BY <3>1 DEF Request, RequestEvent
    <3> QED
      BY <1>3, <3>1, <3>2 DEF AsksWith, Dispatch
  <2>2. CASE AskFetch \/ AskAbort
    BY <1>3, <2>2 DEF AskFetch, AskAbort, AsksWith, Dispatch
  <2>3. CASE PersistentTick \/ Watchdog \/ Stall \/ Pump
    BY <1>3, <2>3 DEF PersistentTick, Watchdog, Stall, Pump, Dispatch, Post
  <2> QED
    BY <1>1, <2>1, <2>2, <2>3 DEF User
<1>5. /\ ~AskFetch => io'.gen = io.gen
      /\ AskFetch => io'.gen = io.gen + 1 /\ app.solver \notin Computing
      /\ io'.total = io.total
  <2>1. CASE AskFetch
    <3>1. io'.gen = io.gen + 1 /\ io'.total = io.total
      BY <1>1, <2>1 DEF AskFetch, Reassigned, Io
    <3>2. app.solver \in Finished
      BY <2>1 DEF AskFetch, AsksWith, Offered
    <3> QED
      BY <2>1, <3>1, <3>2 DEF Finished, Computing
  <2>2. CASE JustAsk \/ PersistentTick \/ Watchdog \/ Stall \/ Pump
    <3>1. io'.gen = io.gen /\ io'.total = io.total
      BY <1>1, <2>2 DEF JustAsk, PersistentTick, Watchdog, Stall, Pump, Io
    <3>2. ~AskFetch
      <4>1. AskFetch => io'.gen = io.gen + 1
        BY <1>1 DEF AskFetch, Reassigned, Io
      <4> QED
        BY <1>1, <3>1, <4>1
    <3> QED
      BY <3>1, <3>2
  <2>3. CASE AskAbort
    <3>1. io'.gen = io.gen /\ io'.total = io.total
      BY <1>1, <2>3 DEF AskAbort, Io
    <3>2. ~AskFetch
      <4>1. AskFetch => io'.gen = io.gen + 1
        BY <1>1 DEF AskFetch, Reassigned, Io
      <4> QED
        BY <1>1, <3>1, <4>1
    <3> QED
      BY <3>1, <3>2
  <2> QED
    BY <1>1, <2>1, <2>2, <2>3 DEF User
<1>6. RequestsLast'
  <2>1. CASE events' = events /\ draining' = draining
    BY <2>1 DEF LineInv, RequestsLast
  <2>2. ASSUME ~draining,
               NEW k \in Requested \cup {"PollTick", "FetchFailed", "AllFramesApplied"},
               events' = Append(events, Plain(k)), k \in Requested => draining'
        PROVE  RequestsLast'
    <3>1. Plain(k) \in Event /\ Plain(k).kind = k
      BY <1>3, EventTypes
    <3> QED
      BY <1>1, <2>2, <3>1, RequestJoins DEF LineInv
  <2> QED
    BY <1>4, <2>1, <2>2
<1>7. ListsArePast'
  <2>1. ASSUME NEW n \in Nat, n <= io.gen
        PROVE  n <= io'.gen
    BY <1>1, <1>5, <2>1
  <2>2. ASSUME NEW j \in Job
        PROVE  j.gen \in Nat
    BY DEF Job
  <2> QED
    BY <1>1, <1>2, <2>1, <2>2 DEF LineInv, ListsArePast, AtWork
<1>8. ASSUME AskFetch
      PROVE  NoLiveFetch'
  <2>1. ASSUME NEW j \in Job, j.gen <= io.gen
        PROVE  j.gen < io'.gen
    <3>1. j.gen \in Nat
      BY DEF Job
    <3> QED
      BY <1>1, <1>5, <1>8, <2>1, <3>1
  <2> QED
    BY <1>1, <1>2, <1>5, <1>8, <2>1
       DEF LineInv, ListsArePast, NoLiveFetch, IsLive, AtWork
<1>9. ASSUME ~AskFetch
      PROVE  Kept
  <2>1. \A e \in Waiting' : e \in Waiting \/ e.kind \notin {"FetchRequested",
                                                            "FetchMapComplete"}
    <3>1. CASE events' = events
      BY <3>1 DEF Waiting
    <3>2. ASSUME NEW k \in Requested \cup {"PollTick", "FetchFailed", "AllFramesApplied"},
                 events' = Append(events, Plain(k)), k # "FetchRequested"
          PROVE  \A e \in Waiting' : e \in Waiting \/ e.kind \notin
                                       {"FetchRequested", "FetchMapComplete"}
      <4>1. Plain(k) \in Event /\ Plain(k).kind = k /\ k # "FetchMapComplete"
        BY <1>3, EventTypes
      <4> QED
        BY <1>1, <3>2, <4>1, WaitingAfter
    <3> QED
      BY <1>4, <1>9, <3>1, <3>2
  <2>2. NoFetchAll => NoFetchAll'
    BY <1>1, <1>2, <1>5, <2>1 DEF NoFetchAll, IsFetchAll, AtWork
  <2>3. NoLiveFetch => NoLiveFetch'
    BY <1>1, <1>2, <1>5, <1>9 DEF NoLiveFetch, IsLive, AtWork
  <2> QED
    BY <2>2, <2>3 DEF Kept
<1> QED
  BY <1>6, <1>7, <1>8, <1>9

(* Every step keeps the line.                                              *)
LEMMA StepLine ==
    ASSUME WellFormed, LinkInv, RestInv, LineInv, [Next]_vars
    PROVE  /\ LineInv'
           /\ ~AskFetch => Kept
<1> DEFINE Line == /\ ListsArePast' /\ RequestsLast'
                   /\ AskFetch => NoLiveFetch'
                   /\ ~AskFetch => Kept
<1>1. TypeOK /\ io \in Io
  BY DEF WellFormed, TypeOK
<1>2. ASSUME NEW v, Kept, ListsArePast', RequestsLast', io'.gen # io.gen + 1
      PROVE  Line
  <2>1. AskFetch => io'.gen = io.gen + 1
    BY <1>1 DEF AskFetch, Reassigned, Io
  <2> QED
    BY <1>2, <2>1
<1>3. ASSUME User \/ PersistentTick \/ Watchdog \/ Stall \/ Pump PROVE Line
  BY <1>3, AskersKeepLine
<1>4. ASSUME Drain PROVE Line
  <2>1. ListsArePast' /\ RequestsLast' /\ Kept
    BY <1>4, DrainKeepsLine
  <2>2. ~AskFetch
    BY <1>4 DEF Drain, AskFetch, AsksWith, Dispatch
  <2> QED
    BY <2>1, <2>2
<1>5. ASSUME IoWorker PROVE Line
  <2>1. /\ ListsArePast' /\ RequestsLast' /\ Kept /\ io'.gen = io.gen
        /\ io.gen \in Nat
    BY <1>1, <1>5, WorkerKeepsLine, WorkerLine DEF Io
  <2>2. io'.gen # io.gen + 1
    BY <2>1
  <2> QED
    BY <1>2, <2>1, <2>2
<1>6. ASSUME (\E t \in Ticket : Attempt(t)) \/ SolverRun \/ Environment PROVE Line
  <2>1. /\ UNCHANGED <<app, draining, worker>> /\ Commands' = Commands
        /\ \/ events' = events
           \/ \E k \in {"Connected", "ConnectionFailed"} :
                Plain(k) \in Event /\ events' = Append(events, Plain(k))
    BY <1>6, OthersRest
  <2>2. io'.gen = io.gen /\ io'.total = io.total
    <3>1. \A t : /\ [io EXCEPT !.backend = t].gen = io.gen
                 /\ [io EXCEPT !.backend = t].total = io.total
      BY <1>1 DEF Io
    <3>2. /\ [io EXCEPT !.poll = TRUE].gen = io.gen
          /\ [io EXCEPT !.poll = TRUE].total = io.total
      BY <1>1 DEF Io
    <3>3. \/ io' = io \/ io' = [io EXCEPT !.poll = TRUE]
          \/ \E t \in Ticket : io' = [io EXCEPT !.backend = t]
      BY <1>6 DEF Attempt, ConnectOpens, AdoptBackend, ConnectFails,
                  ConnectReports, SolverRun, SolverBoots, SolverAdvances,
                  SolverFinishes, Environment, BuildEnds, SolverCrashes,
                  ServerDies, TransportDrops, Ping
    <3> QED
      BY <3>1, <3>2, <3>3
  <2>3. \A e \in Waiting' : e \in Waiting \/ e.kind \notin {"FetchRequested",
                                                            "FetchMapComplete"}
    BY <1>1, <2>1, WaitingAfter, EventKinds
  <2>4. RequestsLast'
    <3>1. CASE events' = events
      BY <2>1, <3>1 DEF LineInv, RequestsLast
    <3>2. ASSUME NEW k \in {"Connected", "ConnectionFailed"}, Plain(k) \in Event,
                 events' = Append(events, Plain(k))
          PROVE  RequestsLast'
      <4>1. Plain(k).kind \notin Requested \cup {"AllFramesApplied"}
        BY EventKinds, RequestKinds
      <4> QED
        BY <1>1, <2>1, <3>2, <4>1, RequestJoins DEF LineInv
    <3> QED
      BY <2>1, <3>1, <3>2
  <2>5. ListsArePast'
    BY <2>1, <2>2 DEF LineInv, ListsArePast, AtWork
  <2>6. Kept
    BY <2>1, <2>2, <2>3 DEF Kept, NoFetchAll, NoLiveFetch, AtWork
  <2>7. io'.gen # io.gen + 1
    BY <1>1, <2>2 DEF Io
  <2> QED
    BY <1>2, <2>4, <2>5, <2>6, <2>7
<1>7. ASSUME UNCHANGED vars PROVE Line
  <2>1. UNCHANGED <<app, events, draining, io, worker>>
    BY <1>7 DEF vars
  <2>2. ListsArePast' /\ RequestsLast' /\ Kept
    BY <2>1 DEF LineInv, ListsArePast, RequestsLast, Kept, NoFetchAll,
                NoLiveFetch, AtWork, Waiting, Commands
  <2>3. io'.gen # io.gen + 1
    BY <1>1, <2>1 DEF Io
  <2> QED
    BY <1>2, <2>2, <2>3
<1> HIDE DEF Line
<1>8. Line
  BY <1>3, <1>4, <1>5, <1>6, <1>7 DEF Next, MainThread
<1> QED
  BY <1>8 DEF Line, LineInv, Kept

-----------------------------------------------------------------------------
(* The counters and the buffer                                             *)

\* What every step has for the fetches: the output stays, the server does not
\* go, and only a request brings a Fetch All.
Steady ==
    /\ WellFormed /\ LinkInv /\ RestInv /\ LineInv /\ FetchInv
    /\ WellFormed' /\ host'.out = host.out /\ OnDisk' = OnDisk
    /\ host.up => host'.up

\* A step that is none of the buffer, the list and the scene, and enters or
\* leaves no Fetch All.
Apart ==
    /\ SameList /\ SameBuffer /\ SameInterrupt /\ UNCHANGED scene
    /\ \/ worker' = worker /\ (io.backend # 0 => io'.backend # 0)
       \/ /\ ~InFetchAll /\ ~InFetchAll' /\ worker'.pc # "append"
          /\ InLoop' => io'.backend # 0
\* Neither a request for a Fetch All nor a word of the pump joins the queue.
NoNews ==
    /\ IsWaiting("FetchRequested")' =>
         IsWaiting("FetchRequested") /\ (draining => draining')
    /\ IsWaiting("AllFramesApplied")' => IsWaiting("AllFramesApplied")

(* The parts of the state in their ranges.                                 *)
LEMMA FetchTypes ==
    ASSUME WellFormed
    PROVE  /\ io.frames \in Seq(Pending) /\ Len(io.frames) \in Nat
           /\ io.total \in Nat /\ io.applied \in Nat /\ io.gen \in Nat
           /\ io.fetched \subseteq 1 .. MaxFrame /\ io \in Io
           /\ worker.todo \subseteq 1 .. MaxFrame /\ worker \in Worker
           /\ IsFiniteSet(worker.todo) /\ Cardinality(worker.todo) \in Nat
           /\ io.frames = << >> <=> Len(io.frames) = 0
<1>1. /\ io \in Io /\ worker \in Worker
  BY DEF WellFormed, TypeOK
<1>2. /\ io.frames \in Seq(Pending) /\ io.total \in Nat /\ io.applied \in Nat
      /\ io.gen \in Nat /\ io.fetched \in SUBSET (1 .. MaxFrame)
      /\ worker.todo \in SUBSET (1 .. MaxFrame)
  BY <1>1 DEF Io, Worker
<1>3. io.frames = << >> <=> Len(io.frames) = 0
  BY <1>2, EmptySeq
<1> QED
  BY <1>1, <1>2, <1>3, FramesAreFinite

(* A step apart keeps the counters.                                        *)
LEMMA ApartCounts ==
    ASSUME Steady, Apart, NoFetchAll => NoFetchAll'
    PROVE  FetchInv'
<1>1. /\ io'.gen = io.gen /\ io'.fetched = io.fetched /\ io'.frames = io.frames
      /\ io'.total = io.total /\ io'.applied = io.applied
      /\ io'.interrupt <=> io.interrupt
      /\ OnDisk' = OnDisk /\ (AllFetched' <=> AllFetched)
      /\ host'.out = host.out /\ (host.up => host'.up)
  BY DEF Steady, Apart, SameList, SameBuffer, SameInterrupt, AllFetched
<1>2. FetchInv
  BY DEF Steady
<1>3. CASE worker' = worker /\ (io.backend # 0 => io'.backend # 0)
  <2>1. (InLoop' <=> InLoop) /\ (InFetchAll' <=> InFetchAll)
    BY <1>1, <1>3 DEF InLoop, InFetchAll, AtWork, Stale
  <2>2. LoopIsLinked' /\ LoopCounts' /\ NothingIsLeft'
    BY <1>1, <1>2, <1>3, <2>1 DEF FetchInv, LoopIsLinked, LoopCounts, NothingIsLeft
  <2>3. DownIsEmpty' /\ NoOutputIsEmpty' /\ Interrupted' /\ FromOutput' /\ Counted'
    BY <1>1, <1>2, <1>3
       DEF FetchInv, DownIsEmpty, NoOutputIsEmpty, Interrupted, FromOutput, Counted
  <2> QED
    BY <2>2, <2>3 DEF FetchInv
<1>4. CASE /\ ~InFetchAll /\ ~InFetchAll' /\ worker'.pc # "append"
           /\ InLoop' => io'.backend # 0
  <2>1. LoopIsLinked' /\ LoopCounts' /\ NothingIsLeft'
    BY <1>1, <1>2, <1>4 DEF FetchInv, LoopIsLinked, LoopCounts, NothingIsLeft
  <2>2. DownIsEmpty' /\ NoOutputIsEmpty' /\ Interrupted' /\ FromOutput' /\ Counted'
    BY <1>1, <1>2, <1>4
       DEF FetchInv, DownIsEmpty, NoOutputIsEmpty, Interrupted, FromOutput, Counted
  <2> QED
    BY <2>1, <2>2 DEF FetchInv
<1> QED
  BY <1>3, <1>4 DEF Apart

(* A step apart that is quiet keeps what is shown.                         *)
LEMMA ApartShows ==
    ASSUME Steady, Apart, NoNews, ShowInv, NoFetchAll => NoFetchAll'
    PROVE  ShowInv'
<1>1. /\ io'.gen = io.gen /\ io'.fetched = io.fetched /\ io'.frames = io.frames
      /\ io'.total = io.total /\ io'.applied = io.applied
      /\ io'.interrupt <=> io.interrupt
      /\ OnDisk' = OnDisk /\ (AllFetched' <=> AllFetched)
      /\ host'.out = host.out /\ (host.up => host'.up)
      /\ scene' = scene /\ InScene' = InScene /\ InBuffer' = InBuffer
      /\ Shown' <=> Shown
  BY DEF Steady, Apart, SameList, SameBuffer, SameInterrupt, AllFetched, InScene,
         InBuffer, Shown
<1>2. SceneIsOfDisk' /\ KnownWhenDown' /\ Claimed'
  BY <1>1 DEF ShowInv, SceneIsOfDisk, KnownWhenDown, Claimed, NoNews
<1>3. ASSUME worker' = worker
      PROVE  Told' /\ LeftIsShown' /\ Asked'
  <2>1. (InLoop' <=> InLoop) /\ (InFetchAll' <=> InFetchAll)
    BY <1>1, <1>3 DEF InLoop, InFetchAll, AtWork, Stale
  <2> QED
    BY <1>1, <1>3, <2>1 DEF ShowInv, Told, LeftIsShown, Asked, NoNews
<1>4. ASSUME ~InFetchAll, ~InFetchAll'
      PROVE  Told' /\ LeftIsShown' /\ Asked'
  BY <1>1, <1>4 DEF ShowInv, Told, LeftIsShown, Asked, NoNews
<1> QED
  BY <1>2, <1>3, <1>4 DEF ShowInv, Apart

(* Emptying the buffer, with the list or without it, keeps the counters.   *)
LEMMA EmptyCounts ==
    ASSUME Steady, Emptied, worker' = worker,
           \/ SameList /\ (io.backend # 0 => io'.backend # 0)
           \/ io'.gen = io.gen + 1
    PROVE  FetchInv'
<1>1. /\ io'.frames = << >> /\ io'.total = 0 /\ io'.applied = 0
      /\ Len(io'.frames) = 0 /\ Elements(io'.frames) = {}
      /\ host'.out = host.out /\ OnDisk' = OnDisk /\ FetchInv
      /\ ListsArePast /\ io.gen \in Nat /\ worker \in Worker
  BY EmptySeq, ElementsOf, FetchTypes DEF Steady, Emptied, LineInv
<1>2. DownIsEmpty' /\ NoOutputIsEmpty'
  BY <1>1 DEF Steady, FetchInv, DownIsEmpty, NoOutputIsEmpty
<1>3. Interrupted' /\ FromOutput' /\ Counted' /\ NothingIsLeft'
  BY <1>1 DEF FetchInv, Interrupted, FromOutput, Counted, NothingIsLeft
<1>4. CASE SameList /\ (io.backend # 0 => io'.backend # 0)
  <2>1. /\ (InLoop' <=> InLoop) /\ (InFetchAll' <=> InFetchAll)
        /\ io'.fetched = io.fetched
    BY <1>4 DEF InLoop, InFetchAll, AtWork, Stale, SameList
  <2>2. LoopIsLinked' /\ LoopCounts'
    BY <1>1, <1>4, <2>1 DEF FetchInv, LoopIsLinked, LoopCounts
  <2> QED
    BY <1>2, <1>3, <2>2 DEF FetchInv
<1>5. CASE io'.gen = io.gen + 1
  <2>1. worker.job.gen \in Nat
    BY <1>1 DEF Worker, Job
  <2>2. ~InLoop' /\ ~InFetchAll'
    BY <1>1, <1>5, <2>1 DEF InLoop, InFetchAll, AtWork, Stale, ListsArePast
  <2>3. LoopIsLinked' /\ LoopCounts'
    BY <2>2 DEF LoopIsLinked, LoopCounts
  <2> QED
    BY <1>2, <1>3, <2>3 DEF FetchInv
<1> QED
  BY <1>4, <1>5

(* What is shown is not lost by emptying the buffer.                       *)
LEMMA EmptyShows ==
    ASSUME Steady, ShowInv, Emptied, worker' = worker, scene' = scene,
           \/ SameList \/ (io'.gen = io.gen + 1 /\ io'.fetched = {}),
           NoFetchAll => NoFetchAll',
           IsWaiting("FetchRequested")' =>
             IsWaiting("FetchRequested") /\ draining' /\ SameInterrupt,
           IsWaiting("AllFramesApplied")' =>
             IsWaiting("AllFramesApplied") /\ SameInterrupt,
           ~io'.interrupt /\ io.interrupt => IsWaiting("FetchRequested")
    PROVE  ShowInv'
<1>1. /\ io'.frames = << >> /\ io'.total = 0 /\ Elements(io'.frames) = {}
      /\ host'.out = host.out /\ OnDisk' = OnDisk /\ InScene' = InScene
      /\ host.up => host'.up
      /\ ListsArePast /\ io.gen \in Nat /\ worker.job.gen \in Nat
  <2>1. ListsArePast /\ io.gen \in Nat /\ worker \in Worker
    BY FetchTypes DEF Steady, LineInv
  <2>2. worker.job.gen \in Nat
    BY <2>1 DEF Worker, Job
  <2> QED
    BY <2>1, <2>2, ElementsOf DEF Steady, Emptied, InScene
<1>2. SceneIsOfDisk' /\ Told' /\ Claimed'
  BY <1>1 DEF ShowInv, SceneIsOfDisk, Told, Claimed, SameInterrupt
<1>3. KnownWhenDown'
  BY <1>1 DEF ShowInv, KnownWhenDown, SameList
<1>4. CASE SameList
  <2>1. /\ (InLoop' <=> InLoop) /\ (InFetchAll' <=> InFetchAll)
        /\ io'.fetched = io.fetched /\ (AllFetched' <=> AllFetched)
    BY <1>1, <1>4 DEF InLoop, InFetchAll, AtWork, Stale, SameList, AllFetched
  <2>2. Asked'
    BY <1>1, <2>1 DEF ShowInv, Asked, SameInterrupt
  <2>3. ASSUME ~NoFetchAll', ~InFetchAll', ~io'.interrupt
        PROVE  AllFetched' \/ io'.fetched \cap OnDisk' \subseteq InScene' \cup InBuffer'
    <3>1. CASE io.interrupt
      BY <1>1, <2>1, <2>3, <3>1 DEF ShowInv, Asked
    <3>2. CASE ~io.interrupt
      <4>1. io.frames = << >> \/ AllFetched
        BY <2>1, <2>3, <3>2 DEF Steady, FetchInv, NothingIsLeft
      <4>2. AllFetched \/ io.fetched \cap OnDisk \subseteq InScene \cup InBuffer
        BY <2>1, <2>3, <3>2 DEF ShowInv, LeftIsShown
      <4>3. io.frames = << >> => InBuffer = {}
        BY ElementsOf DEF InBuffer
      <4> QED
        BY <1>1, <2>1, <4>1, <4>2, <4>3
    <3> QED
      BY <3>1, <3>2
  <2>4. LeftIsShown'
    BY <2>3 DEF LeftIsShown
  <2> QED
    BY <1>2, <1>3, <2>2, <2>4 DEF ShowInv
<1>5. CASE io'.gen = io.gen + 1 /\ io'.fetched = {}
  <2>1. ~InLoop' /\ ~InFetchAll'
    BY <1>1, <1>5 DEF InLoop, InFetchAll, AtWork, Stale, ListsArePast
  <2>2. LeftIsShown' /\ Asked'
    BY <1>1, <1>5, <2>1 DEF LeftIsShown, Asked
  <2> QED
    BY <1>2, <1>3, <2>2 DEF ShowInv
<1> QED
  BY <1>4, <1>5

(* The main thread takes an event.                                         *)
LEMMA DrainFetches ==
    ASSUME Steady, Drain, NoFetchAll => NoFetchAll'
    PROVE  FetchInv' /\ (ShowInv => ShowInv')
<1>1. PICK e : e = Head(events)
  OBVIOUS
<1>2. /\ draining /\ events # << >> /\ events' = Tail(events)
      /\ draining' <=> events' # << >>
      /\ UNCHANGED <<worker, scene, srv, host, left>>
      /\ io'.backend = io.backend \/ io'.gen = io.gen + 1
      /\ io.gen \in Nat
  BY <1>1, DrainRests, FetchTypes DEF Steady
<1>3. \/ SameList /\ (SameBuffer \/ Emptied) /\ SameInterrupt
      \/ /\ SameList /\ Emptied /\ io'.interrupt
         /\ e.kind \in Requested \ {"FetchRequested"}
      \/ /\ SameList /\ Emptied /\ ~io'.interrupt
         /\ e.kind = "FetchRequested"
      \/ /\ io'.gen = io.gen + 1 /\ io'.fetched = {} /\ Emptied
         /\ SameInterrupt /\ e.kind \in Requested \ {"FetchRequested"}
  BY <1>1, DrainRests DEF Steady
<1>4. /\ Waiting' \subseteq Waiting /\ e \in Waiting
      /\ Waiting' # {} => draining'
      /\ e.kind \in Requested =>
           ~IsWaiting("FetchRequested")' /\ ~IsWaiting("AllFramesApplied")'
      /\ "FetchRequested" \in Requested
  <2>1. Waiting' \subseteq Waiting /\ e \in Waiting
    BY <1>1, <1>2, WaitingAfter, DrainRests DEF Steady, WellFormed
  <2>2. Waiting' # {} => draining'
    BY <1>2, ElementsOf DEF Waiting
  <2>3. \/ e.kind \notin Requested
        \/ \A i \in Waiting' : i.kind \notin Requested \cup {"AllFramesApplied"}
    BY <1>1, <1>2, RequestLeaves DEF Steady, WellFormed, LineInv
  <2>4. "FetchRequested" \in Requested
    BY RequestKinds
  <2> QED
    BY <2>1, <2>2, <2>3, <2>4 DEF IsWaiting
<1>5. CASE SameList /\ SameBuffer /\ SameInterrupt
  <2>1. Apart
    BY <1>2, <1>5 DEF Apart, SameList
  <2>2. NoNews
    BY <1>4 DEF NoNews, IsWaiting
  <2> QED
    BY <2>1, <2>2, ApartCounts, ApartShows
<1>6. CASE Emptied /\ (SameList \/ (io'.gen = io.gen + 1 /\ io'.fetched = {}))
  <2>1. SameList => io'.backend = io.backend
    BY <1>2 DEF SameList
  <2>2. FetchInv'
    BY <1>2, <1>6, <2>1, EmptyCounts
  <2>3. SameInterrupt \/ e.kind \in Requested
    BY <1>3, <1>4, <1>6 DEF SameBuffer, Emptied
  <2>4. ~io'.interrupt /\ io.interrupt => IsWaiting("FetchRequested")
    BY <1>3, <1>4 DEF SameInterrupt, IsWaiting
  <2>5. /\ IsWaiting("FetchRequested")' =>
             IsWaiting("FetchRequested") /\ draining' /\ SameInterrupt
        /\ IsWaiting("AllFramesApplied")' =>
             IsWaiting("AllFramesApplied") /\ SameInterrupt
    <3>1. IsWaiting("FetchRequested")' => IsWaiting("FetchRequested") /\ draining'
      BY <1>4 DEF IsWaiting
    <3>2. IsWaiting("AllFramesApplied")' => IsWaiting("AllFramesApplied")
      BY <1>4 DEF IsWaiting
    <3> QED
      BY <1>4, <2>3, <3>1, <3>2
  <2>6. ShowInv => ShowInv'
    BY <1>2, <1>6, <2>4, <2>5, EmptyShows
  <2> QED
    BY <2>2, <2>6
<1> QED
  BY <1>3, <1>5, <1>6

(* The user, but for a Fetch All, and the timers stand apart.              *)
LEMMA AskersStandApart ==
    ASSUME Steady, JustAsk \/ AskAbort \/ PersistentTick \/ Watchdog \/ Stall
    PROVE  Apart /\ NoNews
<1>1. TypeOK /\ io \in Io
  BY DEF Steady, WellFormed, TypeOK
<1>2. UNCHANGED <<worker, scene>> /\ ~draining
  BY DEF JustAsk, AskAbort, AsksWith, Dispatch, PersistentTick, Watchdog, Stall,
         Post
<1>3. SameList /\ SameBuffer /\ SameInterrupt /\ io'.backend = io.backend
  BY <1>1 DEF JustAsk, AskAbort, PersistentTick, Watchdog, Stall, SameList,
              SameBuffer, SameInterrupt, Io
<1>4. PICK k \in (Requested \ {"FetchRequested"}) \cup {"PollTick", "FetchFailed"} :
        events' = Append(events, Plain(k))
  <2>1. CASE JustAsk
    <3>1. PICK r \in Request \ {"run", "resume", "fetch", "abort"} :
             AsksWith(r, Plain(RequestEvent[r]))
      BY <2>1 DEF JustAsk
    <3>2. RequestEvent[r] # "FetchRequested" /\ RequestEvent[r] \in Requested
      BY <3>1 DEF Request, RequestEvent, Requested
    <3> QED
      BY <3>1, <3>2 DEF AsksWith, Dispatch
  <2>2. CASE AskAbort
    <3>1. "AbortRequested" \in Requested \ {"FetchRequested"}
      BY RequestKinds
    <3> QED
      BY <2>2, <3>1 DEF AskAbort, AsksWith, Dispatch
  <2>3. CASE PersistentTick \/ Watchdog \/ Stall
    BY <2>3 DEF PersistentTick, Watchdog, Stall, Dispatch, Post
  <2> QED
    BY <2>1, <2>2, <2>3
<1>5. /\ Plain(k) \in Event /\ Plain(k).kind = k
      /\ k \notin {"FetchRequested", "AllFramesApplied"}
  <2>1. k \in EventKind /\ k \notin {"FetchRequested", "AllFramesApplied"}
    BY RequestKinds DEF EventKind
  <2> QED
    BY <2>1, EventTypes, EventKinds
<1>6. Waiting' = Waiting \cup {Plain(k)}
  BY <1>1, <1>4, <1>5, WaitingAfter
<1> QED
  BY <1>2, <1>3, <1>5, <1>6 DEF Apart, NoNews, IsWaiting

(* A Fetch All begins with what is in the scene, and nothing in the buffer;*)
(* whoever is downloading has lost the list.                               *)
LEMMA AskFetchSteps ==
    ASSUME Steady, AskFetch
    PROVE  FetchInv' /\ (ShowInv => ShowInv')
<1>1. /\ io \in Io /\ io.gen \in Nat /\ worker.job.gen \in Nat /\ TypeOK
      /\ ListsArePast /\ FetchInv
  <2>1. io \in Io /\ io.gen \in Nat /\ worker \in Worker
    BY FetchTypes DEF Steady
  <2>2. worker.job.gen \in Nat
    BY <2>1 DEF Worker, Job
  <2> QED
    BY <2>1, <2>2 DEF Steady, WellFormed, LineInv
<1>2. /\ io.frames = << >> /\ ~draining /\ draining'
      /\ events' = Append(events, Plain("FetchRequested"))
      /\ UNCHANGED <<worker, host, scene>>
  BY DEF AskFetch, AsksWith, Offered, Dispatch
<1>3. /\ io'.gen = io.gen + 1 /\ io'.fetched = InScene
      /\ SameBuffer /\ SameInterrupt
  BY <1>1 DEF AskFetch, Reassigned, Io, SameBuffer, SameInterrupt
<1>4. ~InLoop' /\ ~InFetchAll'
  BY <1>1, <1>2, <1>3 DEF InLoop, InFetchAll, AtWork, Stale, ListsArePast
<1>5. Len(io.frames) = 0 /\ InBuffer = {} /\ InBuffer' = {} /\ io'.frames = << >>
  BY <1>2, <1>3, EmptySeq, ElementsOf DEF InBuffer, SameBuffer
<1>6. FetchInv'
  <2>1. LoopIsLinked' /\ LoopCounts' /\ NothingIsLeft'
    BY <1>4, <1>5 DEF LoopIsLinked, LoopCounts, NothingIsLeft
  <2>2. DownIsEmpty' /\ NoOutputIsEmpty' /\ Interrupted' /\ FromOutput' /\ Counted'
    BY <1>1, <1>2, <1>3
       DEF FetchInv, DownIsEmpty, NoOutputIsEmpty, Interrupted, FromOutput,
           Counted, SameBuffer, SameInterrupt, OnDisk
  <2> QED
    BY <2>1, <2>2 DEF FetchInv
<1>7. ASSUME ShowInv
      PROVE  ShowInv'
  <2>1. InScene' = InScene /\ OnDisk' = OnDisk /\ host'.out = host.out
    BY <1>2 DEF InScene, OnDisk
  <2>2. SceneIsOfDisk' /\ KnownWhenDown' /\ LeftIsShown' /\ Asked'
    BY <1>2, <1>3, <1>4, <1>5, <1>7, <2>1
       DEF ShowInv, SceneIsOfDisk, KnownWhenDown, LeftIsShown, Asked
  <2>3. Plain("FetchRequested") \in Event /\ Plain("FetchRequested").kind = "FetchRequested"
    BY EventTypes, EventKinds DEF EventKind
  <2>4. Waiting' = Waiting \cup {Plain("FetchRequested")}
    BY <1>1, <1>2, <2>3, WaitingAfter
  <2>5. Claimed'
    BY <1>3, <1>7, <2>1, <2>3, <2>4
       DEF ShowInv, Claimed, IsWaiting, SameInterrupt
  <2>6. ASSUME io.total > 0, ~io.interrupt
        PROVE  Shown \/ io.applied + Len(io.frames) < io.total
    <3>1. /\ Cardinality(worker.todo) \in Nat /\ IsFiniteSet(worker.todo)
          /\ io.total \in Nat /\ io.applied \in Nat
      BY FetchTypes DEF Steady
    <3>2. CASE InFetchAll /\ OnDisk \subseteq InScene \cup InBuffer \cup worker.todo
      <4>1. io.applied + Len(io.frames) + Cardinality(worker.todo) <= io.total
        BY <1>1, <2>6, <3>1, <3>2 DEF FetchInv, LoopCounts
      <4>2. CASE worker.todo = {}
        BY <3>2, <4>2 DEF Shown
      <4>3. CASE worker.todo # {}
        <5>1. Cardinality(worker.todo) # 0
          BY <3>1, <4>3, FS_EmptySet
        <5> QED
          BY <1>5, <3>1, <4>1, <5>1
      <4> QED
        BY <4>2, <4>3
    <3> QED
      BY <1>7, <2>6, <3>2 DEF ShowInv, Told
  <2>7. Shown' <=> Shown
    BY <1>5, <2>1 DEF Shown
  <2>8. Told'
    BY <1>3, <1>4, <2>6, <2>7 DEF Told, SameBuffer, SameInterrupt
  <2> QED
    BY <2>2, <2>5, <2>8 DEF ShowInv
<1> QED
  BY <1>6, <1>7

(* What the pump moves from the buffer to the scene.                       *)
LEMMA PumpMoves ==
    ASSUME Steady, Pump
    PROVE  /\ SameList /\ SameInterrupt /\ io'.backend = io.backend
           /\ io'.total = io.total
           /\ Len(io'.frames) \in Nat /\ Len(io'.frames) <= Len(io.frames)
           /\ io'.applied + Len(io'.frames) = io.applied + Len(io.frames)
           /\ Elements(io'.frames) \subseteq Elements(io.frames)
           /\ io.frames = << >> => io'.frames = << >> /\ io'.applied = io.applied
           /\ InScene \subseteq InScene'
           /\ InScene \cup InBuffer \subseteq InScene' \cup InBuffer'
           /\ SceneIsOfDisk => SceneIsOfDisk'
<1>1. /\ io \in Io /\ io.frames \in Seq(Pending) /\ Len(io.frames) \in Nat
      /\ io.applied \in Nat /\ io.total \in Nat /\ scene \in Scene
      /\ FromOutput /\ host' = host
  BY FetchTypes DEF Steady, WellFormed, TypeOK, FetchInv, Pump
<1>2. CASE io.frames = << >>
  <2>1. io' = io /\ scene' = scene
    BY <1>2 DEF Pump
  <2> QED
    BY <1>1, <1>2, <2>1
       DEF SameList, SameInterrupt, InScene, InBuffer, SceneIsOfDisk
<1>3. CASE io.frames # << >>
  <2> DEFINE p == io.frames[1]
  <2>1. /\ io' = [io EXCEPT !.frames = Tail(@), !.applied = io.applied + 1]
        /\ scene' = [scene EXCEPT !.applied[p.n] = p.of]
    BY <1>3 DEF Pump
  <2>2. /\ Elements(io.frames) = {Head(io.frames)} \cup Elements(Tail(io.frames))
        /\ Head(io.frames) = p /\ Len(Tail(io.frames)) = Len(io.frames) - 1
        /\ Len(io.frames) > 0
    BY <1>1, <1>3, HeadAndTail
  <2>3. p \in Pending /\ p \in Elements(io.frames)
    BY <1>1, <2>2 DEF Elements
  <2>4. p.n \in 1 .. MaxFrame /\ p.of = host.out[p.n] /\ p.of # 0
    BY <1>1, <2>3 DEF Pending, FromOutput
  <2> HIDE DEF p
  <2>5. /\ io'.frames = Tail(io.frames) /\ io'.applied = io.applied + 1
        /\ io'.total = io.total /\ io'.backend = io.backend
        /\ SameList /\ SameInterrupt
    BY <1>1, <2>1 DEF Io, SameList, SameInterrupt
  <2>6. /\ scene'.applied[p.n] = p.of
        /\ \A n \in 1 .. MaxFrame : n # p.n => scene'.applied[n] = scene.applied[n]
    BY <1>1, <2>1, <2>4 DEF Scene, Output
  <2>7. InScene' = InScene \cup {p.n}
    BY <2>4, <2>6 DEF InScene
  <2>8. InBuffer \subseteq InBuffer' \cup {p.n}
    BY <2>2, <2>5 DEF InBuffer
  <2>9. SceneIsOfDisk => SceneIsOfDisk'
    <3>1. InScene \subseteq 1 .. MaxFrame
      BY DEF InScene
    <3> QED
      BY <1>1, <2>4, <2>6, <2>7, <3>1 DEF SceneIsOfDisk
  <2>10. /\ Len(io'.frames) = Len(io.frames) - 1 /\ Len(io'.frames) \in Nat
         /\ io'.applied = io.applied + 1
    BY <1>1, <2>2, <2>5
  <2>11. /\ Len(io'.frames) <= Len(io.frames)
         /\ io'.applied + Len(io'.frames) = io.applied + Len(io.frames)
    <3>1. \A a, n \in Nat : (a + 1) + (n - 1) = a + n /\ n - 1 <= n
      OBVIOUS
    <3>2. Len(io.frames) \in Nat /\ io.applied \in Nat
      BY <1>1
    <3> QED
      BY <2>10, <3>1, <3>2
  <2>12. Elements(io'.frames) \subseteq Elements(io.frames)
    BY <2>2, <2>5
  <2>13. /\ InScene \subseteq InScene'
         /\ InScene \cup InBuffer \subseteq InScene' \cup InBuffer'
    BY <2>7, <2>8
  <2> QED
    BY <1>3, <2>5, <2>9, <2>10, <2>11, <2>12, <2>13
<1> QED
  BY <1>2, <1>3

(* The pump: what it takes it shows, and it speaks when all is shown.      *)
LEMMA PumpSteps ==
    ASSUME Steady, Pump, NoFetchAll => NoFetchAll'
    PROVE  FetchInv' /\ (ShowInv => ShowInv')
<1>1. /\ io.frames \in Seq(Pending) /\ Len(io.frames) \in Nat
      /\ io.applied \in Nat /\ io.total \in Nat
      /\ io'.applied \in Nat /\ Len(io'.frames) \in Nat
      /\ Cardinality(worker.todo) \in Nat /\ IsFiniteSet(worker.todo)
      /\ FetchInv /\ TypeOK
      /\ io.frames = << >> <=> Len(io.frames) = 0
      /\ io'.frames = << >> <=> Len(io'.frames) = 0
  <2>1. WellFormed'
    BY DEF Steady
  <2>2. io'.applied \in Nat /\ io'.frames \in Seq(Pending)
    BY <2>1 DEF WellFormed, TypeOK, Io
  <2>3. Len(io'.frames) \in Nat /\ (io'.frames = << >> <=> Len(io'.frames) = 0)
    BY <2>2, EmptySeq
  <2> QED
    BY <2>2, <2>3, FetchTypes DEF Steady, WellFormed
<1>2. /\ SameList /\ SameInterrupt /\ io'.backend = io.backend
      /\ io'.total = io.total
      /\ Len(io'.frames) <= Len(io.frames)
      /\ io'.applied + Len(io'.frames) = io.applied + Len(io.frames)
      /\ Elements(io'.frames) \subseteq Elements(io.frames)
      /\ io.frames = << >> => io'.frames = << >> /\ io'.applied = io.applied
      /\ InScene \subseteq InScene'
      /\ InScene \cup InBuffer \subseteq InScene' \cup InBuffer'
      /\ SceneIsOfDisk => SceneIsOfDisk'
  BY PumpMoves
<1>3. UNCHANGED <<app, draining, worker, host>> /\ ~draining
  BY DEF Pump
<1>4. /\ (InLoop' <=> InLoop) /\ (InFetchAll' <=> InFetchAll)
      /\ OnDisk' = OnDisk /\ io'.fetched = io.fetched
      /\ (AllFetched' <=> AllFetched)
  BY <1>2, <1>3 DEF InLoop, InFetchAll, AtWork, Stale, SameList, OnDisk, AllFetched
<1>5. \/ events' = events
      \/ /\ Plain("AllFramesApplied") \in Event
         /\ Plain("AllFramesApplied").kind = "AllFramesApplied"
         /\ Waiting' = Waiting \cup {Plain("AllFramesApplied")}
         /\ io.total > 0 /\ io'.applied >= io.total
  <2>1. ~(events' = events) =>
          /\ events' = Append(events, Plain("AllFramesApplied"))
          /\ io.total > 0
          /\ (IF io.frames # << >> THEN io.applied + 1 ELSE io.applied) >= io.total
    BY DEF Pump, Post
  <2>2. io.frames # << >> => io'.applied = io.applied + 1
    <3>1. io \in Io
      BY <1>1 DEF TypeOK
    <3> QED
      BY <3>1 DEF Pump, Io
  <2>3. Plain("AllFramesApplied") \in Event
        /\ Plain("AllFramesApplied").kind = "AllFramesApplied"
    BY EventTypes, EventKinds DEF EventKind
  <2> QED
    BY <1>1, <1>2, <2>1, <2>2, <2>3, WaitingAfter
<1>6. FetchInv'
  <2>1. LoopIsLinked' /\ DownIsEmpty' /\ NoOutputIsEmpty'
    BY <1>1, <1>2, <1>3, <1>4 DEF FetchInv, LoopIsLinked, DownIsEmpty, NoOutputIsEmpty
  <2>2. Interrupted'
    BY <1>1, <1>2, <1>3 DEF FetchInv, Interrupted, SameInterrupt
  <2>3. FromOutput'
    BY <1>1, <1>2, <1>3 DEF FetchInv, FromOutput
  <2>4. LoopCounts'
    BY <1>1, <1>2, <1>3, <1>4 DEF FetchInv, LoopCounts, SameInterrupt
  <2>5. NothingIsLeft'
    BY <1>1, <1>2, <1>4 DEF FetchInv, NothingIsLeft, SameInterrupt
  <2>6. Counted'
    BY <1>1, <1>2 DEF FetchInv, Counted
  <2> QED
    BY <2>1, <2>2, <2>3, <2>4, <2>5, <2>6 DEF FetchInv
<1>7. ASSUME ShowInv
      PROVE  ShowInv'
  <2>1. SceneIsOfDisk' /\ KnownWhenDown'
    BY <1>2, <1>3, <1>4, <1>7 DEF ShowInv, SceneIsOfDisk, KnownWhenDown
  <2>2. Told'
    BY <1>1, <1>2, <1>3, <1>4, <1>7 DEF ShowInv, Told, Shown, SameInterrupt
  <2>3. LeftIsShown'
    BY <1>2, <1>4, <1>7 DEF ShowInv, LeftIsShown, SameInterrupt
  <2>4. Asked'
    <3>1. ~IsWaiting("FetchRequested")'
      BY <1>3, <1>5, <1>7 DEF ShowInv, Asked, IsWaiting, Waiting
    <3> QED
      BY <3>1 DEF Asked
  <2>5. ASSUME io.total > 0, io'.applied >= io.total, ~io'.interrupt
        PROVE  OnDisk' \subseteq InScene'
    <3>1. io'.total > 0 /\ io'.applied + Len(io'.frames) <= io'.total
      BY <1>2, <1>6, <2>5 DEF FetchInv, Counted
    <3>2. Len(io'.frames) = 0 /\ io'.applied = io'.total
      BY <1>1, <1>2, <2>5, <3>1
    <3>3. InBuffer' = {}
      BY <1>1, <3>2, ElementsOf DEF InBuffer
    <3>4. CASE InFetchAll' /\ OnDisk' \subseteq InScene' \cup InBuffer' \cup worker'.todo
      <4>1. io'.applied + Len(io'.frames) + Cardinality(worker'.todo) <= io'.total
        BY <1>2, <1>6, <2>5, <3>1, <3>4 DEF FetchInv, LoopCounts
      <4>2. Cardinality(worker.todo) = 0
        BY <1>1, <1>2, <1>3, <3>2, <4>1
      <4>3. worker'.todo = {}
        BY <1>1, <1>3, <4>2, FS_EmptySet
      <4> QED
        BY <3>3, <3>4, <4>3
    <3>5. \/ Shown'
          \/ InFetchAll' /\ OnDisk' \subseteq InScene' \cup InBuffer' \cup worker'.todo
      BY <1>1, <1>2, <2>2, <2>5, <3>1, <3>2 DEF Told
    <3> QED
      BY <3>3, <3>4, <3>5 DEF Shown
  <2>6. Claimed'
    <3>1. CASE events' = events
      BY <1>2, <1>4, <1>7, <3>1 DEF ShowInv, Claimed, IsWaiting, Waiting, SameInterrupt
    <3> QED
      BY <1>5, <2>5, <3>1 DEF Claimed
  <2> QED
    BY <2>1, <2>2, <2>3, <2>4, <2>6 DEF ShowInv
<1> QED
  BY <1>6, <1>7

(* The worker's reports are quiet.                                         *)
LEMMA WorkerIsQuiet ==
    ASSUME Steady, IoWorker
    PROVE  NoNews
<1>1. /\ draining' = draining /\ "FetchRequested" \in Requested
      /\ worker.event.kind \notin Requested \cup {"AllFramesApplied"}
      /\ events' = events \/ Waiting' = Waiting \cup {worker.event}
  BY WorkerRests, WorkerLine, RequestKinds DEF Steady, RestInv, Reportable
<1> QED
  BY <1>1 DEF NoNews, IsWaiting, Waiting

(* Jobs that are no download stand apart.                                  *)
LEMMA OtherJobsStandApart ==
    ASSUME Steady,
           \/ Query \/ Terminate \/ LaunchServer \/ ValidatePath \/ FetchMap
           \/ Report \/ AutoQuery
    PROVE  Apart
<1>1. /\ ~AtWork /\ ~AtWork' /\ worker'.pc # "append" /\ scene' = scene
  <2>1. ~AtWork /\ scene' = scene
    BY DEF Query, Terminate, LaunchServer, ValidatePath, FetchMap, Report,
           AutoQuery, Takes, AtWork
  <2>2. worker'.pc \in {"idle", "report", "after"}
    <3>1. CASE Query \/ Terminate \/ LaunchServer
      BY <3>1, RequestsRest DEF Steady, RestInv
    <3>2. CASE ValidatePath \/ FetchMap \/ Report \/ AutoQuery
      BY <3>2, WorkerEnds DEF ValidatePath, FetchMap, Report, AutoQuery
    <3> QED
      BY <3>1, <3>2
  <2> QED
    BY <2>1, <2>2 DEF AtWork
<1>2. io' = Taken \/ io' = io
  <2>1. ~ConnectionIsLost
    BY DEF ConnectionIsLost, Steady, LinkInv, BackendIsOpen
  <2> QED
    BY <2>1 DEF Query, Terminate, LaunchServer, ValidatePath, FetchMap, Report,
                AutoQuery
<1>3. SameList /\ SameBuffer /\ SameInterrupt
  BY <1>2, TakenIo DEF Steady, SameList, SameBuffer, SameInterrupt
<1> QED
  BY <1>1, <1>3 DEF Apart, InLoop, InFetchAll

(* The last frame with a file is the last of the output.                   *)
LEMMA DiskIsCounted ==
    ASSUME Steady, io.backend # 0, NEW disk \in Frame, IsLastOnDisk(disk)
    PROVE  OnDisk = 1 .. disk /\ (disk = 0 <=> OnDisk = {})
<1>1. /\ io.backend \in open /\ OutputIsWhole /\ MaxFrame \in Nat
      /\ disk \in 0 .. MaxFrame
  BY BoundsAssumption DEF Steady, LinkInv, BackendIsOpen, RestInv, ServerRests,
                          Frame
<1>2. /\ disk > 0 => host.out[disk] # 0
      /\ \A m \in (disk + 1) .. MaxFrame : host.out[m] = 0
  BY <1>1 DEF IsLastOnDisk
<1>3. OnDisk \subseteq 1 .. disk
  BY <1>1, <1>2 DEF OnDisk
<1>4. ASSUME NEW n \in 1 .. disk
      PROVE  n \in OnDisk
  <2>1. disk \in OnDisk /\ n \in 1 .. MaxFrame /\ disk \in 1 .. MaxFrame
    BY <1>1, <1>2 DEF OnDisk
  <2> QED
    BY <1>1, <2>1 DEF OutputIsWhole
<1>5. OnDisk = 1 .. disk
  BY <1>3, <1>4
<1>6. disk = 0 <=> 1 .. disk = {}
  <2>1. disk > 0 => 1 \in 1 .. disk
    BY <1>1
  <2>2. disk = 0 => 1 .. disk = {}
    OBVIOUS
  <2> QED
    BY <1>1, <2>1, <2>2
<1> QED
  BY <1>5, <1>6

(* A download begins: a Fetch All with the frames that are not in its list,*)
(* which has no frame waiting unless it was interrupted or lacks none.     *)
LEMMA BeginSteps ==
    ASSUME Steady, FetchFramesBegin, NoFetchAll => NoFetchAll'
    PROVE  FetchInv' /\ (ShowInv => ShowInv')
<1>1. /\ NextJob \in Commands /\ NextJob.kind = "fetch_frames" /\ ~AtWork
      /\ SameList /\ SameInterrupt /\ io'.backend = io.backend
      /\ io'.frames = io.frames
      /\ UNCHANGED <<app, draining, events, scene, host>>
  BY BeginsWith DEF Steady
<1>2. ~InLoop /\ ~InFetchAll /\ NoNews
  BY <1>1, WorkerIsQuiet DEF InLoop, InFetchAll, IoWorker
<1>3. CASE SameBuffer /\ ~AtWork'
  <2>1. Apart
    BY <1>1, <1>2, <1>3 DEF Apart, InLoop, InFetchAll, AtWork
  <2> QED
    BY <1>2, <2>1, ApartCounts, ApartShows
<1>4. CASE SameBuffer /\ worker'.pc = "fetch" /\ worker'.job.latest /\ io.backend # 0
  <2>1. Apart
    BY <1>1, <1>2, <1>4 DEF Apart, InLoop, InFetchAll, AtWork
  <2> QED
    BY <1>2, <2>1, ApartCounts, ApartShows
<1>5. ASSUME io.backend # 0, ~Stale(NextJob), ~NextJob.latest,
             worker'.pc = "fetch", worker'.job = NextJob,
             NEW disk \in Frame, IsLastOnDisk(disk),
             NEW w, w = Wanted(NextJob, FrameCount(NextJob, disk)),
             worker'.todo = w, io'.total = Cardinality(w), io'.applied = 0
      PROVE  FetchInv' /\ (ShowInv => ShowInv')
  <2>1. /\ InLoop' /\ InFetchAll' /\ ~NoFetchAll
        /\ worker'.pc = "fetch" /\ host' = host /\ OnDisk' = OnDisk
        /\ FetchInv
    <3>1. NextJob.gen = io'.gen
      BY <1>1, <1>5 DEF Stale, SameList
    <3>2. IsFetchAll(NextJob)
      BY <1>1, <1>5 DEF IsFetchAll
    <3> QED
      BY <1>1, <1>5, <3>1, <3>2
         DEF InLoop, InFetchAll, AtWork, Stale, SameList, NoFetchAll, Steady
  <2>2. /\ OnDisk = 1 .. disk /\ (disk = 0 <=> OnDisk = {})
        /\ disk \in Nat
    BY <1>5, DiskIsCounted, BoundsAssumption DEF Frame
  <2>3. /\ w \cap io.fetched = {}
        /\ OnDisk # {} => w = OnDisk \ io.fetched
    BY <1>5, <2>2 DEF Wanted, FrameCount
  <2>4. /\ IsFiniteSet(w) /\ Cardinality(w) \in Nat
        /\ w = {} <=> Cardinality(w) = 0
    <3>1. w \subseteq 1 .. MaxFrame
      BY <1>5 DEF Steady, WellFormed, TypeOK, Worker
    <3> QED
      BY <3>1, FramesAreFinite, FS_EmptySet
  <2>5. /\ Len(io.frames) \in Nat
        /\ io.frames = << >> <=> Len(io.frames) = 0
    BY FetchTypes DEF Steady
  <2>6. io.frames = << >> \/ io.interrupt \/ AllFetched
    BY <1>2, <2>1 DEF FetchInv, NothingIsLeft
  <2>7. AllFetched => w = {}
    BY <2>3 DEF AllFetched
  <2>8. LoopIsLinked' /\ DownIsEmpty' /\ NoOutputIsEmpty' /\ NothingIsLeft'
    BY <1>1, <1>5, <2>1
       DEF FetchInv, LoopIsLinked, DownIsEmpty, NoOutputIsEmpty, NothingIsLeft
  <2>9. Interrupted' /\ FromOutput'
    BY <1>1, <2>1 DEF FetchInv, Interrupted, FromOutput, SameInterrupt
  <2>10. LoopCounts'
    <3>1. /\ w \cap io'.fetched = {} /\ OnDisk \subseteq w \cup io'.fetched
          /\ OnDisk # {} => w \subseteq OnDisk
      BY <1>1, <2>3 DEF SameList
    <3>2. \/ io'.total = 0
          \/ io'.applied + Len(io'.frames) + Cardinality(w) <= io'.total
          \/ io'.interrupt
      BY <1>1, <1>5, <2>4, <2>5, <2>6, <2>7 DEF SameInterrupt
    <3> QED
      BY <1>5, <2>1, <3>1, <3>2 DEF LoopCounts
  <2>11. Counted'
    <3>1. ASSUME io.interrupt PROVE Len(io.frames) <= 1
      BY <2>1, <3>1 DEF FetchInv, Interrupted
    <3> QED
      BY <1>1, <1>5, <2>4, <2>5, <2>6, <2>7, <3>1 DEF Counted
  <2>12. FetchInv'
    BY <2>8, <2>9, <2>10, <2>11 DEF FetchInv
  <2>13. ASSUME ShowInv
         PROVE  ShowInv'
    <3>1. InScene' = InScene /\ InBuffer' = InBuffer
      BY <1>1 DEF InScene, InBuffer
    <3>2. SceneIsOfDisk' /\ KnownWhenDown' /\ LeftIsShown' /\ Claimed'
      BY <1>1, <2>1, <2>13, <3>1
         DEF ShowInv, SceneIsOfDisk, KnownWhenDown, LeftIsShown, Claimed,
             IsWaiting, Waiting, SameList, SameInterrupt
    <3>3. Asked'
      BY <1>1, <1>5, <2>13, <3>1
         DEF ShowInv, Asked, IsWaiting, Waiting, SameList, SameInterrupt
    <3>4. ASSUME io'.total > 0, ~io'.interrupt
          PROVE  OnDisk \subseteq InScene \cup InBuffer \cup w
      <4>1. w # {} /\ ~AllFetched
        BY <1>5, <2>4, <2>7, <3>4
      <4>2. io.fetched \cap OnDisk \subseteq InScene \cup InBuffer
        BY <1>1, <1>2, <2>1, <2>13, <3>4, <4>1
           DEF ShowInv, LeftIsShown, SameInterrupt
      <4> QED
        BY <2>3, <4>2
    <3>5. Told'
      BY <1>5, <2>1, <3>1, <3>4 DEF Told
    <3> QED
      BY <3>2, <3>3, <3>5 DEF ShowInv
  <2> QED
    BY <2>12, <2>13
<1> QED
  BY <1>3, <1>4, <1>5, BeginsWith DEF Steady

(* A download ends: a Fetch All that leaves its list has nothing in the    *)
(* buffer, was interrupted, or took all there is.                          *)
LEMMA LeaveSteps ==
    ASSUME Steady, IoWorker, AtWork, io' = io, scene' = scene, host' = host,
           worker'.pc \in {"report", "after"}, NoFetchAll => NoFetchAll',
           InFetchAll => \/ io.interrupt
                         \/ worker.todo = {}
                         \/ io.frames = << >> /\ io.applied = 0
                            /\ (OnDisk = {} \/ ~host.up)
    PROVE  FetchInv' /\ (ShowInv => ShowInv')
<1>1. /\ SameList /\ SameBuffer /\ SameInterrupt /\ ~InLoop' /\ ~InFetchAll'
      /\ NoNews /\ FetchInv /\ OnDisk' = OnDisk /\ (AllFetched' <=> AllFetched)
  BY WorkerIsQuiet
     DEF SameList, SameBuffer, SameInterrupt, InLoop, InFetchAll, AtWork, Steady,
         AllFetched
<1>2. CASE ~InFetchAll
  <2>1. Apart
    BY <1>1, <1>2 DEF Apart
  <2> QED
    BY <1>1, <2>1, ApartCounts, ApartShows
<1>3. CASE InFetchAll
  <2>1. io.interrupt \/ io.frames = << >> \/ AllFetched
    BY <1>1, <1>3 DEF FetchInv, LoopCounts, NoOutputIsEmpty, AllFetched
  <2>2. LoopIsLinked' /\ LoopCounts' /\ NothingIsLeft'
    BY <1>1, <2>1 DEF LoopIsLinked, LoopCounts, NothingIsLeft
  <2>3. DownIsEmpty' /\ NoOutputIsEmpty' /\ Interrupted' /\ FromOutput' /\ Counted'
    BY <1>1 DEF FetchInv, DownIsEmpty, NoOutputIsEmpty, Interrupted, FromOutput,
                Counted
  <2>4. ASSUME ShowInv
        PROVE  ShowInv'
    <3>1. InScene' = InScene /\ InBuffer' = InBuffer
      BY DEF InScene, InBuffer
    <3>2. SceneIsOfDisk' /\ KnownWhenDown' /\ Claimed' /\ Asked'
      BY <1>1, <2>4, <3>1
         DEF ShowInv, SceneIsOfDisk, KnownWhenDown, Claimed, Asked, NoNews
    <3>3. ASSUME io.total > 0, ~io.interrupt
          PROVE  Shown \/ io.applied + Len(io.frames) < io.total
      <4>1. CASE worker.todo = {}
        BY <1>3, <2>4, <3>3, <4>1 DEF ShowInv, Told, Shown
      <4>2. CASE io.frames = << >> /\ io.applied = 0
        <5>1. Len(io.frames) = 0 /\ io.total \in Nat
          BY <4>2, FetchTypes DEF Steady
        <5> QED
          BY <3>3, <4>2, <5>1
      <4> QED
        BY <1>3, <3>3, <4>1, <4>2
    <3>4. Told'
      BY <1>1, <3>1, <3>3 DEF Told, Shown
    <3>5. LeftIsShown'
      <4>1. ASSUME ~io.interrupt
            PROVE  AllFetched \/ io.fetched \cap OnDisk \subseteq InScene
        <5>1. CASE worker.todo = {}
          BY <1>1, <1>3, <5>1 DEF FetchInv, LoopCounts, AllFetched
        <5>2. CASE ~host.up
          BY <2>4, <5>2 DEF ShowInv, KnownWhenDown
        <5> QED
          BY <1>3, <4>1, <5>1, <5>2
      <4> QED
        BY <1>1, <3>1, <4>1 DEF LeftIsShown
    <3> QED
      BY <3>2, <3>4, <3>5 DEF ShowInv
  <2> QED
    BY <2>2, <2>3, <2>4 DEF FetchInv
<1> QED
  BY <1>2, <1>3

(* A download that goes on has found its frame on the disk; one that fails *)
(* found the server gone, or no output at all.                             *)
LEMMA DownloadSteps ==
    ASSUME Steady, Download, NoFetchAll => NoFetchAll'
    PROVE  FetchInv' /\ (ShowInv => ShowInv')
<1>1. /\ worker.pc = "fetch" /\ AtWork /\ ~io.interrupt /\ IoWorker
      /\ UNCHANGED <<io, scene, host, events, draining>> /\ worker \in Worker
      /\ FetchInv /\ OnDisk' = OnDisk
  BY DEF Download, AtWork, IoWorker, Steady, WellFormed, TypeOK
<1>2. PICK n \in worker.todo :
        IF Reachable /\ host.out[n] # 0
        THEN worker' = [worker EXCEPT !.pc = "append", !.next = n,
                                      !.data = host.out[n]]
        ELSE FetchEndsWith(worker.job, Plain("FetchFailed"))
  BY DEF Download
<1>3. n \in 1 .. MaxFrame
  BY <1>1 DEF Worker
<1>4. CASE Reachable /\ host.out[n] # 0
  <2>1. /\ worker'.pc = "append" /\ worker'.next = n /\ worker'.data = host.out[n]
        /\ worker'.job = worker.job /\ worker'.todo = worker.todo
    BY <1>1, <1>2, <1>4 DEF Worker
  <2>2. /\ (InLoop' <=> InLoop) /\ (InFetchAll' <=> InFetchAll)
        /\ host.up /\ OnDisk # {}
    BY <1>1, <1>3, <1>4, <2>1
       DEF InLoop, InFetchAll, AtWork, Stale, Reachable, OnDisk
  <2>3. LoopIsLinked' /\ DownIsEmpty' /\ NoOutputIsEmpty' /\ Interrupted'
    BY <1>1, <2>2
       DEF FetchInv, LoopIsLinked, DownIsEmpty, NoOutputIsEmpty, Interrupted
  <2>4. FromOutput' /\ LoopCounts' /\ Counted'
    BY <1>1, <1>4, <2>1, <2>2 DEF FetchInv, FromOutput, LoopCounts, Counted
  <2>5. AllFetched' <=> AllFetched
    BY <1>1 DEF AllFetched
  <2>6. NothingIsLeft'
    BY <1>1, <2>2, <2>5 DEF FetchInv, NothingIsLeft
  <2>7. ASSUME ShowInv
        PROVE  ShowInv'
    <3>1. InScene' = InScene /\ InBuffer' = InBuffer
      BY <1>1 DEF InScene, InBuffer
    <3>2. /\ IsWaiting("FetchRequested")' <=> IsWaiting("FetchRequested")
          /\ IsWaiting("AllFramesApplied")' <=> IsWaiting("AllFramesApplied")
      BY <1>1 DEF IsWaiting, Waiting
    <3>3. SceneIsOfDisk' /\ KnownWhenDown' /\ Claimed' /\ Asked'
      BY <1>1, <2>7, <3>1, <3>2
         DEF ShowInv, SceneIsOfDisk, KnownWhenDown, Claimed, Asked
    <3>4. Told' /\ LeftIsShown'
      BY <1>1, <2>1, <2>2, <2>5, <2>7, <3>1 DEF ShowInv, Told, LeftIsShown, Shown
    <3> QED
      BY <3>3, <3>4 DEF ShowInv
  <2> QED
    BY <2>3, <2>4, <2>6, <2>7 DEF FetchInv
<1>5. CASE ~(Reachable /\ host.out[n] # 0)
  <2>1. worker'.pc \in {"report", "after"}
    BY <1>2, <1>5, WorkerEnds
  <2>2. ASSUME InFetchAll
        PROVE  io.frames = << >> /\ io.applied = 0 /\ (OnDisk = {} \/ ~host.up)
    <3>1. io.backend \in open
      BY <1>1, <2>2 DEF FetchInv, LoopIsLinked, InFetchAll, Steady, LinkInv,
                        BackendIsOpen
    <3>2. ~host.up \/ host.out[n] = 0
      BY <1>5, <3>1 DEF Reachable
    <3>3. OnDisk # {} => host.out[n] # 0
      BY <1>1, <1>2, <2>2 DEF FetchInv, LoopCounts, OnDisk
    <3> QED
      BY <1>1, <3>2, <3>3 DEF FetchInv, DownIsEmpty, NoOutputIsEmpty
  <2> QED
    BY <1>1, <2>1, <2>2, LeaveSteps
<1> QED
  BY <1>4, <1>5

(* A frame is handed over to a buffer whose list is this download's.       *)
LEMMA AppendSteps ==
    ASSUME Steady, AppendFrame, NoFetchAll => NoFetchAll'
    PROVE  FetchInv' /\ (ShowInv => ShowInv')
<1>1. /\ worker.pc = "append" /\ AtWork /\ IoWorker
      /\ UNCHANGED <<scene, host, events, draining>> /\ worker \in Worker
      /\ io \in Io /\ FetchInv /\ OnDisk' = OnDisk
  BY DEF AppendFrame, AtWork, IoWorker, Steady, WellFormed, TypeOK
<1>2. CASE Stale(worker.job)
  <2>1. io' = io /\ FetchEndsWith(worker.job, Plain("FetchFailed"))
    BY <1>2 DEF AppendFrame, HandOver
  <2>2. worker'.pc \in {"report", "after"} /\ ~InFetchAll
    BY <1>2, <2>1, WorkerEnds DEF InFetchAll, InLoop
  <2> QED
    BY <1>1, <2>1, <2>2, LeaveSteps
<1>3. CASE ~Stale(worker.job)
  <2> DEFINE n == worker.next
             p == [n |-> worker.next, of |-> worker.data]
  <2>1. io' = Buffered /\ OneFrameDone
    BY <1>3 DEF AppendFrame, HandOver
  <2>2. /\ n \in worker.todo /\ worker.data = host.out[n] /\ worker.data # 0
        /\ n \in 1 .. MaxFrame /\ host.up /\ OnDisk # {} /\ n \in OnDisk
    <3>1. n \in worker.todo /\ worker.data = host.out[n] /\ worker.data # 0
      BY <1>1 DEF FetchInv, FromOutput
    <3>2. n \in 1 .. MaxFrame
      BY <1>1, <3>1 DEF Worker
    <3> QED
      BY <1>1, <3>1, <3>2 DEF FetchInv, DownIsEmpty, OnDisk
  <2>3. /\ worker'.pc = "fetch" /\ worker'.job = worker.job
        /\ worker'.todo = worker.todo \ {n}
    BY <1>1, <2>1 DEF OneFrameDone, Worker
  <2>4. /\ io'.frames = Append(io.frames, p) /\ io'.fetched = io.fetched \cup {n}
        /\ io'.total = io.total /\ io'.applied = io.applied /\ io'.gen = io.gen
        /\ io'.interrupt <=> io.interrupt
        /\ io'.backend = io.backend
    BY <1>1, <2>1 DEF Buffered, Io
  <2>5. /\ io.frames \in Seq(Pending) /\ Len(io.frames) \in Nat
        /\ io.total \in Nat /\ io.applied \in Nat
        /\ io.frames = << >> <=> Len(io.frames) = 0
        /\ IsFiniteSet(worker.todo) /\ Cardinality(worker.todo) \in Nat
    BY FetchTypes DEF Steady
  <2>6. p \in Pending
    BY <1>1, <2>2 DEF Pending, Worker
  <2>7. /\ Len(io'.frames) = Len(io.frames) + 1
        /\ Elements(io'.frames) = Elements(io.frames) \cup {p}
    <3> HIDE DEF p
    <3> QED
      BY <2>4, <2>5, <2>6, AppendProperties, ElementsOf
  <2>8. p.n = n /\ p.of = host.out[n] /\ p.of # 0
    BY <2>2
  <2> HIDE DEF n, p
  <2>9. /\ Cardinality(worker'.todo) \in Nat
        /\ Cardinality(worker'.todo) = Cardinality(worker.todo) - 1
    <3>1. /\ IsFiniteSet(worker.todo \ {n})
          /\ Cardinality(worker.todo \ {n}) = Cardinality(worker.todo) - 1
      BY <2>2, <2>5, FS_RemoveElement
    <3> QED
      BY <2>3, <3>1, FS_CardinalityType
  <2>10. InLoop /\ InLoop' /\ (InFetchAll' <=> InFetchAll)
    BY <1>1, <1>3, <2>3, <2>4 DEF InLoop, InFetchAll, AtWork, Stale
  <2>11. InFetchAll \/ (NoFetchAll /\ NoFetchAll')
    <3>1. ASSUME ~InFetchAll PROVE ~NoLiveFetch
      <4>1. worker.job.kind = "fetch_frames" /\ worker.job.latest
        BY <1>1, <2>10, <3>1 DEF InFetchAll, Steady, LineInv, ListsArePast
      <4>2. worker.job.gen = io.gen /\ io.gen \in Nat
        BY <1>1, <1>3 DEF Stale, Io
      <4> QED
        BY <1>1, <4>1, <4>2 DEF NoLiveFetch, IsLive
    <3> QED
      BY <3>1 DEF Steady, LineInv
  <2>12. LoopIsLinked' /\ DownIsEmpty' /\ NoOutputIsEmpty' /\ Interrupted'
    BY <1>1, <2>2, <2>3, <2>4, <2>5, <2>7, <2>10
       DEF FetchInv, LoopIsLinked, DownIsEmpty, NoOutputIsEmpty, Interrupted
  <2>13. FromOutput' /\ NothingIsLeft'
    BY <1>1, <2>3, <2>7, <2>8, <2>10, <2>11
       DEF FetchInv, FromOutput, NothingIsLeft
  <2>14. ASSUME InFetchAll
         PROVE  \/ io'.total = 0
                \/ /\ io'.applied + Len(io'.frames) + Cardinality(worker'.todo)
                        <= io'.total
                   /\ io'.applied + Len(io'.frames) <= io'.total
    <3>1. \/ io.total = 0
          \/ io.applied + Len(io.frames) + Cardinality(worker.todo) <= io.total
      BY <1>1, <2>14 DEF FetchInv, LoopCounts
    <3>2. \A a, f, c, t \in Nat :
            c - 1 \in Nat /\ a + f + c <= t
              => a + (f + 1) + (c - 1) <= t /\ a + (f + 1) <= t
      OBVIOUS
    <3> QED
      BY <2>4, <2>5, <2>7, <2>9, <3>1, <3>2
  <2>15. LoopCounts'
    BY <1>1, <2>2, <2>3, <2>4, <2>10, <2>14 DEF FetchInv, LoopCounts
  <2>16. Counted'
    BY <2>4, <2>5, <2>11, <2>14 DEF Counted, NoFetchAll
  <2>17. ASSUME ShowInv
         PROVE  ShowInv'
    <3>1. InScene' = InScene /\ InBuffer' = InBuffer \cup {n}
      BY <1>1, <2>7, <2>8 DEF InScene, InBuffer
    <3>2. /\ IsWaiting("FetchRequested")' <=> IsWaiting("FetchRequested")
          /\ IsWaiting("AllFramesApplied")' <=> IsWaiting("AllFramesApplied")
      BY <1>1 DEF IsWaiting, Waiting
    <3>3. SceneIsOfDisk' /\ KnownWhenDown' /\ Claimed'
      BY <1>1, <2>2, <2>4, <2>17, <3>1, <3>2
         DEF ShowInv, SceneIsOfDisk, KnownWhenDown, Claimed
    <3>4. Asked'
      <4>1. IsWaiting("FetchRequested") => InFetchAll
        BY <2>11 DEF IsWaiting, NoFetchAll
      <4> QED
        BY <1>1, <2>4, <2>17, <3>2, <4>1 DEF ShowInv, Asked
    <3>5. LeftIsShown'
      BY <2>10, <2>11 DEF LeftIsShown
    <3>6. Told'
      <4>1. CASE InFetchAll
        BY <1>1, <2>3, <2>4, <2>10, <2>17, <3>1, <4>1 DEF ShowInv, Told, Shown
      <4>2. CASE NoFetchAll
        BY <2>4, <2>5, <4>2 DEF Told, NoFetchAll
      <4> QED
        BY <2>11, <4>1, <4>2
    <3> QED
      BY <3>3, <3>4, <3>5, <3>6 DEF ShowInv
  <2> QED
    BY <2>12, <2>13, <2>15, <2>16, <2>17 DEF FetchInv
<1> QED
  BY <1>2, <1>3

(* The worker.                                                             *)
LEMMA WorkerFetches ==
    ASSUME Steady, IoWorker, NoFetchAll => NoFetchAll'
    PROVE  FetchInv' /\ (ShowInv => ShowInv')
<1>1. CASE \/ Query \/ Terminate \/ LaunchServer \/ ValidatePath \/ FetchMap
           \/ Report \/ AutoQuery
  BY <1>1, OtherJobsStandApart, WorkerIsQuiet, ApartCounts, ApartShows
<1>2. CASE FetchFramesEnd
  <2>1. /\ worker.pc = "fetch" /\ (worker.todo = {} \/ io.interrupt)
        /\ UNCHANGED <<io, scene, host>>
        /\ worker'.pc \in {"report", "after"}
    BY <1>2, WorkerEnds DEF FetchFramesEnd
  <2> QED
    BY <2>1, LeaveSteps DEF AtWork
<1>3. CASE DownloadInterrupted
  <2>1. /\ worker.pc = "append" /\ io.interrupt /\ UNCHANGED <<io, scene, host>>
        /\ worker'.pc \in {"report", "after"}
    BY <1>3, WorkerEnds DEF DownloadInterrupted
  <2> QED
    BY <2>1, LeaveSteps DEF AtWork
<1>4. CASE FetchFramesBegin \/ Download \/ AppendFrame
  BY <1>4, BeginSteps, DownloadSteps, AppendSteps
<1>5. ~UploadAtomic /\ ~StopServer
  BY WorkerRests DEF Steady
<1> QED
  BY <1>1, <1>2, <1>3, <1>4, <1>5 DEF IoWorker

(* The attempts and the environment stand apart.                           *)
LEMMA OthersStandApart ==
    ASSUME Steady, (\E t \in Ticket : Attempt(t)) \/ SolverRun \/ Environment
    PROVE  Apart /\ NoNews
<1>1. /\ UNCHANGED <<app, draining, worker, srv, host>> /\ TypeOK /\ io \in Io
      /\ \/ events' = events
         \/ \E k \in {"Connected", "ConnectionFailed"} :
              Plain(k) \in Event /\ events' = Append(events, Plain(k))
  BY OthersRest DEF Steady, WellFormed, TypeOK
<1>2. /\ scene' = scene
      /\ \/ io' = io \/ io' = [io EXCEPT !.poll = TRUE]
         \/ \E t \in Ticket : io' = [io EXCEPT !.backend = t]
  BY DEF Attempt, ConnectOpens, AdoptBackend, ConnectFails, ConnectReports,
         SolverRun, SolverBoots, SolverAdvances, SolverFinishes, Environment,
         BuildEnds, SolverCrashes, ServerDies, TransportDrops, Ping
<1>3. SameList /\ SameBuffer /\ SameInterrupt /\ (io.backend # 0 => io'.backend # 0)
  <2>1. \A t \in Ticket : t # 0
    BY ClientAssumption DEF Ticket
  <2>2. ASSUME NEW q, q = [io EXCEPT !.poll = TRUE]
        PROVE  /\ q.gen = io.gen /\ q.fetched = io.fetched
               /\ q.frames = io.frames /\ q.total = io.total
               /\ q.applied = io.applied /\ (q.interrupt <=> io.interrupt)
               /\ q.backend = io.backend
    BY <1>1, <2>2 DEF Io
  <2>3. ASSUME NEW t \in Ticket, NEW q, q = [io EXCEPT !.backend = t]
        PROVE  /\ q.gen = io.gen /\ q.fetched = io.fetched
               /\ q.frames = io.frames /\ q.total = io.total
               /\ q.applied = io.applied /\ (q.interrupt <=> io.interrupt)
               /\ q.backend = t
    BY <1>1, <2>3 DEF Io
  <2> QED
    BY <1>2, <2>1, <2>2, <2>3 DEF SameList, SameBuffer, SameInterrupt
<1>4. NoNews
  <2>1. \A k \in {"Connected", "ConnectionFailed"} :
          Plain(k).kind \notin {"FetchRequested", "AllFramesApplied"}
    BY EventKinds
  <2> QED
    BY <1>1, <2>1, WaitingAfter DEF NoNews, IsWaiting
<1> QED
  BY <1>1, <1>2, <1>3, <1>4 DEF Apart

(* Every step keeps the counters and what is shown.                        *)
LEMMA StepFetches ==
    ASSUME WellFormed, LinkInv, RestInv, LineInv, FetchInv, [Next]_vars
    PROVE  FetchInv' /\ (ShowInv => ShowInv')
<1>1. Steady
  BY StepWellFormed, StepRests DEF Steady
<1>2. ~AskFetch => (NoFetchAll => NoFetchAll')
  BY StepLine DEF Kept
<1>3. CASE User
  <2>1. ~AskRun /\ ~AskResume
    BY <1>3, AskersRest
  <2>2. CASE AskFetch
    BY <1>1, <2>2, AskFetchSteps
  <2>3. CASE ~AskFetch
    BY <1>1, <1>2, <1>3, <2>1, <2>3, AskersStandApart, ApartCounts, ApartShows
       DEF User
  <2> QED
    BY <2>2, <2>3
<1>4. ASSUME ~AskFetch, MainThread
      PROVE  FetchInv' /\ (ShowInv => ShowInv')
  BY <1>1, <1>2, <1>4, AskersStandApart, ApartCounts, ApartShows, DrainFetches,
     PumpSteps DEF MainThread
<1>5. ASSUME ~AskFetch, IoWorker
      PROVE  FetchInv' /\ (ShowInv => ShowInv')
  BY <1>1, <1>2, <1>5, WorkerFetches
<1>6. ASSUME ~AskFetch, (\E t \in Ticket : Attempt(t)) \/ SolverRun \/ Environment
      PROVE  FetchInv' /\ (ShowInv => ShowInv')
  BY <1>1, <1>2, <1>6, OthersStandApart, ApartCounts, ApartShows
<1>7. ASSUME ~AskFetch, UNCHANGED vars
      PROVE  FetchInv' /\ (ShowInv => ShowInv')
  <2>1. Apart /\ NoNews
    BY <1>7 DEF vars, Apart, NoNews, SameList, SameBuffer, SameInterrupt, IsWaiting,
                Waiting
  <2> QED
    BY <1>1, <1>2, <1>7, <2>1, ApartCounts, ApartShows
<1> QED
  BY <1>3, <1>4, <1>5, <1>6, <1>7 DEF Next, User

(* A session begins with no fetch under way.                               *)
LEMMA InitFetch ==
    ASSUME Init, ServerRests
    PROVE  /\ NoDrops /\ RestInv /\ LineInv /\ FetchInv
           /\ SceneIsOfDisk => ShowInv
<1>1. /\ events = << >> /\ draining = FALSE /\ worker = IdleWorker
      /\ io.interrupt = FALSE /\ io.gen = 0 /\ io.fetched = {}
      /\ io.frames = << >> /\ io.total = 0 /\ io.applied = 0 /\ io.cmds = << >>
  BY DEF Init
<1>2. /\ Waiting = {} /\ Commands = {} /\ InBuffer = {} /\ Len(events) = 0
      /\ Elements(io.frames) = {} /\ Len(io.frames) = 0
  BY <1>1, ElementsOf, EmptySeq DEF Waiting, Commands, InBuffer
<1>3. /\ worker.pc = "idle" /\ worker.job = Do("ping")
      /\ worker.event = Plain("PollTick")
  BY <1>1, WorkerEnds
<1>4. NoDrops
  BY DEF NoDrops, ServerRests, DiskTokens
<1>5. RestInv
  <2>1. Do("ping").kind = "ping" /\ Reportable(Plain("PollTick"))
    <3>1. /\ "PollTick" \notin Harmful
          /\ "PollTick" \notin Requested \cup {"AllFramesApplied"}
      BY RequestKinds DEF Harmful
    <3> QED
      BY <3>1, HarmlessEvents, EventKinds DEF Do, Reportable
  <2> QED
    BY <1>2, <1>3, <2>1 DEF RestInv, RestingJobs
<1>6. ~AtWork /\ ~InLoop /\ ~InFetchAll
  BY <1>3 DEF AtWork, InLoop, InFetchAll
<1>7. NoFetchAll
  BY <1>1, <1>2, <1>3, <1>6, EventKinds DEF NoFetchAll
<1>8. LineInv
  BY <1>2, <1>6, <1>7 DEF LineInv, ListsArePast, RequestsLast
<1>9. FetchInv
  BY <1>1, <1>2, <1>3, <1>6, <1>7
     DEF FetchInv, LoopIsLinked, DownIsEmpty, NoOutputIsEmpty, Interrupted,
         FromOutput, LoopCounts, NothingIsLeft, Counted
<1>10. SceneIsOfDisk => ShowInv
  BY <1>1, <1>2, <1>7
     DEF ShowInv, KnownWhenDown, Told, LeftIsShown, Asked, Claimed, IsWaiting
<1> QED
  BY <1>4, <1>5, <1>8, <1>9, <1>10

-----------------------------------------------------------------------------
(* The theorems                                                            *)

FetchAllInv == WellFormed /\ LinkInv /\ RestInv /\ LineInv /\ FetchInv

(* The invariant holds from the beginning and at every step.               *)
LEMMA InitFetchAll == Init /\ ServerRests => FetchAllInv
BY InitWellFormed, InitLink, InitFetch DEF FetchAllInv

LEMMA StepFetchAll == FetchAllInv /\ [Next]_vars => FetchAllInv'
BY StepWellFormed, StepLink, StepRests, StepLine, StepFetches DEF FetchAllInv

(* A Fetch All from a server at rest never applies more frames than it     *)
(* counted, whatever fetch was aborted, given up or outrun before it.      *)
THEOREM NoMoreThanCounted == Spec /\ ServerRests => []AppliedWithinTotal
<1>1. FetchAllInv => AppliedWithinTotal
  BY DEF FetchAllInv, FetchInv, Counted, AppliedWithinTotal
<1> QED
  BY <1>1, InitFetchAll, StepFetchAll, PTL DEF Spec

(* And if the scene shows nothing but the server's output when the session *)
(* begins, it shows all of the output whenever a Fetch All that nobody     *)
(* aborted is applied (AllFramesApplied takes the add-on from APPLYING to  *)
(* IDLE).                                                                  *)
THEOREM AllIsShown == Spec /\ ServerRests /\ SceneIsOfDisk => FetchShowsOutput
<1>1. FetchAllInv /\ ShowInv /\ [Next]_vars => ShowInv'
  BY StepFetches DEF FetchAllInv
<1>2. Init /\ ServerRests /\ SceneIsOfDisk => ShowInv
  BY InitFetch
<1>3. ASSUME FetchAllInv, ShowInv, draining,
             Head(events).kind = "AllFramesApplied", ~io.interrupt,
             NEW n \in 1 .. MaxFrame, host.out[n] # 0
      PROVE  scene.applied[n] = host.out[n]
  <2>1. Head(events) \in Waiting
    <3>1. events \in Seq(Event) /\ events # << >>
      BY <1>3 DEF FetchAllInv, WellFormed, TypeOK, QueueWellFormed
    <3> QED
      BY <3>1, HeadAndTail DEF Waiting
  <2>2. OnDisk \subseteq InScene /\ n \in OnDisk
    BY <1>3, <2>1 DEF ShowInv, Claimed, IsWaiting, OnDisk
  <2> QED
    BY <1>3, <2>2 DEF ShowInv, SceneIsOfDisk
<1> DEFINE Shows ==
      app.activity = "APPLYING" /\ app'.activity = "IDLE"
      /\ draining /\ Head(events).kind = "AllFramesApplied" /\ ~io.interrupt
      => \A n \in 1 .. MaxFrame :
           host.out[n] # 0 => scene.applied[n] = host.out[n]
<1>4. FetchAllInv /\ ShowInv => Shows
  BY <1>3
<1>5. FetchAllInv /\ ShowInv /\ [Next]_vars => [Shows]_vars
  BY <1>4
<1> QED
  BY <1>1, <1>2, <1>5, InitFetchAll, StepFetchAll, PTL DEF Spec, FetchShowsOutput
=============================================================================
