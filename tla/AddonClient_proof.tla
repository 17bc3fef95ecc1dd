-------------------------- MODULE AddonClient_proof -------------------------
(***************************************************************************)
(* The types of AddonClient, for any sessions, frames, uploads, runs,      *)
(* queue lengths and connection tickets.                                   *)
(*                                                                         *)
(* TypeOK is not inductive.  The main thread takes the head of its queue,  *)
(* which is there because nobody else takes events; a download counts the  *)
(* frames it has handed over, which stay within the scene because it has   *)
(* never more left to do than that.  QueueWellFormed and FetchWellFormed   *)
(* say so.                                                                 *)
(***************************************************************************)
EXTENDS AddonClient, AddonTransitions_proof, SequenceTheorems,
        FiniteSetTheorems

ServerProofs == INSTANCE ServerTransitions_proof WITH Project <- {TheProject}

\* Only the main thread takes events from the queue.
QueueWellFormed == draining => events # << >>

\* A download takes each frame of the scene at most once.
FetchWellFormed ==
    /\ worker.pc \in {"fetch", "append"}
         => worker.count + Cardinality(worker.todo) <= MaxFrame
    /\ worker.pc = "append" => worker.next \in worker.todo

WellFormed == TypeOK /\ QueueWellFormed /\ FetchWellFormed

-----------------------------------------------------------------------------
(* The values that the actions write                                       *)

(* The events that the add-on's threads make.                              *)
LEMMA EventTypes ==
    /\ EmptyResponse \in Response
    /\ \A k \in EventKind : Plain(k) \in Event
    /\ \A k \in EventKind, n \in Frame : Numbered(k, n) \in Event
    /\ \A r \in Response : Polled(r) \in Event
<1>1. EmptyResponse \in Response
  BY Zeros DEF EmptyResponse, Response, Status
<1>2. ASSUME NEW k \in EventKind
      PROVE  Plain(k) \in Event
  BY <1>1, Zeros DEF Plain, Event
<1>3. ASSUME NEW k \in EventKind, NEW n \in Frame
      PROVE  Numbered(k, n) \in Event
  BY <1>2 DEF Numbered, Event
<1>4. ASSUME NEW r \in Response
      PROVE  Polled(r) \in Event
  <2>1. Plain("ServerPolled") \in Event
    BY <1>2 DEF EventKind
  <2> QED
    BY <2>1 DEF Polled, Event
<1> QED
  BY <1>1, <1>2, <1>3, <1>4

(* What a worker is made of.                                               *)
LEMMA WorkerTypes ==
    /\ IdleWorker \in Worker
    /\ \A j \in Job, e \in Event :
          [IdleWorker EXCEPT !.pc = "report", !.job = j, !.event = e] \in Worker
    /\ \A j \in Job : [IdleWorker EXCEPT !.pc = "after", !.job = j] \in Worker
    /\ \A j \in Job, s \in SUBSET (1 .. MaxFrame) :
          [IdleWorker EXCEPT !.pc = "fetch", !.job = j, !.todo = s] \in Worker
<1>1. Do("ping") \in Job /\ Plain("PollTick") \in Event
  BY JobTypes, EventTypes DEF JobKind, EventKind
<1>2. 0 \in RunId
  BY ClientAssumption DEF RunId
<1>3. IdleWorker \in Worker
  BY <1>1, <1>2, Zeros DEF IdleWorker, Worker
<1> QED
  BY <1>3 DEF Worker

(* The states of the server are the same in both instances of its module.  *)
LEMMA ServerStates == Server!ServerState = ServerProofs!ServerState
BY DEF Server!ServerState, Server!Upload, Server!Frame, Server!ErrorKind,
       Server!CrashKind, ServerProofs!ServerState, ServerProofs!Upload,
       ServerProofs!Frame, ServerProofs!ErrorKind, ServerProofs!CrashKind

(* The transitions of the server that this module takes keep its state.    *)
LEMMA ServerTypes ==
    ASSUME NEW s \in Server!ServerState, NEW u \in Upload, NEW f \in Frame,
           NEW b \in BOOLEAN
    PROVE  /\ Server!BuildRequested(s) \in Server!ServerState
           /\ Server!BuildCompleted(s, 0) \in Server!ServerState
           /\ Server!BuildFailed(s, 0) \in Server!ServerState
           /\ Server!BuildCancelledEvent(s) \in Server!ServerState
           /\ Server!StartRequested(s) \in Server!ServerState
           /\ Server!ResumeRequested(s) \in Server!ServerState
           /\ Server!TerminateRequested(s) \in Server!ServerState
           /\ Server!DeleteRequested(s) \in Server!ServerState
           /\ Server!UploadLanded(s, u, u, u, TRUE, TRUE) \in Server!ServerState
           /\ Server!SolverInitialized(s) \in Server!ServerState
           /\ Server!SolverFrameUpdated(s, f) \in Server!ServerState
           /\ Server!SolverFinished(s, b) \in Server!ServerState
           /\ Server!SolverCrashed(s, "panic", 0) \in Server!ServerState
<1>1. ServerProofs!TransitionsAssumption
  BY BoundsAssumption, ClientAssumption
     DEF ServerProofs!TransitionsAssumption, NoProject
<1>2. /\ s \in ServerProofs!ServerState
      /\ u \in ServerProofs!Upload /\ 0 \in ServerProofs!Upload
      /\ f \in ServerProofs!Frame /\ 0 \in ServerProofs!Frame
      /\ "panic" \in ServerProofs!CrashKind
  BY ServerStates, Zeros
     DEF ServerProofs!Upload, ServerProofs!Frame, ServerProofs!CrashKind,
         Upload, Frame
<1>3. /\ Server!BuildRequested(s) \in ServerProofs!ServerState
      /\ Server!BuildCompleted(s, 0) \in ServerProofs!ServerState
      /\ Server!BuildFailed(s, 0) \in ServerProofs!ServerState
      /\ Server!BuildCancelledEvent(s) \in ServerProofs!ServerState
  <2>1. /\ ServerProofs!BuildRequested(s) \in ServerProofs!ServerState
        /\ ServerProofs!BuildCompleted(s, 0) \in ServerProofs!ServerState
        /\ ServerProofs!BuildFailed(s, 0) \in ServerProofs!ServerState
        /\ ServerProofs!BuildCancelledEvent(s) \in ServerProofs!ServerState
    BY <1>1, <1>2, ServerProofs!BuildEventsType
  <2> QED
    BY <2>1 DEF Server!BuildRequested, ServerProofs!BuildRequested,
                Server!BuildCompleted, ServerProofs!BuildCompleted,
                Server!BuildFailed, ServerProofs!BuildFailed,
                Server!BuildCancelledEvent, ServerProofs!BuildCancelledEvent
<1>4. /\ Server!StartRequested(s) \in ServerProofs!ServerState
      /\ Server!ResumeRequested(s) \in ServerProofs!ServerState
      /\ Server!TerminateRequested(s) \in ServerProofs!ServerState
  <2>1. /\ ServerProofs!StartRequested(s) \in ServerProofs!ServerState
        /\ ServerProofs!ResumeRequested(s) \in ServerProofs!ServerState
        /\ ServerProofs!TerminateRequested(s) \in ServerProofs!ServerState
    BY <1>1, <1>2, ServerProofs!SolverRequestsType
  <2> QED
    BY <2>1 DEF Server!StartRequested, ServerProofs!StartRequested,
                Server!ResumeRequested, ServerProofs!ResumeRequested,
                Server!TerminateRequested, ServerProofs!TerminateRequested
<1>5. Server!DeleteRequested(s) \in ServerProofs!ServerState
  <2>1. ServerProofs!DeleteRequested(s) \in ServerProofs!ServerState
    BY <1>1, <1>2, ServerProofs!DeleteAndErrorType
  <2> QED
    BY <2>1 DEF Server!DeleteRequested, ServerProofs!DeleteRequested,
                Server!DefaultState, ServerProofs!DefaultState
<1>6. Server!UploadLanded(s, u, u, u, TRUE, TRUE) \in ServerProofs!ServerState
  <2>1. ServerProofs!UploadLanded(s, u, u, u, TRUE, TRUE) \in ServerProofs!ServerState
    BY <1>1, <1>2, ServerProofs!UploadLandedType
  <2> QED
    BY <2>1 DEF Server!UploadLanded, ServerProofs!UploadLanded,
                Server!DataOf, ServerProofs!DataOf
<1>7. /\ Server!SolverInitialized(s) \in ServerProofs!ServerState
      /\ Server!SolverFrameUpdated(s, f) \in ServerProofs!ServerState
      /\ Server!SolverFinished(s, b) \in ServerProofs!ServerState
      /\ Server!SolverCrashed(s, "panic", 0) \in ServerProofs!ServerState
  <2>1. /\ ServerProofs!SolverInitialized(s) \in ServerProofs!ServerState
        /\ ServerProofs!SolverFrameUpdated(s, f) \in ServerProofs!ServerState
        /\ ServerProofs!SolverFinished(s, b) \in ServerProofs!ServerState
        /\ ServerProofs!SolverCrashed(s, "panic", 0) \in ServerProofs!ServerState
    BY <1>1, <1>2, ServerProofs!MonitorEventsType
  <2> QED
    BY <2>1 DEF Server!SolverInitialized, ServerProofs!SolverInitialized,
                Server!SolverFrameUpdated, ServerProofs!SolverFrameUpdated,
                Server!SolverFinished, ServerProofs!SolverFinished,
                Server!SolverCrashed, ServerProofs!SolverCrashed
<1> QED
  BY <1>3, <1>4, <1>5, <1>6, <1>7, ServerStates

(* The state that a launched server reads off its disk is a state.         *)
LEMMA FromDiskType ==
    ASSUME TypeOK
    PROVE  FromDisk \in Server!ServerState
<1>1. ServerProofs!TransitionsAssumption
  BY BoundsAssumption, ClientAssumption
     DEF ServerProofs!TransitionsAssumption, NoProject
<1>2. srv \in Server!ServerState /\ host \in Host
  BY DEF TypeOK
<1> DEFINE d ==
        [name |-> TheProject,
         has_data |-> srv.data = "Uploaded", has_param |-> srv.data = "Uploaded",
         has_app |-> host.app, is_resumable |-> host.saved # 0,
         crash |-> srv.crash_kind, upload_id |-> srv.upload_id,
         data_hash |-> srv.data_hash, param_hash |-> srv.param_hash,
         total_frames |-> srv.total_frames, exemptions |-> 0]
<1>3. d \in ServerProofs!DiskView
  <2>1. host.app \in BOOLEAN
    BY <1>2 DEF Host
  <2>2. /\ srv.crash_kind \in {""} \cup Server!CrashKind
        /\ srv.upload_id \in Server!Upload /\ srv.data_hash \in Server!Upload
        /\ srv.param_hash \in Server!Upload /\ srv.total_frames \in Server!Frame
    BY <1>2 DEF Server!ServerState
  <2>3. 0 \in ServerProofs!Upload
    BY Zeros DEF Upload, ServerProofs!Upload
  <2> DEFINE loaded == srv.data = "Uploaded"
             resumable == host.saved # 0
  <2>4. loaded \in BOOLEAN /\ resumable \in BOOLEAN
    OBVIOUS
  <2> HIDE DEF loaded, resumable
  <2> DEFINE view ==
          [name |-> TheProject, has_data |-> loaded, has_param |-> loaded,
           has_app |-> host.app, is_resumable |-> resumable,
           crash |-> srv.crash_kind, upload_id |-> srv.upload_id,
           data_hash |-> srv.data_hash, param_hash |-> srv.param_hash,
           total_frames |-> srv.total_frames, exemptions |-> 0]
  <2>5. view \in ServerProofs!DiskView
    BY <2>1, <2>2, <2>3, <2>4
       DEF ServerProofs!DiskView, Server!CrashKind, ServerProofs!CrashKind,
           Server!Upload, ServerProofs!Upload, Server!Frame, ServerProofs!Frame
  <2> QED
    BY <2>5 DEF loaded, resumable
<1>4. ServerProofs!DefaultState \in ServerProofs!ServerState
  BY <1>1, ServerProofs!DefaultStateType
<1>5. ServerProofs!ProjectSelected(ServerProofs!DefaultState, d)
        \in ServerProofs!ServerState
  BY <1>1, <1>3, <1>4, ServerProofs!ProjectSelectedType
<1>6. d.name # ServerProofs!DefaultState.name
  BY ClientAssumption DEF ServerProofs!DefaultState
<1>7. FromDisk = ServerProofs!SwitchProject(ServerProofs!DefaultState, d)
  BY DEF FromDisk, Server!SwitchProject, ServerProofs!SwitchProject,
         Server!DefaultState, ServerProofs!DefaultState, Server!DataOf,
         ServerProofs!DataOf
<1> HIDE DEF d
<1> QED
  BY <1>5, <1>6, <1>7, ServerStates DEF ServerProofs!ProjectSelected

(* An answer of the server is a response.                                  *)
LEMMA AnswerTypes ==
    ASSUME TypeOK, NEW s \in Server!ServerState, NEW n \in Nat
    PROVE  /\ Answered(s, n) \in Response
           /\ Refused \in Response
<1>1. host \in Host /\ orders \in [given : Nat, taken : Nat]
  BY DEF TypeOK
<1>2. /\ s.frame \in Frame /\ s.initialized \in BOOLEAN
      /\ s.upload_id \in Upload
  <2>1. /\ s.frame \in Server!Frame /\ s.initialized \in BOOLEAN
        /\ s.upload_id \in Server!Upload
    BY DEF Server!ServerState
  <2> QED
    BY <2>1 DEF Server!Frame, Server!Upload, Frame, Upload
<1>3. Server!StatusString(s) \in Status
  BY ZenonT(60) DEF Server!StatusString, Status
<1>4. Answered(s, n) \in Response
  <2> DEFINE kind == IF host.old THEN "mismatch" ELSE "status"
             error == s.error # ""
  <2>1. kind \in {"mismatch", "status"} /\ error \in BOOLEAN
    OBVIOUS
  <2>2. Answered(s, n) =
          [kind |-> kind, status |-> Server!StatusString(s),
           frame |-> s.frame, initialized |-> s.initialized, error |-> error,
           upload_id |-> s.upload_id, stamp |-> n]
    BY DEF Answered
  <2> HIDE DEF kind, error
  <2> QED
    BY <1>2, <1>3, <2>1, <2>2 DEF Response
<1>5. Refused \in Response
  BY <1>1, EventTypes DEF Refused, Response
<1> QED
  BY <1>4, <1>5

(* What the effects of an event do to the runner's shared state.           *)
LEMMA IoTypes ==
    ASSUME NEW r \in Io
    PROVE  /\ Cleared(r) \in Io /\ Disconnected(r) \in Io
           /\ \A s \in SUBSET (1 .. MaxFrame) : Reassigned(s, r) \in Io
           /\ \A fx \in Effects : /\ Submitted(fx, r) \in Io
                                  /\ Buffer(fx, r) \in Io
                                  /\ Linked(fx, r) \in Io
<1>1. << >> \in Seq(Pending)
  OBVIOUS
<1>2. ASSUME NEW q \in Io
      PROVE  Cleared(q) \in Io
  BY <1>1 DEF Cleared, Io
<1>3. ASSUME NEW q \in Io, NEW s \in SUBSET (1 .. MaxFrame)
      PROVE  Reassigned(s, q) \in Io
  <2> DEFINE g == q.gen + 1
  <2>1. g \in Nat
    BY DEF Io
  <2>2. Reassigned(s, q) = [q EXCEPT !.fetched = s, !.gen = g]
    BY DEF Reassigned
  <2> HIDE DEF g
  <2> QED
    BY <2>1, <2>2 DEF Io
<1> DEFINE e == r.epoch + 1
<1>4. /\ [r EXCEPT !.backend = 0, !.epoch = e] \in Io
      /\ [r EXCEPT !.epoch = e] \in Io
  <2>1. e \in Nat
    BY DEF Io
  <2> HIDE DEF e
  <2> QED
    BY <2>1 DEF Io
<1>5. Disconnected(r) \in Io
  BY <1>2, <1>3, <1>4 DEF Disconnected
<1>6. ASSUME NEW fx \in Effects
      PROVE  Submitted(fx, r) \in Io
  <2> DEFINE flag == CASE fx.interrupt = "set" -> TRUE
                       [] fx.interrupt = "clear" -> FALSE
                       [] fx.interrupt = "keep" -> r.interrupt
             jobs == [i \in 1 .. Len(fx.jobs) |->
                        IF fx.jobs[i].kind = "fetch_frames"
                        THEN [fx.jobs[i] EXCEPT !.gen = r.gen]
                        ELSE fx.jobs[i]]
             cmds == r.cmds \o jobs
             poll == r.poll \/ fx.poll
  <2>1. /\ fx.interrupt \in {"keep", "set", "clear"} /\ fx.jobs \in Seq(Job)
        /\ r.interrupt \in BOOLEAN /\ r.gen \in Nat /\ r.cmds \in Seq(Job)
    BY DEF Effects, Io
  <2>2. flag \in BOOLEAN
    BY <2>1
  <2>3. jobs \in Seq(Job)
    <3>1. \A i \in 1 .. Len(fx.jobs) : fx.jobs[i] \in Job
      BY <2>1
    <3>2. \A j \in Job : [j EXCEPT !.gen = r.gen] \in Job
      BY <2>1 DEF Job
    <3>3. Len(fx.jobs) \in Nat
      BY <2>1
    <3>4. jobs \in [1 .. Len(fx.jobs) -> Job]
      BY <3>1, <3>2
    <3> HIDE DEF jobs
    <3> QED
      BY <3>3, <3>4, IsASeq
  <2> HIDE DEF jobs
  <2>4. cmds \in Seq(Job)
    BY <2>1, <2>3, ConcatProperties
  <2>5. poll \in BOOLEAN
    OBVIOUS
  <2>6. Submitted(fx, r) = [r EXCEPT !.interrupt = flag, !.cmds = cmds, !.poll = poll]
    BY DEF Submitted, jobs
  <2> HIDE DEF flag, cmds, poll
  <2> QED
    BY <2>2, <2>4, <2>5, <2>6 DEF Io
<1>7. ASSUME NEW fx \in Effects
      PROVE  Linked(fx, r) \in Io
  <2>1. fx.link \in {"keep", "connect", "disconnect"}
    BY DEF Effects
  <2> QED
    BY <1>4, <1>5, <2>1 DEF Linked
<1> QED
  BY <1>2, <1>3, <1>5, <1>6, <1>7 DEF Buffer
-----------------------------------------------------------------------------
(* The pieces that several actions share                                   *)

(* The next job, and what is left when it is taken.                        *)
LEMMA TakenTypes ==
    ASSUME TypeOK
    PROVE  NextJob \in Job /\ Taken \in Io
<1>1. io \in Io /\ io.cmds \in Seq(Job)
  BY DEF TypeOK, Io
<1>2. Do("ping") \in Job
  BY JobTypes DEF JobKind
<1>3. CASE io.cmds = << >>
  <2>1. [io EXCEPT !.poll = FALSE] \in Io
    BY <1>1 DEF Io
  <2> QED
    BY <1>2, <1>3, <2>1 DEF NextJob, Taken
<1>4. CASE io.cmds # << >>
  <2>1. Head(io.cmds) \in Job /\ Tail(io.cmds) \in Seq(Job)
    BY <1>1, <1>4, HeadTailProperties
  <2>2. [io EXCEPT !.cmds = Tail(io.cmds)] \in Io
    BY <1>1, <2>1 DEF Io
  <2> QED
    BY <1>4, <2>1, <2>2 DEF NextJob, Taken
<1> QED
  BY <1>3, <1>4

(* The orders among some jobs are counted.                                 *)
LEMMA OrdersType ==
    ASSUME NEW js \in Seq(Job)
    PROVE  Orders(js) \in Nat
<1>1. Len(js) \in Nat
  OBVIOUS
<1>2. IsFiniteSet(1 .. Len(js))
  BY <1>1, FS_Interval
<1>3. IsFiniteSet({i \in 1 .. Len(js) : IsOrder(js[i])})
  BY <1>2, FS_Subset
<1> QED
  BY <1>3, FS_CardinalityType DEF Orders

(* History stays a pair of counts.                                         *)
LEMMA HistoryTypes ==
    ASSUME TypeOK
    PROVE  /\ CountTaken => orders' \in [given : Nat, taken : Nat]
           /\ \A n \in Nat :
                /\ [orders EXCEPT !.given = @ + n] \in [given : Nat, taken : Nat]
                /\ [orders EXCEPT !.taken = @ + n] \in [given : Nat, taken : Nat]
<1>1. orders \in [given : Nat, taken : Nat]
  BY DEF TypeOK
<1>2. ASSUME NEW n \in Nat
      PROVE  /\ [orders EXCEPT !.given = @ + n] \in [given : Nat, taken : Nat]
             /\ [orders EXCEPT !.taken = @ + n] \in [given : Nat, taken : Nat]
  <2> DEFINE g == orders.given + n
             t == orders.taken + n
  <2>1. g \in Nat /\ t \in Nat
    BY <1>1
  <2> HIDE DEF g, t
  <2>2. /\ [orders EXCEPT !.given = g] \in [given : Nat, taken : Nat]
        /\ [orders EXCEPT !.taken = t] \in [given : Nat, taken : Nat]
    BY <1>1, <2>1
  <2> QED
    BY <2>2 DEF g, t
<1>3. (IF IsOrder(NextJob) THEN 1 ELSE 0) \in Nat
  OBVIOUS
<1> QED
  BY <1>2, <1>3 DEF CountTaken

(* A token that is spent leaves a bag of tokens.                           *)
LEMMA SpendType ==
    ASSUME TypeOK, NEW t \in Request \cup Fault, Spend(t)
    PROVE  left' \in [Request \cup Fault -> Nat]
<1> DEFINE n == left[t] - 1
<1>1. left \in [Request \cup Fault -> Nat]
  BY DEF TypeOK
<1>2. left[t] \in Nat /\ left[t] > 0
  BY <1>1 DEF Spend
<1>3. n \in Nat
  BY <1>2
<1>4. left' = [left EXCEPT ![t] = n]
  BY DEF Spend
<1> HIDE DEF n
<1> QED
  BY <1>1, <1>3, <1>4

(* An event that joins the queue leaves a queue that is not empty.         *)
LEMMA Enqueued ==
    ASSUME TypeOK, NEW e \in Event
    PROVE  Append(events, e) \in Seq(Event) /\ Append(events, e) # << >>
<1>1. events \in Seq(Event)
  BY DEF TypeOK
<1> QED
  BY <1>1, AppendProperties

(* The ways in which a job ends leave the worker without a download.       *)
LEMMA JobEnds ==
    ASSUME NEW j \in Job, NEW e \in Event
    PROVE  /\ worker' = IdleWorker => worker' \in Worker /\ FetchWellFormed'
           /\ Reports(j, e) => worker' \in Worker /\ FetchWellFormed'
           /\ Ends(j) => worker' \in Worker /\ FetchWellFormed'
           /\ FetchEndsWith(j, e) => worker' \in Worker /\ FetchWellFormed'
<1>1. ASSUME worker' = IdleWorker
      PROVE  worker' \in Worker /\ FetchWellFormed'
  BY <1>1, WorkerTypes DEF IdleWorker, FetchWellFormed
<1>2. ASSUME Reports(j, e)
      PROVE  worker' \in Worker /\ FetchWellFormed'
  <2>1. worker'.pc = "report"
    BY <1>2 DEF Reports, IdleWorker
  <2> QED
    BY <1>2, <2>1, WorkerTypes DEF Reports, FetchWellFormed
<1>3. ASSUME Ends(j)
      PROVE  worker' \in Worker /\ FetchWellFormed'
  <2>1. worker'.pc = "after"
    BY <1>3 DEF Ends, IdleWorker
  <2> QED
    BY <1>3, <2>1, WorkerTypes DEF Ends, FetchWellFormed
<1> QED
  BY <1>1, <1>2, <1>3 DEF FetchEndsWith

(* What the requests and the solver leave on the server's disk.            *)
LEMMA HostTypes ==
    ASSUME TypeOK
    PROVE  /\ NoFiles(host) \in Host
           /\ \A b \in BOOLEAN, c \in BOOLEAN :
                [NoFiles(host) EXCEPT !.app = b, !.cancel = c] \in Host
           /\ \A b \in BOOLEAN : [NoFiles(host) EXCEPT !.app = b] \in Host
           /\ \A boot \in {"no", "fresh", "resume"}, f \in Frame :
                host.runs < MaxRuns => Launched(boot, f) \in Host
<1>1. host \in Host
  BY DEF TypeOK
<1>2. NoOutput \in Output
  BY ClientAssumption DEF NoOutput, Output, RunId
<1>3. NoFiles(host) \in Host
  BY <1>1, <1>2, Zeros DEF NoFiles, Host
<1>4. ASSUME NEW b \in BOOLEAN, NEW c \in BOOLEAN
      PROVE  /\ [NoFiles(host) EXCEPT !.app = b, !.cancel = c] \in Host
             /\ [NoFiles(host) EXCEPT !.app = b] \in Host
  BY <1>3 DEF Host
<1>5. ASSUME NEW boot \in {"no", "fresh", "resume"}, NEW f \in Frame,
             host.runs < MaxRuns
      PROVE  Launched(boot, f) \in Host
  <2> DEFINE r == host.runs + 1
  <2>1. r \in RunId
    BY <1>1, <1>5, ClientAssumption DEF Host, RunId
  <2>2. Launched(boot, f) =
          [host EXCEPT !.runs = r, !.boot = boot, !.from = f, !.at = f]
    BY DEF Launched
  <2> HIDE DEF r
  <2> QED
    BY <1>1, <2>1, <2>2 DEF Host
<1> QED
  BY <1>3, <1>4, <1>5
-----------------------------------------------------------------------------
(* The main thread and the user                                            *)

(* An event drained with its effects keeps the types.                      *)
LEMMA DrainStep ==
    ASSUME WellFormed, Drain
    PROVE  WellFormed'
<1> DEFINE done == Transition(app, Head(events))
<1>1. /\ app \in AppState /\ events \in Seq(Event) /\ events # << >>
      /\ io \in Io /\ open \subseteq Ticket /\ dial \in [Ticket -> Dial]
  BY DEF WellFormed, TypeOK, QueueWellFormed, Drain
<1>2. Head(events) \in Event /\ Tail(events) \in Seq(Event)
  BY <1>1, HeadTailProperties
<1>3. done \in Outcome
  BY <1>1, <1>2, TransitionType
<1>4. done.app \in AppState /\ done.fx \in Effects
  BY <1>3 DEF Outcome
<1>5. Carried(done)
  BY DEF Drain
<1> HIDE DEF done
<1>6. app' \in AppState
  BY <1>4, <1>5 DEF Carried
<1>7. io' \in Io
  <2>1. Buffer(done.fx, io) \in Io
    BY <1>1, <1>4, IoTypes
  <2>2. Submitted(done.fx, Buffer(done.fx, io)) \in Io
    BY <1>4, <2>1, IoTypes
  <2> QED
    BY <1>4, <1>5, <2>2, IoTypes DEF Carried
<1>8. dial' \in [Ticket -> Dial]
  BY <1>1, <1>5 DEF Carried, Dial
<1>9. open' \subseteq Ticket
  BY <1>1, <1>5 DEF Carried
<1>10. orders' \in [given : Nat, taken : Nat]
  <2>1. Orders(done.fx.jobs) \in Nat
    BY <1>4, OrdersType DEF Effects
  <2> QED
    BY <1>5, <2>1, HistoryTypes DEF Carried, WellFormed
<1>11. events' \in Seq(Event) /\ draining' \in BOOLEAN /\ QueueWellFormed'
  BY <1>2 DEF Drain, QueueWellFormed
<1>12. /\ worker' \in Worker /\ scene' \in Scene /\ srv' \in Server!ServerState
       /\ host' \in Host /\ left' \in [Request \cup Fault -> Nat]
       /\ FetchWellFormed'
  BY DEF WellFormed, TypeOK, FetchWellFormed, Drain
<1> QED
  BY <1>6, <1>7, <1>8, <1>9, <1>10, <1>11, <1>12 DEF WellFormed, TypeOK

(* The timers' posts and a frame that is applied keep the types.           *)
LEMMA TimerSteps ==
    ASSUME WellFormed, PersistentTick \/ Watchdog \/ Stall \/ Pump
    PROVE  WellFormed'
<1>1. \A k \in EventKind : Append(events, Plain(k)) \in Seq(Event)
                           /\ Append(events, Plain(k)) # << >>
  BY Enqueued, EventTypes DEF WellFormed
<1>2. "PollTick" \in EventKind /\ "FetchFailed" \in EventKind
      /\ "AllFramesApplied" \in EventKind
  BY DEF EventKind
<1>3. CASE PersistentTick
  BY <1>1, <1>2, <1>3
     DEF PersistentTick, Dispatch, WellFormed, TypeOK, QueueWellFormed,
         FetchWellFormed
<1>4. CASE Watchdog
  BY <1>1, <1>2, <1>4
     DEF Watchdog, Post, Plain, WellFormed, TypeOK, QueueWellFormed,
         FetchWellFormed
<1>5. CASE Stall
  <2>1. left' \in [Request \cup Fault -> Nat]
    BY <1>5, SpendType DEF Stall, Fault, WellFormed
  <2> QED
    BY <1>1, <1>2, <1>5, <2>1
       DEF Stall, Post, Plain, WellFormed, TypeOK, QueueWellFormed,
           FetchWellFormed
<1>6. CASE Pump
  <2>1. events' \in Seq(Event) /\ draining' = draining /\ ~draining
    BY <1>1, <1>2, <1>6 DEF Pump, Post, Plain, WellFormed, TypeOK
  <2>2. io' \in Io /\ scene' \in Scene
    <3>1. CASE io.frames = << >>
      BY <1>6, <3>1 DEF Pump, WellFormed, TypeOK
    <3>2. CASE io.frames # << >>
      <4> DEFINE applied == io.applied + 1
      <4>1. io \in Io /\ io.frames \in Seq(Pending) /\ scene \in Scene
        BY DEF WellFormed, TypeOK, Io
      <4>2. Head(io.frames) \in Pending /\ Tail(io.frames) \in Seq(Pending)
            /\ Head(io.frames) = io.frames[1]
        BY <3>2, <4>1, HeadTailProperties
      <4>3. applied \in Nat
        BY <4>1 DEF Io
      <4>4. /\ io' = [io EXCEPT !.frames = Tail(io.frames), !.applied = applied]
            /\ scene' = [scene EXCEPT !.applied[io.frames[1].n] = io.frames[1].of]
        BY <1>6, <3>2 DEF Pump
      <4> HIDE DEF applied
      <4>5. io' \in Io
        BY <4>1, <4>2, <4>3, <4>4 DEF Io
      <4>6. scene' \in Scene
        BY <4>1, <4>2, <4>4 DEF Scene, Output, Pending
      <4> QED
        BY <4>5, <4>6
    <3> QED
      BY <3>1, <3>2
  <2> QED
    BY <1>6, <2>1, <2>2
       DEF Pump, WellFormed, TypeOK, QueueWellFormed, FetchWellFormed
<1> QED
  BY <1>3, <1>4, <1>5, <1>6

(* A request spends its token and joins the queue.                         *)
LEMMA AskTypes ==
    ASSUME WellFormed, NEW r \in Request, NEW e \in Event, AsksWith(r, e),
           io' \in Io, scene' \in Scene
    PROVE  WellFormed'
<1>1. left' \in [Request \cup Fault -> Nat]
  BY SpendType DEF AsksWith, WellFormed
<1>2. events' \in Seq(Event) /\ events' # << >> /\ draining' = TRUE
  BY Enqueued DEF AsksWith, Dispatch, WellFormed
<1> QED
  BY <1>1, <1>2
     DEF AsksWith, WellFormed, TypeOK, QueueWellFormed, FetchWellFormed

(* What the user asks keeps the types.                                     *)
LEMMA UserSteps ==
    ASSUME WellFormed, User
    PROVE  WellFormed'
<1>1. io \in Io /\ scene \in Scene /\ host \in Host
  BY DEF WellFormed, TypeOK
<1>2. \A r \in Request : Plain(RequestEvent[r]) \in Event
  BY EventTypes DEF Request, RequestEvent, EventKind
<1>3. /\ Plain("RunRequested") \in Event /\ Plain("FetchRequested") \in Event
      /\ Plain("AbortRequested") \in Event
      /\ Numbered("ResumeRequested", host.saved) \in Event
  BY <1>1, EventTypes DEF EventKind, Host
<1>4. CASE JustAsk
  BY <1>1, <1>2, <1>4, AskTypes DEF JustAsk
<1>5. CASE AskRun
  <2>1. io' \in Io
    BY <1>1, <1>5, IoTypes DEF AskRun
  <2>2. scene' \in Scene
    BY <1>1, <1>5, ClientAssumption DEF AskRun, Scene, NoOutput, Output, RunId, Host
  <2> QED
    BY <1>3, <1>5, <2>1, <2>2, AskTypes DEF AskRun, Request
<1>6. CASE AskResume
  <2>1. io' \in Io
    BY <1>1, <1>6, IoTypes DEF AskResume, InScene
  <2> QED
    BY <1>1, <1>3, <1>6, <2>1, AskTypes DEF AskResume, Request
<1>7. CASE AskFetch
  <2>1. io' \in Io
    BY <1>1, <1>7, IoTypes DEF AskFetch, InScene
  <2> QED
    BY <1>1, <1>3, <1>7, <2>1, AskTypes DEF AskFetch, Request
<1>8. CASE AskAbort
  <2>1. Do("cancel_build") \in Job
    BY JobTypes DEF JobKind
  <2>2. io.cmds \in Seq(Job)
    BY <1>1 DEF Io
  <2>3. Append(io.cmds, Do("cancel_build")) \in Seq(Job)
    BY <2>1, <2>2, AppendProperties
  <2>4. [io EXCEPT !.cmds = Append(io.cmds, Do("cancel_build"))] \in Io
    BY <1>1, <2>3 DEF Io
  <2>5. io' \in Io
    BY <1>1, <1>8, <2>4 DEF AskAbort
  <2> QED
    BY <1>1, <1>3, <1>8, <2>5, AskTypes DEF AskAbort, Request
<1> QED
  BY <1>4, <1>5, <1>6, <1>7, <1>8 DEF User
-----------------------------------------------------------------------------
(* The I/O worker                                                          *)

(* A step of the worker that writes the worker, the runner's state, the    *)
(* server or a token, each within its type, keeps the types.               *)
LEMMA WorkerWrites ==
    ASSUME WellFormed, worker' \in Worker, FetchWellFormed', io' \in Io,
           srv' \in Server!ServerState, host' \in Host,
           left' \in [Request \cup Fault -> Nat],
           orders' \in [given : Nat, taken : Nat],
           UNCHANGED <<app, draining, events, dial, open, scene>>
    PROVE  WellFormed'
BY DEF WellFormed, TypeOK, QueueWellFormed

(* A query, whatever it meets, keeps the types.                            *)
LEMMA QueryStep ==
    ASSUME WellFormed, Query
    PROVE  WellFormed'
<1>1. /\ NextJob \in Job /\ io' \in Io /\ orders' \in [given : Nat, taken : Nat]
      /\ NextJob.kind \in QueryJobs
  BY TakenTypes, HistoryTypes DEF Query, Takes, WellFormed
<1>2. /\ srv \in Server!ServerState /\ host \in Host
      /\ left \in [Request \cup Fault -> Nat]
  BY DEF WellFormed, TypeOK
<1>3. orders'.taken \in Nat
  BY <1>1
<1>4. Plain("ServerLost") \in Event
  BY EventTypes DEF EventKind
<1>5. /\ \A s \in Server!ServerState :
           Polled(Answered(s, orders'.taken)) \in Event
      /\ Polled(Refused) \in Event
  BY <1>2, <1>3, AnswerTypes, EventTypes DEF WellFormed
<1>6. UNCHANGED <<app, draining, events, dial, open, scene>>
  BY DEF Query
<1>7. CASE worker' = IdleWorker /\ UNCHANGED <<srv, host, left>>
  BY <1>1, <1>2, <1>4, <1>6, <1>7, JobEnds, WorkerWrites
<1>8. CASE Reports(NextJob, Plain("ServerLost")) /\ UNCHANGED <<srv, host, left>>
  BY <1>1, <1>2, <1>4, <1>6, <1>8, JobEnds, WorkerWrites
<1>9. CASE /\ Reports(NextJob, Polled(Answered(srv, orders'.taken)))
           /\ UNCHANGED <<srv, host, left>>
  BY <1>1, <1>2, <1>5, <1>6, <1>9, JobEnds, WorkerWrites
<1>10. CASE /\ Accepts(NextJob)
            /\ NextJob.kind \in {"start", "resume"} => host.runs < MaxRuns
            /\ srv' = ServerAfter(NextJob) /\ host' = HostAfter(NextJob)
            /\ Reports(NextJob, Polled(Answered(srv', orders'.taken)))
            /\ UNCHANGED left
  <2>1. NextJob.kind \in {"build", "start", "resume", "delete", "cancel_build"}
    BY <1>1, <1>10 DEF Accepts, QueryJobs
  <2>2. srv' \in Server!ServerState
    <3>1. /\ Server!BuildRequested(srv) \in Server!ServerState
          /\ Server!StartRequested(srv) \in Server!ServerState
          /\ Server!ResumeRequested(srv) \in Server!ServerState
          /\ Server!DeleteRequested(srv) \in Server!ServerState
      BY <1>2, Zeros, ServerTypes
    <3> QED
      BY <1>2, <1>10, <2>1, <3>1 DEF ServerAfter
  <2>3. host' \in Host
    <3>1. CASE NextJob.kind = "build"
      BY <1>2, <1>10, <3>1 DEF HostAfter, Host
    <3>2. CASE NextJob.kind = "start"
      BY <1>10, <3>2, HostTypes, Zeros DEF HostAfter, WellFormed
    <3>3. CASE NextJob.kind = "resume"
      <4>1. NextJob.frame \in Frame
        BY <1>1 DEF Job
      <4> QED
        BY <1>10, <3>3, <4>1, HostTypes DEF HostAfter, WellFormed
    <3>4. CASE NextJob.kind = "delete"
      BY <1>10, <3>4, HostTypes DEF HostAfter, WellFormed
    <3>5. CASE NextJob.kind = "cancel_build"
      BY <1>2, <1>10, <3>5 DEF HostAfter, Host
    <3> QED
      BY <2>1, <3>1, <3>2, <3>3, <3>4, <3>5
  <2>4. Polled(Answered(srv', orders'.taken)) \in Event
    BY <1>5, <2>2
  <2> QED
    BY <1>1, <1>2, <1>6, <1>10, <2>2, <2>3, <2>4, JobEnds, WorkerWrites
<1>11. CASE /\ Spend("select_fails") /\ Reports(NextJob, Polled(Refused))
            /\ UNCHANGED <<srv, host>>
  <2>1. left' \in [Request \cup Fault -> Nat]
    BY <1>11, SpendType DEF Fault, WellFormed
  <2> QED
    BY <1>1, <1>2, <1>5, <1>6, <1>11, <2>1, JobEnds, WorkerWrites
<1> QED
  BY <1>7, <1>8, <1>9, <1>10, <1>11 DEF Query

(* A terminate and its answer keep the types.                              *)
LEMMA TerminateStep ==
    ASSUME WellFormed, Terminate
    PROVE  WellFormed'
<1>1. /\ NextJob \in Job /\ io' \in Io /\ orders' \in [given : Nat, taken : Nat]
  BY TakenTypes, HistoryTypes DEF Terminate, Takes, WellFormed
<1>2. /\ srv \in Server!ServerState /\ host \in Host
      /\ left \in [Request \cup Fault -> Nat] /\ orders.taken \in Nat
  BY DEF WellFormed, TypeOK
<1>3. Polled(EmptyResponse) \in Event
  BY EventTypes
<1>4. UNCHANGED <<app, draining, events, dial, open, scene, left>>
  BY DEF Terminate
<1>5. CASE worker' = IdleWorker /\ UNCHANGED <<srv, host>>
  BY <1>1, <1>2, <1>3, <1>4, <1>5, JobEnds, WorkerWrites
<1>6. CASE Reports(NextJob, Polled(EmptyResponse)) /\ UNCHANGED <<srv, host>>
  BY <1>1, <1>2, <1>3, <1>4, <1>6, JobEnds, WorkerWrites
<1>7. CASE /\ srv' = Server!TerminateRequested(srv)
           /\ host' = [host EXCEPT !.boot = "no"]
           /\ Reports(NextJob, Polled(Answered(srv', orders.taken)))
  <2>1. srv' \in Server!ServerState
    BY <1>2, <1>7, Zeros, ServerTypes
  <2>2. host' \in Host
    BY <1>2, <1>7 DEF Host
  <2>3. Polled(Answered(srv', orders.taken)) \in Event
    BY <1>2, <2>1, AnswerTypes, EventTypes DEF WellFormed
  <2> QED
    BY <1>1, <1>2, <1>4, <1>7, <2>1, <2>2, <2>3, JobEnds, WorkerWrites
<1> QED
  BY <1>5, <1>6, <1>7 DEF Terminate

(* An upload that lands, or raises, keeps the types.                       *)
LEMMA UploadStep ==
    ASSUME WellFormed, UploadAtomic
    PROVE  WellFormed'
<1>1. /\ NextJob \in Job /\ io' \in Io /\ orders' \in [given : Nat, taken : Nat]
  BY TakenTypes, HistoryTypes DEF UploadAtomic, Takes, WellFormed
<1>2. /\ srv \in Server!ServerState /\ host \in Host
      /\ left \in [Request \cup Fault -> Nat]
  BY DEF WellFormed, TypeOK
<1>3. /\ Plain("ErrorOccurred") \in Event
      /\ Plain("UploadPipelineComplete") \in Event
  BY EventTypes DEF EventKind
<1>4. UNCHANGED <<app, draining, events, dial, open, scene>>
  BY DEF UploadAtomic
<1>5. CASE worker' = IdleWorker /\ UNCHANGED <<srv, host, left>>
  BY <1>1, <1>2, <1>3, <1>4, <1>5, JobEnds, WorkerWrites
<1>6. CASE Raises(NextJob) /\ UNCHANGED <<srv, host, left>>
  BY <1>1, <1>2, <1>3, <1>4, <1>6, JobEnds, WorkerWrites DEF Raises
<1>7. CASE Spend("upload_fails") /\ Raises(NextJob) /\ UNCHANGED <<srv, host>>
  <2>1. left' \in [Request \cup Fault -> Nat]
    BY <1>7, SpendType DEF Fault, WellFormed
  <2> QED
    BY <1>1, <1>2, <1>3, <1>4, <1>7, <2>1, JobEnds, WorkerWrites DEF Raises
<1>8. CASE /\ host.minted < MaxUploads
           /\ LET u == host.minted + 1 IN
                /\ srv' = Server!UploadLanded(srv, u, u, u, TRUE, TRUE)
                /\ host' = [host EXCEPT !.minted = u]
           /\ Reports(NextJob, Plain("UploadPipelineComplete"))
           /\ UNCHANGED left
  <2> DEFINE u == host.minted + 1
  <2>1. u \in Upload
    BY <1>2, <1>8, BoundsAssumption DEF Host, Upload
  <2>2. /\ srv' = Server!UploadLanded(srv, u, u, u, TRUE, TRUE)
        /\ host' = [host EXCEPT !.minted = u]
    BY <1>8
  <2> HIDE DEF u
  <2>3. srv' \in Server!ServerState
    BY <1>2, <2>1, <2>2, Zeros, ServerTypes
  <2>4. host' \in Host
    BY <1>2, <2>1, <2>2 DEF Host
  <2> QED
    BY <1>1, <1>2, <1>3, <1>4, <1>8, <2>3, <2>4, JobEnds, WorkerWrites
<1> QED
  BY <1>5, <1>6, <1>7, <1>8 DEF UploadAtomic

(* A launch, a stop and a path check keep the types.                       *)
LEMMA ServerJobSteps ==
    ASSUME WellFormed, LaunchServer \/ StopServer \/ ValidatePath
    PROVE  WellFormed'
<1>1. /\ NextJob \in Job /\ io' \in Io /\ orders' \in [given : Nat, taken : Nat]
  BY TakenTypes, HistoryTypes
     DEF LaunchServer, StopServer, ValidatePath, Takes, WellFormed
<1>2. /\ srv \in Server!ServerState /\ host \in Host
      /\ left \in [Request \cup Fault -> Nat]
  BY DEF WellFormed, TypeOK
<1>3. /\ Plain("ErrorOccurred") \in Event /\ Plain("ServerLaunched") \in Event
      /\ Plain("ServerStopped") \in Event
  BY EventTypes DEF EventKind
<1>4. UNCHANGED <<app, draining, events, dial, open, scene>>
  BY DEF LaunchServer, StopServer, ValidatePath
<1>5. CASE LaunchServer
  <2>1. srv' \in Server!ServerState
    BY <1>2, <1>5, FromDiskType DEF LaunchServer, WellFormed
  <2>2. host' \in Host
    BY <1>2, <1>5, ZenonT(40) DEF LaunchServer, Host
  <2>3. worker' \in Worker /\ FetchWellFormed'
    BY <1>1, <1>3, <1>5, JobEnds DEF LaunchServer, Raises
  <2>4. left' \in [Request \cup Fault -> Nat]
    BY <1>2, <1>5 DEF LaunchServer
  <2> QED
    BY <1>1, <1>2, <1>4, <2>1, <2>2, <2>3, <2>4, WorkerWrites
<1>6. CASE StopServer
  <2>1. host' \in Host
    BY <1>2, <1>6, ZenonT(40) DEF StopServer, Host
  <2>2. worker' \in Worker /\ FetchWellFormed'
    BY <1>1, <1>3, <1>6, JobEnds DEF StopServer
  <2> QED
    BY <1>1, <1>2, <1>4, <1>6, <2>1, <2>2, WorkerWrites DEF StopServer
<1>7. CASE ValidatePath
  <2>1. left' \in [Request \cup Fault -> Nat]
    BY <1>2, <1>7, SpendType DEF ValidatePath, Fault, WellFormed
  <2>2. worker' \in Worker /\ FetchWellFormed'
    BY <1>1, <1>3, <1>7, JobEnds DEF ValidatePath
  <2> QED
    BY <1>1, <1>2, <1>4, <1>7, <2>1, <2>2, WorkerWrites DEF ValidatePath
<1> QED
  BY <1>5, <1>6, <1>7

(* A report and the poll after a command keep the types.                   *)
LEMMA ReportSteps ==
    ASSUME WellFormed, Report \/ AutoQuery
    PROVE  WellFormed'
<1>1. /\ worker \in Worker /\ io \in Io /\ srv \in Server!ServerState
      /\ host \in Host /\ left \in [Request \cup Fault -> Nat]
      /\ orders \in [given : Nat, taken : Nat]
  BY DEF WellFormed, TypeOK
<1>2. worker.job \in Job /\ worker.event \in Event
  BY <1>1 DEF Worker
<1>3. CASE Report
  <2>1. Plain("ConnectionLost") \in Event
    BY EventTypes DEF EventKind
  <2>2. events' \in Seq(Event) /\ events' # << >>
    BY <1>2, <1>3, <2>1, Enqueued DEF Report, Send, WellFormed
  <2>3. worker' \in Worker /\ FetchWellFormed'
    BY <1>2, <1>3, JobEnds DEF Report
  <2>4. [io EXCEPT !.cmds = << >>, !.poll = FALSE] \in Io
    <3>1. << >> \in Seq(Job)
      OBVIOUS
    <3> QED
      BY <1>1, <3>1 DEF Io
  <2>5. io' \in Io
    BY <1>1, <1>3, <2>4 DEF Report
  <2>6. orders' \in [given : Nat, taken : Nat]
    <3>1. Orders(io.cmds) \in Nat
      BY <1>1, OrdersType DEF Io
    <3> QED
      BY <1>1, <1>3, <3>1, HistoryTypes DEF Report, WellFormed
  <2> QED
    BY <1>3, <2>2, <2>3, <2>5, <2>6 DEF Report, WellFormed, TypeOK, QueueWellFormed
<1>4. CASE AutoQuery
  <2>1. Do("ping") \in Job
    BY JobTypes DEF JobKind
  <2>2. orders.taken \in Nat
    BY <1>1
  <2>3. /\ Polled(Answered(srv, orders.taken)) \in Event
        /\ Polled(Refused) \in Event
    BY <1>1, <2>2, AnswerTypes, EventTypes DEF WellFormed
  <2>4. worker' \in Worker /\ FetchWellFormed'
    BY <1>4, <2>1, <2>3, JobEnds DEF AutoQuery
  <2>5. left' \in [Request \cup Fault -> Nat]
    BY <1>1, <1>4, SpendType DEF AutoQuery, Fault, WellFormed
  <2> QED
    BY <1>1, <1>4, <2>4, <2>5, WorkerWrites DEF AutoQuery
<1> QED
  BY <1>3, <1>4
-----------------------------------------------------------------------------
(* Fetching                                                                *)

(* What a fetch may still take is a finite set of the scene's frames, no   *)
(* larger than the scene.                                                  *)
LEMMA FramesAreFinite ==
    ASSUME NEW s \in SUBSET (1 .. MaxFrame)
    PROVE  IsFiniteSet(s) /\ Cardinality(s) \in Nat /\ Cardinality(s) <= MaxFrame
<1>1. IsFiniteSet(1 .. MaxFrame) /\ Cardinality(1 .. MaxFrame) = MaxFrame
  BY BoundsAssumption, FS_Interval
<1>2. IsFiniteSet(s) /\ Cardinality(s) <= Cardinality(1 .. MaxFrame)
  BY <1>1, FS_Subset
<1> QED
  BY <1>1, <1>2, FS_CardinalityType

(* The beginning of a fetch keeps the types.                               *)
LEMMA FetchBeginSteps ==
    ASSUME WellFormed, FetchMap \/ FetchFramesBegin
    PROVE  WellFormed'
<1>1. /\ NextJob \in Job /\ Taken \in Io
      /\ orders' \in [given : Nat, taken : Nat]
  BY TakenTypes, HistoryTypes DEF FetchMap, FetchFramesBegin, Takes, WellFormed
<1>2. /\ srv' \in Server!ServerState /\ host' \in Host
      /\ left' \in [Request \cup Fault -> Nat]
  BY DEF WellFormed, TypeOK, FetchMap, FetchFramesBegin
<1>3. /\ Plain("FetchMapComplete") \in Event /\ Plain("FetchFailed") \in Event
      /\ Numbered("FetchComplete", 0) \in Event
  BY EventTypes, Zeros DEF EventKind
<1>4. UNCHANGED <<app, draining, events, dial, open, scene>>
  BY DEF FetchMap, FetchFramesBegin
<1>5. CASE FetchMap
  <2>1. worker' \in Worker /\ FetchWellFormed'
    BY <1>1, <1>3, <1>5, JobEnds DEF FetchMap
  <2> QED
    BY <1>1, <1>2, <1>4, <1>5, <2>1, WorkerWrites DEF FetchMap
<1>6. CASE FetchFramesBegin
  <2> DEFINE Begins(wanted) ==
        /\ worker' = [IdleWorker EXCEPT !.pc = "fetch", !.job = NextJob,
                                        !.todo = wanted]
        /\ io' = IF NextJob.latest THEN Taken
                 ELSE [Taken EXCEPT !.total = Cardinality(wanted), !.applied = 0]
  <2>1. CASE io' = Taken /\ ( \/ worker' = IdleWorker
                              \/ Reports(NextJob, Plain("FetchFailed"))
                              \/ FetchEndsWith(NextJob, Plain("FetchFailed"))
                              \/ FetchEndsWith(NextJob, Numbered("FetchComplete", 0)) )
    <3>1. worker' \in Worker /\ FetchWellFormed'
      BY <1>1, <1>3, <2>1, JobEnds
    <3> QED
      BY <1>1, <1>2, <1>4, <2>1, <3>1, WorkerWrites
  <2>2. ASSUME NEW wanted \in SUBSET (1 .. MaxFrame), Begins(wanted)
        PROVE  WellFormed'
    <3> DEFINE total == Cardinality(wanted)
    <3>1. total \in Nat /\ total <= MaxFrame
      BY FramesAreFinite
    <3>2. worker' \in Worker
      BY <1>1, <2>2, WorkerTypes
    <3>3. /\ worker'.pc = "fetch" /\ worker'.count = 0
          /\ worker'.todo = wanted
      BY <2>2 DEF IdleWorker
    <3>4. FetchWellFormed'
      BY <3>1, <3>3 DEF FetchWellFormed
    <3>5. io' = IF NextJob.latest THEN Taken
                ELSE [Taken EXCEPT !.total = total, !.applied = 0]
      BY <2>2
    <3> HIDE DEF total
    <3>6. io' \in Io
      BY <1>1, <3>1, <3>5 DEF Io
    <3> QED
      BY <1>1, <1>2, <1>4, <3>2, <3>4, <3>6, WorkerWrites
  <2>3. ASSUME NEW disk \in Frame
        PROVE  Wanted(NextJob, FrameCount(NextJob, disk)) \in SUBSET (1 .. MaxFrame)
                 \/ FrameCount(NextJob, disk) < 1
    <3>1. FrameCount(NextJob, disk) \in Frame /\ NextJob.latest \in BOOLEAN
      BY <1>1, <2>3 DEF FrameCount, Job
    <3> QED
      BY <3>1, BoundsAssumption DEF Wanted, Frame
  <2>4. \/ io' = Taken /\ ( \/ worker' = IdleWorker
                            \/ Reports(NextJob, Plain("FetchFailed"))
                            \/ FetchEndsWith(NextJob, Plain("FetchFailed"))
                            \/ FetchEndsWith(NextJob, Numbered("FetchComplete", 0)) )
        \/ \E disk \in Frame :
             /\ FrameCount(NextJob, disk) >= 1
             /\ Begins(Wanted(NextJob, FrameCount(NextJob, disk)))
    BY <1>6 DEF FetchFramesBegin
  <2>5. ASSUME NEW disk \in Frame, FrameCount(NextJob, disk) >= 1,
               Begins(Wanted(NextJob, FrameCount(NextJob, disk)))
        PROVE  WellFormed'
    <3>1. FrameCount(NextJob, disk) \in Frame
      BY <1>1 DEF FrameCount, Job
    <3>2. ~(FrameCount(NextJob, disk) < 1)
      BY <2>5, <3>1, BoundsAssumption DEF Frame
    <3>3. Wanted(NextJob, FrameCount(NextJob, disk)) \in SUBSET (1 .. MaxFrame)
      BY <2>3, <3>2
    <3> HIDE DEF Begins
    <3> QED
      BY <2>2, <2>5, <3>3
  <2> HIDE DEF Begins
  <2> QED
    BY <2>1, <2>4, <2>5
<1> QED
  BY <1>5, <1>6

(* The download loop keeps the types, and never has more frames to count   *)
(* than the scene.                                                         *)
LEMMA FetchLoopSteps ==
    ASSUME WellFormed,
           Download \/ FetchFramesEnd \/ AppendFrame \/ DownloadInterrupted
    PROVE  WellFormed'
<1>1. /\ worker \in Worker /\ io \in Io /\ host \in Host
      /\ worker.job \in Job /\ worker.count \in Frame
      /\ worker.todo \in SUBSET (1 .. MaxFrame) /\ worker.next \in Frame
      /\ worker.data \in RunId
  BY DEF WellFormed, TypeOK, Worker
<1>2. /\ srv' \in Server!ServerState /\ host' \in Host
      /\ left' \in [Request \cup Fault -> Nat]
      /\ orders' \in [given : Nat, taken : Nat]
      /\ UNCHANGED <<app, draining, events, dial, open, scene>>
  BY DEF WellFormed, TypeOK, Download, FetchFramesEnd, AppendFrame,
         DownloadInterrupted
<1>3. /\ Plain("FetchFailed") \in Event
      /\ Numbered("FetchComplete", worker.count) \in Event
  BY <1>1, EventTypes DEF EventKind
<1>4. CASE /\ \/ FetchEndsWith(worker.job, Plain("FetchFailed"))
              \/ FetchEndsWith(worker.job, Numbered("FetchComplete", worker.count))
           /\ UNCHANGED io
  <2>1. worker' \in Worker /\ FetchWellFormed'
    BY <1>1, <1>3, <1>4, JobEnds
  <2> QED
    BY <1>1, <1>2, <1>4, <2>1, WorkerWrites
<1>5. CASE /\ worker.pc = "fetch" /\ UNCHANGED io
           /\ \E n \in worker.todo :
                worker' = [worker EXCEPT !.pc = "append", !.next = n,
                                         !.data = host.out[n]]
  <2>1. PICK n \in worker.todo :
           worker' = [worker EXCEPT !.pc = "append", !.next = n,
                                    !.data = host.out[n]]
    BY <1>5
  <2>2. n \in 1 .. MaxFrame /\ n \in Frame /\ host.out[n] \in RunId
    BY <1>1, BoundsAssumption DEF Frame, Host, Output
  <2>3. worker' \in Worker
    BY <1>1, <2>1, <2>2 DEF Worker
  <2>4. /\ worker'.pc = "append" /\ worker'.next = n
        /\ worker'.todo = worker.todo /\ worker'.count = worker.count
    BY <1>1, <2>1 DEF Worker
  <2>5. FetchWellFormed'
    BY <1>5, <2>4 DEF FetchWellFormed, WellFormed
  <2> QED
    BY <1>1, <1>2, <1>5, <2>3, <2>5, WorkerWrites
<1>6. CASE worker.pc = "append" /\ OneFrameDone /\ io' = Buffered
  <2> DEFINE c == worker.count + 1
             rest == worker.todo \ {worker.next}
  <2>1. /\ worker.next \in worker.todo
        /\ worker.count + Cardinality(worker.todo) <= MaxFrame
    BY <1>6 DEF FetchWellFormed, WellFormed
  <2>2. /\ Cardinality(rest) = Cardinality(worker.todo) - 1
        /\ Cardinality(worker.todo) \in Nat /\ Cardinality(rest) \in Nat
    <3>1. IsFiniteSet(worker.todo) /\ Cardinality(worker.todo) \in Nat
      BY <1>1, FramesAreFinite
    <3>2. IsFiniteSet(rest) /\ Cardinality(rest) = Cardinality(worker.todo) - 1
      BY <2>1, <3>1, FS_RemoveElement
    <3> QED
      BY <3>1, <3>2, FS_CardinalityType
  <2>3. c \in Frame /\ c + Cardinality(rest) <= MaxFrame
    BY <1>1, <2>1, <2>2, BoundsAssumption DEF Frame
  <2>4. rest \in SUBSET (1 .. MaxFrame)
    BY <1>1
  <2>5. 0 \in RunId
    BY ClientAssumption DEF RunId
  <2>6. worker' = [worker EXCEPT !.pc = "fetch", !.next = 0, !.data = 0,
                                 !.count = c, !.todo = rest]
    BY <1>6 DEF OneFrameDone
  <2> HIDE DEF c, rest
  <2>7. worker' \in Worker
    BY <1>1, <2>3, <2>4, <2>5, <2>6, Zeros DEF Worker
  <2>8. worker'.pc = "fetch" /\ worker'.count = c /\ worker'.todo = rest
    BY <1>1, <2>6 DEF Worker
  <2>9. FetchWellFormed'
    BY <2>3, <2>8 DEF FetchWellFormed
  <2>10. io' \in Io
    <3> DEFINE item == [n |-> worker.next, of |-> worker.data]
               frames == Append(io.frames, item)
               fetched == io.fetched \cup {worker.next}
    <3>1. item \in Pending
      BY <1>1, <2>1 DEF Pending
    <3>2. io.frames \in Seq(Pending) /\ io.fetched \in SUBSET (1 .. MaxFrame)
      BY <1>1 DEF Io
    <3> HIDE DEF item
    <3>3. frames \in Seq(Pending)
      BY <3>1, <3>2, AppendProperties
    <3>4. fetched \in SUBSET (1 .. MaxFrame)
      BY <1>1, <2>1, <3>2
    <3>5. io' = [io EXCEPT !.frames = frames, !.fetched = fetched]
      BY <1>6 DEF Buffered, item
    <3> HIDE DEF frames, fetched
    <3> QED
      BY <1>1, <3>3, <3>4, <3>5 DEF Io
  <2> QED
    BY <1>1, <1>2, <2>7, <2>9, <2>10, WorkerWrites
<1>7. \/ /\ \/ FetchEndsWith(worker.job, Plain("FetchFailed"))
            \/ FetchEndsWith(worker.job, Numbered("FetchComplete", worker.count))
         /\ UNCHANGED io
      \/ /\ worker.pc = "fetch" /\ UNCHANGED io
         /\ \E n \in worker.todo :
              worker' = [worker EXCEPT !.pc = "append", !.next = n,
                                       !.data = host.out[n]]
      \/ worker.pc = "append" /\ OneFrameDone /\ io' = Buffered
  <2>1. CASE Download
    BY <2>1 DEF Download
  <2>2. CASE FetchFramesEnd
    BY <2>2 DEF FetchFramesEnd
  <2>3. CASE AppendFrame
    BY <2>3 DEF AppendFrame, HandOver
  <2>4. CASE DownloadInterrupted
    BY <2>4 DEF DownloadInterrupted
  <2> QED
    BY <2>1, <2>2, <2>3, <2>4
<1> QED
  BY <1>4, <1>5, <1>6, <1>7

-----------------------------------------------------------------------------
(* Connection attempts and the environment                                 *)

(* A connection attempt keeps the types.                                   *)
LEMMA AttemptSteps ==
    ASSUME WellFormed, NEW t \in Ticket, Attempt(t)
    PROVE  WellFormed'
<1>1. /\ io \in Io /\ dial \in [Ticket -> Dial] /\ open \subseteq Ticket
      /\ events \in Seq(Event) /\ left \in [Request \cup Fault -> Nat]
  BY DEF WellFormed, TypeOK
<1>2. "over" \in Dial /\ "probing" \in Dial
  BY DEF Dial
<1>3. Plain("ConnectionFailed") \in Event /\ Plain("Connected") \in Event
  BY EventTypes DEF EventKind
<1>4. dial' \in [Ticket -> Dial]
  BY <1>1, <1>2
     DEF Attempt, ConnectOpens, AdoptBackend, ConnectFails, ConnectReports
<1>5. open' \subseteq Ticket
  BY <1>1 DEF Attempt, ConnectOpens, AdoptBackend, ConnectFails, ConnectReports
<1>6. io' \in Io
  <2>1. [io EXCEPT !.backend = t] \in Io
    BY <1>1 DEF Io
  <2> QED
    BY <1>1, <2>1
       DEF Attempt, ConnectOpens, AdoptBackend, ConnectFails, ConnectReports
<1>7. events' \in Seq(Event) /\ (events' = events \/ events' # << >>)
  BY <1>1, <1>3, Enqueued
     DEF Attempt, ConnectOpens, ConnectFails, ConnectReports, Send, WellFormed
<1>8. left' \in [Request \cup Fault -> Nat]
  BY <1>1, SpendType
     DEF Attempt, ConnectOpens, ConnectFails, ConnectReports, Fault, WellFormed
<1>9. UNCHANGED <<app, draining, worker, scene, srv, host, orders>>
  BY DEF Attempt, ConnectOpens, ConnectFails, ConnectReports
<1> QED
  BY <1>4, <1>5, <1>6, <1>7, <1>8, <1>9
     DEF WellFormed, TypeOK, QueueWellFormed, FetchWellFormed

(* A step outside the add-on keeps the types.                              *)
LEMMA OutsideWrites ==
    ASSUME WellFormed, io' \in Io, open' \subseteq Ticket,
           srv' \in Server!ServerState, host' \in Host,
           left' \in [Request \cup Fault -> Nat],
           UNCHANGED <<app, draining, events, worker, dial, scene, orders>>
    PROVE  WellFormed'
BY DEF WellFormed, TypeOK, QueueWellFormed, FetchWellFormed

(* The build and the solver keep the types.                                *)
LEMMA ServerRunSteps ==
    ASSUME WellFormed, BuildEnds \/ SolverRun \/ SolverCrashes
    PROVE  WellFormed'
<1>1. /\ io' \in Io /\ open' \subseteq Ticket
      /\ UNCHANGED <<app, draining, events, worker, dial, scene, orders>>
  BY DEF WellFormed, TypeOK, BuildEnds, SolverRun, SolverBoots, SolverAdvances,
         SolverFinishes, SolverCrashes
<1>2. /\ srv \in Server!ServerState /\ host \in Host
      /\ left \in [Request \cup Fault -> Nat]
  BY DEF WellFormed, TypeOK
<1>3. left' \in [Request \cup Fault -> Nat]
  BY <1>2, SpendType
     DEF BuildEnds, SolverRun, SolverBoots, SolverAdvances, SolverFinishes,
         SolverCrashes, Fault, WellFormed
<1>4. /\ Server!BuildCompleted(srv, 0) \in Server!ServerState
      /\ Server!BuildFailed(srv, 0) \in Server!ServerState
      /\ Server!BuildCancelledEvent(srv) \in Server!ServerState
      /\ Server!SolverInitialized(srv) \in Server!ServerState
      /\ \A f \in Frame : Server!SolverFrameUpdated(srv, f) \in Server!ServerState
      /\ \A b \in BOOLEAN : Server!SolverFinished(srv, b) \in Server!ServerState
      /\ Server!SolverCrashed(srv, "panic", 0) \in Server!ServerState
  BY <1>2, Zeros, ServerTypes
<1>5. CASE BuildEnds
  <2>1. srv' \in Server!ServerState
    BY <1>4, <1>5 DEF BuildEnds
  <2>2. host' \in Host
    <3>1. [host EXCEPT !.cancel = FALSE] \in Host
      BY <1>2 DEF Host
    <3> QED
      BY <1>5, <3>1, HostTypes DEF BuildEnds, WellFormed
  <2> QED
    BY <1>1, <1>3, <2>1, <2>2, OutsideWrites
<1>6. CASE SolverBoots
  <2>1. srv' \in Server!ServerState
    BY <1>4, <1>6 DEF SolverBoots
  <2> DEFINE out == [n \in 1 .. MaxFrame |->
                       IF n <= host.from THEN host.out[n] ELSE 0]
  <2>2. out \in Output
    <3>1. 0 \in RunId
      BY ClientAssumption DEF RunId
    <3>2. \A n \in 1 .. MaxFrame : host.out[n] \in RunId
      <4>1. host.out \in Output
        BY <1>2 DEF Host
      <4> QED
        BY <4>1 DEF Output
    <3> QED
      BY <3>1, <3>2 DEF Output
  <2>3. \/ host' = NoFiles(host)
        \/ host' = [host EXCEPT !.boot = "no", !.out = out]
    BY <1>6 DEF SolverBoots
  <2> HIDE DEF out
  <2>4. [host EXCEPT !.boot = "no", !.out = out] \in Host
    BY <1>2, <2>2 DEF Host
  <2>5. host' \in Host
    BY <2>3, <2>4, HostTypes DEF WellFormed
  <2> QED
    BY <1>1, <1>3, <2>1, <2>5, OutsideWrites
<1>7. CASE SolverAdvances
  <2> DEFINE n == host.at + 1
  <2>1. n \in 1 .. MaxFrame /\ n \in Frame
    BY <1>2, <1>7, BoundsAssumption DEF SolverAdvances, Host, Frame
  <2>2. /\ host' = [host EXCEPT !.at = n, !.out[n] = host.runs]
        /\ srv' = Server!SolverFrameUpdated(srv, n)
    BY <1>7 DEF SolverAdvances
  <2> HIDE DEF n
  <2>3. srv' \in Server!ServerState
    BY <1>4, <2>1, <2>2
  <2> DEFINE out == [host.out EXCEPT ![n] = host.runs]
  <2>4. out \in Output
    BY <1>2 DEF Host, Output
  <2>5. host' = [host EXCEPT !.at = n, !.out = out]
    BY <2>2
  <2> HIDE DEF out
  <2>6. host' \in Host
    BY <1>2, <2>1, <2>4, <2>5 DEF Host
  <2> QED
    BY <1>1, <1>3, <2>3, <2>6, OutsideWrites
<1>8. CASE SolverFinishes
  <2>1. srv' \in Server!ServerState
    <3> DEFINE b == host.saved # 0
    <3>1. b \in BOOLEAN
      OBVIOUS
    <3>2. srv' = Server!SolverFinished(srv, b)
      BY <1>8 DEF SolverFinishes
    <3> HIDE DEF b
    <3> QED
      BY <1>4, <3>1, <3>2
  <2>2. host' \in Host
    BY <1>2, <1>8 DEF SolverFinishes
  <2> QED
    BY <1>1, <1>3, <2>1, <2>2, OutsideWrites
<1>9. CASE SolverCrashes
  <2>1. srv' \in Server!ServerState
    BY <1>4, <1>9 DEF SolverCrashes
  <2>2. host' \in Host
    BY <1>2, <1>9 DEF SolverCrashes, Host
  <2> QED
    BY <1>1, <1>3, <2>1, <2>2, OutsideWrites
<1> QED
  BY <1>5, <1>6, <1>7, <1>8, <1>9 DEF SolverRun

(* A server that ends, a transport that drops and a ping keep the types.   *)
LEMMA LinkFaultSteps ==
    ASSUME WellFormed, ServerDies \/ TransportDrops \/ Ping
    PROVE  WellFormed'
<1>1. /\ io \in Io /\ open \subseteq Ticket /\ srv' \in Server!ServerState
      /\ host \in Host /\ left \in [Request \cup Fault -> Nat]
      /\ UNCHANGED <<app, draining, events, worker, dial, scene, orders>>
  BY DEF WellFormed, TypeOK, ServerDies, TransportDrops, Ping
<1>2. host' \in Host
  BY <1>1 DEF ServerDies, TransportDrops, Ping, Host
<1>3. io' \in Io
  BY <1>1 DEF ServerDies, TransportDrops, Ping, Io
<1>4. left' \in [Request \cup Fault -> Nat]
  BY <1>1, SpendType DEF ServerDies, TransportDrops, Ping, Fault, WellFormed
<1>5. open' \subseteq Ticket
  BY <1>1 DEF ServerDies, TransportDrops, Ping
<1> QED
  BY <1>1, <1>2, <1>3, <1>4, <1>5, OutsideWrites

-----------------------------------------------------------------------------
(* The theorem                                                             *)

(* A session begins well formed.                                           *)
LEMMA InitWellFormed == Init => WellFormed
<1> SUFFICES ASSUME Init PROVE WellFormed
  OBVIOUS
<1>1. PICK x \in Sessions :
        /\ app = x.app /\ srv = x.srv /\ host = x.host /\ left = x.left
        /\ scene = [applied |-> x.applied, prior |-> 0]
  BY DEF Init
<1>2. x \in SessionType
  BY ClientAssumption
<1>3. /\ app \in AppState /\ srv \in Server!ServerState /\ host \in Host
      /\ left \in [Request \cup Fault -> Nat] /\ scene \in Scene
  BY <1>1, <1>2, ClientAssumption DEF SessionType, Scene, RunId
<1>4. /\ events = << >> /\ draining = FALSE /\ worker = IdleWorker
      /\ open \subseteq Ticket /\ orders = [given |-> 0, taken |-> 0]
  BY ClientAssumption DEF Init, Ticket
<1>5. dial \in [Ticket -> Dial]
  BY DEF Init, Dial
<1>6. io \in Io
  <2>1. << >> \in Seq(Pending) /\ << >> \in Seq(Job)
    OBVIOUS
  <2>2. PICK t \in {0, 1} :
          io = [interrupt |-> FALSE, gen |-> 0, fetched |-> {},
                frames |-> << >>, total |-> 0, applied |-> 0,
                cmds |-> << >>, poll |-> FALSE, backend |-> t, epoch |-> t]
    BY DEF Init
  <2>3. t \in {0} \cup Ticket /\ t \in Nat
    BY ClientAssumption DEF Ticket
  <2> QED
    BY <2>1, <2>2, <2>3 DEF Io
<1>7. events \in Seq(Event) /\ draining \in BOOLEAN /\ QueueWellFormed
  <2>1. << >> \in Seq(Event)
    OBVIOUS
  <2> QED
    BY <1>4, <2>1 DEF QueueWellFormed
<1>8. worker \in Worker /\ FetchWellFormed
  BY <1>4, WorkerTypes DEF FetchWellFormed, IdleWorker
<1>9. orders \in [given : Nat, taken : Nat]
  BY <1>4
<1> QED
  BY <1>3, <1>4, <1>5, <1>6, <1>7, <1>8, <1>9 DEF WellFormed, TypeOK

(* Every step keeps a state well formed.                                   *)
LEMMA StepWellFormed == WellFormed /\ [Next]_vars => WellFormed'
<1> SUFFICES ASSUME WellFormed, [Next]_vars PROVE WellFormed'
  OBVIOUS
<1>1. CASE User
  BY <1>1, UserSteps
<1>2. CASE MainThread
  BY <1>2, DrainStep, TimerSteps DEF MainThread
<1>3. CASE IoWorker
  BY <1>3, QueryStep, TerminateStep, UploadStep, ServerJobSteps,
     FetchBeginSteps, FetchLoopSteps, ReportSteps DEF IoWorker
<1>4. CASE \E t \in Ticket : Attempt(t)
  BY <1>4, AttemptSteps
<1>5. CASE SolverRun \/ Environment
  BY <1>5, ServerRunSteps, LinkFaultSteps DEF Environment
<1>6. CASE UNCHANGED vars
  BY <1>6 DEF vars, WellFormed, TypeOK, QueueWellFormed, FetchWellFormed
<1> QED
  BY <1>1, <1>2, <1>3, <1>4, <1>5, <1>6 DEF Next

(* Every variable stays in its range, whatever the sessions: the poll      *)
(* guard never runs below zero, and a download never counts more frames    *)
(* than the scene has.                                                     *)
THEOREM WellFormedAlways == Spec => []WellFormed
BY InitWellFormed, StepWellFormed, PTL DEF Spec

(* TypeOK for every session, scene length, number of uploads, runs,        *)
(* tickets and every queue length.                                         *)
THEOREM AddonTypeCorrect == Spec => []TypeOK
<1>1. WellFormed => TypeOK
  BY DEF WellFormed
<1> QED
  BY <1>1, WellFormedAlways, PTL
=============================================================================
