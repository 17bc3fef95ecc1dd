-------------------------- MODULE AddonLinks_proof --------------------------
(***************************************************************************)
(* Connection attempts and disconnects, for any number of tickets and of   *)
(* events that wait: as long as no transport drops of itself, none is left *)
(* open behind the add-on's back, and the attempt that may still report is *)
(* the one it waits for.                                                   *)
(*                                                                         *)
(* Neither invariant is inductive.  A ticket is current from the transition*)
(* that starts its attempt until another connect or disconnect is carried  *)
(* out; meanwhile events wait in the queue that were sent under another    *)
(* ticket.  LinkInv says which of them can: a report of a failure or of a  *)
(* connection never waits next to an attempt that is under way, nor in     *)
(* front of or behind a connect, since a connect is only offered once the  *)
(* queue of an OFFLINE add-on has been drained.                            *)
(***************************************************************************)
EXTENDS AddonClient_proof

Waits(kind) == \E i \in 1 .. Len(events) : events[i].kind = kind

ConnectionEvents ==
    {"ConnectRequested", "Connected", "ConnectionFailed",
     "DisconnectRequested", "ConnectionLost"}

\* No transport will drop of itself.
NoDrops == left["drop"] = 0

BackendIsOpen == io.backend # 0 => io.backend \in open
LaterTicketsUnused == \A t \in Ticket : t > io.epoch => dial[t] = "unused"

\* Nothing that could end the wait for the current attempt is waiting.
CurrentAttempt ==
    \A t \in Ticket :
      IsCurrent(t) /\ dial[t] \in {"dialing", "probing"} =>
        /\ app.phase = "CONNECTING"
        /\ io.backend = IF dial[t] = "dialing" THEN 0 ELSE t
        /\ ~Waits("Connected") /\ ~Waits("ConnectionFailed")
        /\ ~Waits("ConnectRequested")

OfflineIsUnlinked ==
    app.phase = "OFFLINE" \/ Waits("ConnectionFailed") => io.backend = 0

\* A connect that waits will find the add-on OFFLINE.
ConnectIsGranted ==
    Waits("ConnectRequested") =>
      /\ draining /\ app.phase = "OFFLINE"
      /\ ~Waits("Connected") /\ ~Waits("ConnectionFailed")

ConnectsAlone ==
    \A i, j \in 1 .. Len(events) :
      events[i].kind = "ConnectRequested" /\ events[j].kind = "ConnectRequested"
        => i = j

OfflineIsQuiet ==
    app.phase = "OFFLINE" /\ ~draining =>
      ~Waits("Connected") /\ ~Waits("ConnectionFailed")

NothingIsLost ==
    ~Waits("ConnectionLost") /\ worker.event.kind \notin ConnectionEvents

LinkInv ==
    /\ NoDrops /\ BackendIsOpen /\ NoStrayTransport /\ LaterTicketsUnused
    /\ CurrentAttempt /\ OfflineIsUnlinked /\ ConnectIsGranted
    /\ ConnectsAlone /\ OfflineIsQuiet /\ NothingIsLost

-----------------------------------------------------------------------------
(* The queue                                                               *)

(* What waits after an event has joined the queue.                         *)
LEMMA AfterAppend ==
    ASSUME TypeOK, NEW e \in Event, events' = Append(events, e)
    PROVE  /\ \A k : Waits(k)' <=> Waits(k) \/ e.kind = k
           /\ /\ ConnectsAlone
              /\ e.kind = "ConnectRequested" => ~Waits("ConnectRequested")
              => ConnectsAlone'
<1>1. events \in Seq(Event) /\ Len(events) \in Nat
  BY DEF TypeOK
<1>2. /\ Len(events') = Len(events) + 1
      /\ \A i \in 1 .. Len(events) : events'[i] = events[i]
      /\ events'[Len(events) + 1] = e
  BY <1>1, AppendProperties
<1>3. ASSUME NEW k
      PROVE  Waits(k)' <=> Waits(k) \/ e.kind = k
  BY <1>1, <1>2 DEF Waits
<1>4. ASSUME ConnectsAlone,
             e.kind = "ConnectRequested" => ~Waits("ConnectRequested")
      PROVE  ConnectsAlone'
  BY <1>1, <1>2, <1>4 DEF ConnectsAlone, Waits
<1> QED
  BY <1>3, <1>4

(* What waits after the head of the queue has been taken.                  *)
LEMMA AfterTail ==
    ASSUME TypeOK, events # << >>, events' = Tail(events)
    PROVE  /\ \A k : Waits(k)' => Waits(k)
           /\ Waits(Head(events).kind)
           /\ ConnectsAlone => ConnectsAlone'
           /\ ConnectsAlone /\ Head(events).kind = "ConnectRequested"
                => ~Waits("ConnectRequested")'
           /\ events' = << >> => \A k : ~Waits(k)'
<1>1. events \in Seq(Event) /\ Len(events) \in Nat /\ Len(events) > 0
      /\ Head(events) = events[1]
  BY DEF TypeOK
<1>2. /\ Len(events') = Len(events) - 1
      /\ \A i \in 1 .. Len(events') : events'[i] = events[i + 1]
  BY <1>1, HeadTailProperties
<1>3. ASSUME NEW k, Waits(k)'
      PROVE  Waits(k)
  <2>1. PICK i \in 1 .. Len(events') : events'[i].kind = k
    BY <1>3 DEF Waits
  <2>2. i + 1 \in 1 .. Len(events) /\ events[i + 1].kind = k
    BY <1>1, <1>2, <2>1
  <2> QED
    BY <2>2 DEF Waits
<1>4. Waits(Head(events).kind)
  BY <1>1 DEF Waits
<1>5. ASSUME ConnectsAlone
      PROVE  ConnectsAlone'
  <2> SUFFICES ASSUME NEW i \in 1 .. Len(events'), NEW j \in 1 .. Len(events'),
                      events'[i].kind = "ConnectRequested",
                      events'[j].kind = "ConnectRequested"
               PROVE  i = j
    BY DEF ConnectsAlone
  <2>1. /\ i + 1 \in 1 .. Len(events) /\ j + 1 \in 1 .. Len(events)
        /\ events[i + 1].kind = "ConnectRequested"
        /\ events[j + 1].kind = "ConnectRequested"
    BY <1>1, <1>2
  <2>2. i + 1 = j + 1
    BY <1>5, <2>1 DEF ConnectsAlone
  <2> QED
    BY <1>1, <1>2, <2>2
<1>6. ASSUME ConnectsAlone, Head(events).kind = "ConnectRequested",
             Waits("ConnectRequested")'
      PROVE  FALSE
  <2>1. PICK i \in 1 .. Len(events') : events'[i].kind = "ConnectRequested"
    BY <1>6 DEF Waits
  <2>2. /\ i + 1 \in 1 .. Len(events) /\ 1 \in 1 .. Len(events) /\ i + 1 # 1
        /\ events[i + 1].kind = "ConnectRequested"
        /\ events[1].kind = "ConnectRequested"
    BY <1>1, <1>2, <1>6, <2>1
  <2> QED
    BY <1>6, <2>2 DEF ConnectsAlone
<1>7. ASSUME events' = << >>, NEW k
      PROVE  ~Waits(k)'
  <2>1. 1 .. Len(events') = {}
    <3>1. << >> \in Seq(Event) /\ Len(<< >>) = 0
      BY EmptySeq
    <3> QED
      BY <1>7, <3>1
  <2> QED
    BY <2>1 DEF Waits
<1> QED
  BY <1>3, <1>4, <1>5, <1>6, <1>7

(* The kind of an event that a thread makes.                               *)
LEMMA EventKinds ==
    /\ \A k : Plain(k).kind = k
    /\ \A k, n : Numbered(k, n).kind = k
    /\ \A r : Polled(r).kind = "ServerPolled"
BY DEF Plain, Numbered, Polled

-----------------------------------------------------------------------------
(* What an event does to the connection                                    *)

(* Only connection events move the phase or the connection.                *)
LEMMA OtherEventsKeepTheLink ==
    ASSUME NEW s \in AppState, NEW e \in Event, e.kind \notin ConnectionEvents
    PROVE  /\ Transition(s, e).app.phase = s.phase
           /\ Transition(s, e).fx.link = "keep"
<1> DEFINE Kept(o) == o.app.phase = s.phase /\ o.fx.link = "keep"
<1>1. /\ NoEffects.link = "keep" /\ Poll.link = "keep"
      /\ ClearAnimation.link = "keep" /\ \A js : Jobs(js).link = "keep"
      /\ [NoEffects EXCEPT !.interrupt = "clear"].link = "keep"
      /\ [ClearAnimation EXCEPT !.interrupt = "set"].link = "keep"
      /\ \A js : [Jobs(js) EXCEPT !.interrupt = "clear"].link = "keep"
      /\ \A js : [Jobs(js) EXCEPT !.interrupt = "clear",
                                  !.buffer = "clear"].link = "keep"
  BY DEF NoEffects, Poll, ClearAnimation, Jobs
<1>2. e.kind \in EventKind /\ e.response \in Response
  BY DEF Event
<1>3. ServerGone(s).phase = s.phase /\ ErrorOccurred(s).app.phase = s.phase
  BY DEF ServerGone, ErrorOccurred, Handled, AppState
<1>4. ASSUME NEW v, NEW a
      PROVE  /\ [s EXCEPT !.server = v].phase = s.phase
             /\ [s EXCEPT !.activity = a].phase = s.phase
             /\ [s EXCEPT !.version_ok = v].phase = s.phase
             /\ [s EXCEPT !.server = v, !.version_ok = a].phase = s.phase
  BY DEF AppState
<1>5. ASSUME NEW a, NEW b
      PROVE  /\ [s EXCEPT !.activity = a, !.pending_build = b].phase = s.phase
             /\ [s EXCEPT !.activity = a, !.solver = "BUILDING",
                          !.active_upload_id = 0].phase = s.phase
             /\ [s EXCEPT !.activity = a, !.solver = "BUILDING",
                          !.active_upload_id = 0,
                          !.pending_build = b].phase = s.phase
  BY DEF AppState
<1>6. Starting(s).phase = s.phase
  BY DEF Starting, AppState
<1>7. /\ Kept(StartServerRequested(s)) /\ Kept(ServerLaunched(s))
      /\ Kept(StopServerRequested(s)) /\ Kept(ServerStopped(s))
      /\ Kept(ServerLost(s))
  BY <1>1, <1>3, <1>4
     DEF StartServerRequested, ServerLaunched, StopServerRequested,
         ServerStopped, ServerLost, Ignored, Handled
<1>8. /\ Kept(PollTick(s)) /\ Kept(BuildRequested(s))
      /\ Kept(BuildPipelineRequested(s)) /\ Kept(UploadOnlyRequested(s))
      /\ Kept(UploadPipelineComplete(s))
  <2>1. Kept(PollTick(s)) /\ Kept(UploadPipelineComplete(s))
    BY <1>1, <1>4, <1>5 DEF PollTick, UploadPipelineComplete, Ignored, Handled
  <2>2. /\ Kept(BuildRequested(s)) /\ Kept(BuildPipelineRequested(s))
        /\ Kept(UploadOnlyRequested(s))
    BY <1>1, <1>4, <1>5
       DEF BuildRequested, BuildPipelineRequested, UploadOnlyRequested, Ignored,
           Handled
  <2> QED
    BY <2>1, <2>2
<1>9. /\ Kept(RunRequested(s)) /\ Kept(ResumeRequested(s, e.number))
      /\ Kept(TerminateRequested(s)) /\ Kept(AbortRequested(s))
  <2>1. Kept(RunRequested(s)) /\ Kept(ResumeRequested(s, e.number))
    BY <1>1, <1>6 DEF RunRequested, ResumeRequested, Ignored, Handled
  <2>2. Kept(TerminateRequested(s)) /\ Kept(AbortRequested(s))
    BY <1>1, <1>4, <1>5 DEF TerminateRequested, AbortRequested, Ignored, Handled
  <2> QED
    BY <2>1, <2>2
<1>10. /\ Kept(FetchRequested(s)) /\ Kept(FetchMapComplete(s))
       /\ Kept(FetchComplete(s, e.number)) /\ Kept(AllFramesApplied(s))
       /\ Kept(FetchFailed(s)) /\ Kept(QueryRequested(s))
  BY <1>1, <1>4
     DEF FetchRequested, FetchMapComplete, FetchComplete, AllFramesApplied,
         FetchFailed, QueryRequested, Ignored, Handled
<1>11. Kept(ErrorOccurred(s))
  BY <1>1, <1>3 DEF ErrorOccurred, Handled
<1>12. Kept(ServerPolled(s, e.response))
  <2> DEFINE r == e.response
  <2>1. ASSUME NEW solver, NEW frame
        PROVE  Kept(ReadAs(s, r, solver, frame))
    <3> DEFINE w == WithAnswer(s, r, solver, frame)
    <3>1. /\ w.phase = s.phase
          /\ [w EXCEPT !.activity = "IDLE", !.active_upload_id = 0].phase
                 = s.phase
      BY DEF WithAnswer, AppState
    <3> QED
      BY <1>1, <3>1 DEF ReadAs, Handled
  <2>2. ASSUME NEW u
        PROVE  [s EXCEPT !.server = "RUNNING", !.version_ok = TRUE,
                         !.server_upload_id = u].phase = s.phase
    BY DEF AppState
  <2>3. Kept(Interpret(s, r)) /\ Interpret(s, r).app \in AppState
    <3>1. Interpret(s, r).app \in AppState
      BY <1>2, InterpretType DEF Outcome
    <3>2. r.kind \in {"empty", "mismatch", "error", "status"}
      BY <1>2 DEF Response
    <3> QED
      BY <1>1, <1>3, <1>4, <2>1, <2>2, <3>1, <3>2
         DEF Interpret, InterpretStatus, Handled
  <2>4. ASSUME NEW read, read.app \in AppState, Kept(read)
        PROVE  Kept(Concluded(s, read))
    <3>1. /\ [read.app EXCEPT !.activity = "IDLE"].phase = read.app.phase
          /\ [read.app EXCEPT !.activity = "IDLE",
                              !.active_upload_id = 0].phase = read.app.phase
      BY <2>4 DEF AppState
    <3> QED
      BY <2>4, <3>1 DEF Concluded, Handled
  <2> QED
    BY <2>3, <2>4 DEF ServerPolled
<1> HIDE DEF Kept
<1>13. Kept(Transition(s, e))
  BY <1>2, <1>7, <1>8, <1>9, <1>10, <1>11, <1>12
     DEF Transition, EventKind, ConnectionEvents
<1> QED
  BY <1>13 DEF Kept

(* The connection events themselves.                                       *)
LEMMA ConnectionEventsLink ==
    ASSUME NEW s \in AppState, NEW e \in Event
    PROVE  LET o == Transition(s, e) IN
           /\ e.kind = "ConnectRequested" /\ s.phase = "OFFLINE" =>
                o.app.phase = "CONNECTING" /\ o.fx.link = "connect"
           /\ e.kind = "Connected" =>
                o.app.phase = "ONLINE" /\ o.fx.link = "keep"
           /\ e.kind = "ConnectionFailed" =>
                o.app.phase = "OFFLINE" /\ o.fx.link = "keep"
           /\ e.kind = "DisconnectRequested" =>
                o.app.phase = "OFFLINE" /\ o.fx.link = "disconnect"
<1>1. CASE e.kind = "ConnectRequested"
  BY <1>1 DEF Transition, ConnectRequested, Handled, NoEffects, AppState
<1>2. CASE e.kind = "Connected"
  BY <1>2 DEF Transition, Connected, Handled, Poll, NoEffects, AppState
<1>3. CASE e.kind = "ConnectionFailed"
  BY <1>3 DEF Transition, ConnectionFailed, Handled, NoEffects, AppState
<1>4. CASE e.kind = "DisconnectRequested"
  BY <1>4 DEF Transition, DisconnectRequested, Handled, Offline,
              ClearAnimation, NoEffects
<1> QED
  BY <1>1, <1>2, <1>3, <1>4

(* Where the runner's effects leave the backend and the ticket.            *)
LEMMA EffectsLink ==
    ASSUME NEW r \in Io, NEW fx \in Effects
    PROVE  LET q == Linked(fx, Submitted(fx, Buffer(fx, r))) IN
           /\ fx.link = "keep" => q.backend = r.backend /\ q.epoch = r.epoch
           /\ fx.link = "connect" => q.backend = r.backend /\ q.epoch = r.epoch + 1
           /\ fx.link = "disconnect" => q.backend = 0 /\ q.epoch = r.epoch + 1
<1> DEFINE m == Submitted(fx, Buffer(fx, r))
<1>1. Buffer(fx, r) \in Io /\ m \in Io
  BY IoTypes
<1>2. Buffer(fx, r).backend = r.backend /\ Buffer(fx, r).epoch = r.epoch
  BY DEF Buffer, Cleared, Io
<1>3. m.backend = r.backend /\ m.epoch = r.epoch
  BY <1>1, <1>2 DEF Submitted, Io
<1> HIDE DEF m
<1>4. [m EXCEPT !.epoch = @ + 1].epoch = m.epoch + 1
      /\ [m EXCEPT !.epoch = @ + 1].backend = m.backend
  BY <1>1 DEF Io
<1>5. Disconnected(m).backend = 0 /\ Disconnected(m).epoch = m.epoch + 1
  BY <1>1 DEF Disconnected, Cleared, Reassigned, Io
<1>6. /\ fx.link = "keep" => Linked(fx, m) = m
      /\ fx.link = "connect" => Linked(fx, m) = [m EXCEPT !.epoch = @ + 1]
      /\ fx.link = "disconnect" => Linked(fx, m) = Disconnected(m)
  BY DEF Linked
<1> QED
  BY <1>3, <1>4, <1>5, <1>6 DEF m
-----------------------------------------------------------------------------
(* Steps that leave connections alone                                      *)

\* What may join the queue at any time.
Quiet(e) == e.kind \notin ConnectionEvents \/ e.kind = "DisconnectRequested"

(* A step that moves neither the phase, the backend, the ticket nor an     *)
(* attempt, and sends no report of one, keeps the invariant.               *)
LEMMA QuietStep ==
    ASSUME TypeOK, LinkInv, app'.phase = app.phase,
           io'.backend = io.backend, io'.epoch = io.epoch,
           UNCHANGED <<dial, open>>, left'["drop"] = 0,
           worker'.event.kind \notin ConnectionEvents,
           draining => draining', draining' \in BOOLEAN,
           \/ events' = events
           \/ \E e \in Event : Quiet(e) /\ events' = Append(events, e)
    PROVE  LinkInv'
<1>1. /\ \A k \in {"ConnectRequested", "Connected", "ConnectionFailed",
                   "ConnectionLost"} : Waits(k)' <=> Waits(k)
      /\ ConnectsAlone'
  <2>1. CASE events' = events
    BY <2>1 DEF Waits, ConnectsAlone, LinkInv
  <2>2. ASSUME NEW e \in Event, Quiet(e), events' = Append(events, e)
        PROVE  <1>1
    BY <2>2, AfterAppend DEF Quiet, ConnectionEvents, LinkInv
  <2> QED
    BY <2>1, <2>2
<1>2. NoDrops' /\ BackendIsOpen' /\ NoStrayTransport' /\ LaterTicketsUnused'
  BY DEF LinkInv, NoDrops, BackendIsOpen, NoStrayTransport, LaterTicketsUnused
<1>3. CurrentAttempt' /\ OfflineIsUnlinked'
  BY <1>1 DEF LinkInv, CurrentAttempt, OfflineIsUnlinked, IsCurrent
<1>4. ConnectIsGranted' /\ OfflineIsQuiet'
  BY <1>1 DEF LinkInv, ConnectIsGranted, OfflineIsQuiet
<1>5. NothingIsLost'
  BY <1>1 DEF LinkInv, NothingIsLost
<1> QED
  BY <1>1, <1>2, <1>3, <1>4, <1>5 DEF LinkInv

(* Every other token leaves the drops alone.                               *)
LEMMA OtherTokens ==
    ASSUME TypeOK, LinkInv, NEW t \in Request \cup Fault, t # "drop", Spend(t)
    PROVE  left'["drop"] = 0
<1>1. left \in [Request \cup Fault -> Nat] /\ left["drop"] = 0
  BY DEF TypeOK, LinkInv, NoDrops
<1>2. "drop" \in Request \cup Fault
  BY DEF Fault
<1> QED
  BY <1>1, <1>2 DEF Spend

(* Timers, and what the user asks but a connect, leave connections alone.  *)
LEMMA QuietMainThread ==
    ASSUME WellFormed, LinkInv,
           \/ PersistentTick \/ Watchdog \/ Stall \/ Pump
           \/ AskRun \/ AskResume \/ AskFetch \/ AskAbort
    PROVE  LinkInv'
<1>1. /\ TypeOK /\ io \in Io /\ host.saved \in Frame
      /\ left["drop"] = 0 /\ worker.event.kind \notin ConnectionEvents
  BY DEF WellFormed, TypeOK, Host, LinkInv, NoDrops, NothingIsLost
<1>2. /\ UNCHANGED <<app, worker, dial, open>>
      /\ (draining => draining') /\ draining' \in BOOLEAN
  BY <1>1
     DEF TypeOK, PersistentTick, Watchdog, Stall, Pump, AskRun, AskResume,
         AskFetch, AskAbort, AsksWith, Dispatch
<1>3. left'["drop"] = 0
  BY <1>1, OtherTokens
     DEF PersistentTick, Watchdog, Stall, Pump, AskRun, AskResume, AskFetch,
         AskAbort, AsksWith, Request, Fault
<1>4. io'.backend = io.backend /\ io'.epoch = io.epoch
  <2>1. CASE Pump
    BY <1>1, <2>1 DEF Pump, Io
  <2>2. CASE AskRun \/ AskResume \/ AskFetch \/ AskAbort
    BY <1>1, <2>2 DEF AskRun, AskResume, AskFetch, AskAbort, Reassigned, Io
  <2>3. CASE PersistentTick \/ Watchdog \/ Stall
    BY <2>3 DEF PersistentTick, Watchdog, Stall
  <2> QED
    BY <2>1, <2>2, <2>3
<1>5. \A k \in {"PollTick", "FetchFailed", "AllFramesApplied", "RunRequested",
                "FetchRequested", "AbortRequested"} :
         Plain(k) \in Event /\ Quiet(Plain(k))
  BY EventTypes, EventKinds DEF EventKind, Quiet, ConnectionEvents
<1>6. /\ Numbered("ResumeRequested", host.saved) \in Event
      /\ Quiet(Numbered("ResumeRequested", host.saved))
  BY <1>1, EventTypes, EventKinds DEF EventKind, Quiet, ConnectionEvents
<1>7. \/ events' = events
      \/ \E e \in Event : Quiet(e) /\ events' = Append(events, e)
  <2>1. CASE PersistentTick \/ Watchdog \/ Stall \/ Pump
    BY <1>5, <2>1 DEF PersistentTick, Watchdog, Stall, Pump, Dispatch, Post
  <2>2. CASE AskRun \/ AskResume \/ AskFetch \/ AskAbort
    BY <1>5, <1>6, <2>2
       DEF AskRun, AskResume, AskFetch, AskAbort, AsksWith, Dispatch
  <2> QED
    BY <2>1, <2>2
<1> QED
  BY <1>1, <1>2, <1>3, <1>4, <1>7, QuietStep

(* A connect is asked for while OFFLINE and not draining, when no report   *)
(* of an attempt waits; other plain requests leave connections alone.      *)
LEMMA JustAskLink ==
    ASSUME WellFormed, LinkInv, JustAsk
    PROVE  LinkInv'
<1>1. /\ TypeOK /\ left["drop"] = 0 /\ worker.event.kind \notin ConnectionEvents
      /\ UNCHANGED <<app, io, worker, dial, open>> /\ draining' = TRUE /\ ~draining
  BY DEF WellFormed, LinkInv, NoDrops, NothingIsLost, JustAsk, AsksWith, Dispatch
<1>2. PICK r \in Request \ {"run", "resume", "fetch", "abort"} :
         AsksWith(r, Plain(RequestEvent[r]))
  BY DEF JustAsk
<1>3. left'["drop"] = 0
  BY <1>1, <1>2, OtherTokens DEF AsksWith, Request
<1>4. /\ Plain(RequestEvent[r]) \in Event
      /\ events' = Append(events, Plain(RequestEvent[r]))
  BY <1>2, EventTypes DEF AsksWith, Dispatch, Request, RequestEvent, EventKind
<1>5. CASE r # "connect"
  <2>1. Quiet(Plain(RequestEvent[r]))
    BY <1>2, <1>5, EventKinds DEF Quiet, ConnectionEvents, Request, RequestEvent
  <2> QED
    BY <1>1, <1>3, <1>4, <2>1, QuietStep
<1>6. CASE r = "connect"
  <2>1. app.phase = "OFFLINE"
    BY <1>2, <1>6 DEF AsksWith, Offered
  <2>2. Plain(RequestEvent[r]).kind = "ConnectRequested"
    BY <1>6, EventKinds DEF RequestEvent
  <2>3. ~Waits("ConnectRequested") /\ ~Waits("Connected")
        /\ ~Waits("ConnectionFailed")
    BY <1>1, <2>1 DEF LinkInv, ConnectIsGranted, OfflineIsQuiet
  <2>4. /\ ~Waits("Connected")' /\ ~Waits("ConnectionFailed")'
        /\ ~Waits("ConnectionLost")' /\ ConnectsAlone'
    BY <1>1, <1>4, <2>2, <2>3, AfterAppend DEF LinkInv, NothingIsLost
  <2>5. NoDrops' /\ BackendIsOpen' /\ NoStrayTransport' /\ LaterTicketsUnused'
    BY <1>1, <1>3
       DEF LinkInv, NoDrops, BackendIsOpen, NoStrayTransport, LaterTicketsUnused
  <2>6. CurrentAttempt' /\ OfflineIsUnlinked'
    BY <1>1, <2>1, <2>4 DEF LinkInv, CurrentAttempt, OfflineIsUnlinked, IsCurrent
  <2>7. ConnectIsGranted' /\ OfflineIsQuiet' /\ NothingIsLost'
    BY <1>1, <2>1, <2>4 DEF ConnectIsGranted, OfflineIsQuiet, NothingIsLost
  <2> QED
    BY <2>4, <2>5, <2>6, <2>7 DEF LinkInv
<1> QED
  BY <1>5, <1>6

(* What the worker does leaves connections alone: it would only report a   *)
(* lost one if the transport that is published were closed.                *)
LEMMA WorkerLink ==
    ASSUME WellFormed, LinkInv, IoWorker
    PROVE  LinkInv'
<1>1. /\ TypeOK /\ io \in Io /\ Taken \in Io /\ worker \in Worker
      /\ left["drop"] = 0 /\ worker.event.kind \notin ConnectionEvents
  BY TakenTypes DEF WellFormed, TypeOK, LinkInv, NoDrops, NothingIsLost
<1>2. /\ UNCHANGED <<app, draining, dial, open>> /\ draining \in BOOLEAN
  BY <1>1
     DEF TypeOK, IoWorker, Query, Terminate, UploadAtomic, LaunchServer,
         StopServer, ValidatePath, FetchMap, FetchFramesBegin, Download,
         FetchFramesEnd, AppendFrame, DownloadInterrupted, Report, AutoQuery
<1>3. left'["drop"] = 0
  BY <1>1, OtherTokens
     DEF IoWorker, Query, Terminate, UploadAtomic, LaunchServer,
         StopServer, ValidatePath, FetchMap, FetchFramesBegin, Download,
         FetchFramesEnd, AppendFrame, DownloadInterrupted, Report, AutoQuery,
         Fault
<1>4. Taken.backend = io.backend /\ Taken.epoch = io.epoch
  BY <1>1 DEF Taken, Io
<1>5. io'.backend = io.backend /\ io'.epoch = io.epoch
  <2>1. CASE \/ Query \/ Terminate \/ UploadAtomic \/ LaunchServer
             \/ StopServer \/ ValidatePath \/ FetchMap
    BY <1>4, <2>1
       DEF Query, Terminate, UploadAtomic, LaunchServer, StopServer,
           ValidatePath, FetchMap
  <2>2. CASE FetchFramesBegin
    <3>1. ASSUME NEW n
          PROVE  /\ [Taken EXCEPT !.total = n, !.applied = 0].backend = io.backend
                 /\ [Taken EXCEPT !.total = n, !.applied = 0].epoch = io.epoch
      BY <1>1, <1>4 DEF Io
    <3> QED
      BY <1>4, <2>2, <3>1 DEF FetchFramesBegin
  <2>3. CASE Download \/ FetchFramesEnd \/ DownloadInterrupted \/ AutoQuery
    BY <2>3 DEF Download, FetchFramesEnd, DownloadInterrupted, AutoQuery
  <2>4. CASE AppendFrame
    BY <1>1, <2>4 DEF AppendFrame, HandOver, Buffered, Io
  <2>5. CASE Report
    BY <1>1, <2>5 DEF Report, Io
  <2> QED
    BY <2>1, <2>2, <2>3, <2>4, <2>5 DEF IoWorker
<1>6. worker'.event.kind \notin ConnectionEvents
  <2>1. /\ IdleWorker.event.kind \notin ConnectionEvents
        /\ \A j : Ends(j) => worker'.event.kind \notin ConnectionEvents
    <3>1. Plain("PollTick").kind \notin ConnectionEvents
      BY EventKinds DEF ConnectionEvents
    <3>2. IdleWorker.event = Plain("PollTick")
      BY DEF IdleWorker
    <3>3. \A j : Ends(j) => worker'.event = Plain("PollTick")
      BY DEF Ends, IdleWorker
    <3> QED
      BY <3>1, <3>2, <3>3
  <2>2. /\ \A j, e : Reports(j, e) => worker'.event = e
        /\ \A j, e : FetchEndsWith(j, e) /\ e.kind \notin ConnectionEvents
                       => worker'.event.kind \notin ConnectionEvents
    <3>1. \A j, e : Reports(j, e) => worker'.event = e
      BY DEF Reports, IdleWorker
    <3> QED
      BY <2>1, <3>1 DEF FetchEndsWith
  <2>3. \A k \in {"ServerLost", "ErrorOccurred", "UploadPipelineComplete",
                  "ServerLaunched", "ServerStopped", "FetchMapComplete",
                  "FetchFailed"} : Plain(k).kind \notin ConnectionEvents
    BY EventKinds DEF ConnectionEvents
  <2>4. /\ \A n : Numbered("FetchComplete", n).kind \notin ConnectionEvents
        /\ \A r : Polled(r).kind \notin ConnectionEvents
    BY EventKinds DEF ConnectionEvents
  <2>5. CASE Query \/ Terminate
    BY <2>1, <2>2, <2>3, <2>4, <2>5 DEF Query, Terminate
  <2>6. CASE UploadAtomic \/ LaunchServer \/ StopServer \/ ValidatePath
    BY <2>1, <2>2, <2>3, <2>6
       DEF UploadAtomic, LaunchServer, StopServer, ValidatePath, Raises
  <2>7. CASE FetchMap
    BY <2>2, <2>3, <2>7 DEF FetchMap
  <2>8. CASE FetchFramesBegin
    <3>1. ASSUME NEW j, NEW todo
          PROVE  [IdleWorker EXCEPT !.pc = "fetch", !.job = j,
                                    !.todo = todo].event = IdleWorker.event
      BY DEF IdleWorker
    <3>2. \/ worker' = IdleWorker
          \/ Reports(NextJob, Plain("FetchFailed"))
          \/ FetchEndsWith(NextJob, Plain("FetchFailed"))
          \/ FetchEndsWith(NextJob, Numbered("FetchComplete", 0))
          \/ \E todo : worker' = [IdleWorker EXCEPT !.pc = "fetch",
                                     !.job = NextJob, !.todo = todo]
      BY <2>8 DEF FetchFramesBegin
    <3>3. ASSUME NEW todo, worker' = [IdleWorker EXCEPT !.pc = "fetch",
                                        !.job = NextJob, !.todo = todo]
          PROVE  worker'.event.kind \notin ConnectionEvents
      <4>1. worker'.event = IdleWorker.event
        BY <3>1, <3>3
      <4> QED
        BY <2>1, <4>1
    <3>4. CASE \/ worker' = IdleWorker
               \/ Reports(NextJob, Plain("FetchFailed"))
               \/ FetchEndsWith(NextJob, Plain("FetchFailed"))
               \/ FetchEndsWith(NextJob, Numbered("FetchComplete", 0))
      BY <2>1, <2>2, <2>3, <2>4, <3>4
    <3> QED
      BY <3>2, <3>3, <3>4
  <2>9. CASE Download
    <3>1. ASSUME NEW n, NEW d
          PROVE  [worker EXCEPT !.pc = "append", !.next = n,
                                !.data = d].event = worker.event
      BY <1>1 DEF Worker
    <3>2. \/ FetchEndsWith(worker.job, Plain("FetchFailed"))
          \/ \E n \in worker.todo :
               worker' = [worker EXCEPT !.pc = "append", !.next = n,
                                        !.data = host.out[n]]
      BY <2>9 DEF Download
    <3>3. CASE FetchEndsWith(worker.job, Plain("FetchFailed"))
      BY <2>2, <2>3, <3>3
    <3>4. ASSUME NEW n \in worker.todo,
                 worker' = [worker EXCEPT !.pc = "append", !.next = n,
                                          !.data = host.out[n]]
          PROVE  worker'.event = worker.event
      BY <3>1, <3>4
    <3> QED
      BY <1>1, <3>2, <3>3, <3>4
  <2>10. CASE FetchFramesEnd \/ DownloadInterrupted
    BY <2>2, <2>3, <2>4, <2>10 DEF FetchFramesEnd, DownloadInterrupted
  <2>11. CASE AppendFrame
    <3>1. OneFrameDone => worker'.event = worker.event
      BY <1>1 DEF OneFrameDone, Worker
    <3> QED
      BY <1>1, <2>2, <2>3, <2>11, <3>1 DEF AppendFrame, HandOver
  <2>12. CASE Report \/ AutoQuery
    BY <2>1, <2>2, <2>4, <2>12 DEF Report, AutoQuery
  <2> QED
    BY <2>5, <2>6, <2>7, <2>8, <2>9, <2>10, <2>11, <2>12 DEF IoWorker
<1>7. \/ events' = events
      \/ \E e \in Event : Quiet(e) /\ events' = Append(events, e)
  <2>1. CASE Report
    <3>1. ~ConnectionIsLost
      BY DEF ConnectionIsLost, LinkInv, BackendIsOpen
    <3>2. worker.event \in Event /\ Quiet(worker.event)
      BY <1>1 DEF Worker, Quiet
    <3> QED
      BY <2>1, <3>1, <3>2 DEF Report, Send
  <2>2. CASE ~Report
    BY <2>2
       DEF IoWorker, Query, Terminate, UploadAtomic, LaunchServer,
           StopServer, ValidatePath, FetchMap, FetchFramesBegin, Download,
           FetchFramesEnd, AppendFrame, DownloadInterrupted, AutoQuery
  <2> QED
    BY <2>1, <2>2
<1> QED
  BY <1>1, <1>2, <1>3, <1>5, <1>6, <1>7, QuietStep
(* The build, the solver and the server's end leave connections alone; a   *)
(* transport that drops is excluded.                                       *)
LEMMA OutsideLink ==
    ASSUME WellFormed, LinkInv, SolverRun \/ Environment
    PROVE  LinkInv'
<1>1. /\ TypeOK /\ io \in Io /\ draining \in BOOLEAN
      /\ left["drop"] = 0 /\ worker.event.kind \notin ConnectionEvents
  BY DEF WellFormed, TypeOK, LinkInv, NoDrops, NothingIsLost
<1>2. ~TransportDrops
  BY <1>1 DEF TransportDrops, Spend
<1>3. UNCHANGED <<app, draining, events, worker, dial, open>>
  BY <1>2
     DEF SolverRun, SolverBoots, SolverAdvances, SolverFinishes, Environment,
         BuildEnds, SolverCrashes, ServerDies, Ping
<1>4. left'["drop"] = 0
  BY <1>1, <1>2, OtherTokens
     DEF SolverRun, SolverBoots, SolverAdvances, SolverFinishes, Environment,
         BuildEnds, SolverCrashes, ServerDies, Ping, Fault
<1>5. io'.backend = io.backend /\ io'.epoch = io.epoch
  <2>1. [io EXCEPT !.poll = TRUE].backend = io.backend
        /\ [io EXCEPT !.poll = TRUE].epoch = io.epoch
    BY <1>1 DEF Io
  <2> QED
    BY <1>2, <2>1
       DEF SolverRun, SolverBoots, SolverAdvances, SolverFinishes, Environment,
           BuildEnds, SolverCrashes, ServerDies, Ping
<1> QED
  BY <1>1, <1>3, <1>4, <1>5, QuietStep

-----------------------------------------------------------------------------
(* The drain                                                               *)

(* An event that is taken with its effects keeps the invariant.            *)
LEMMA DrainLink ==
    ASSUME WellFormed, LinkInv, Drain
    PROVE  LinkInv'
<1> DEFINE e == Head(events)
           o == Transition(app, e)
<1>1. /\ TypeOK /\ app \in AppState /\ io \in Io /\ io.epoch \in Nat
      /\ events \in Seq(Event) /\ events # << >> /\ draining
      /\ dial \in [Ticket -> Dial] /\ open \subseteq Ticket
      /\ \A t \in Ticket : t \in Nat /\ t # 0
  <2>1. TypeOK /\ io.epoch \in Nat
    BY DEF WellFormed, TypeOK, QueueWellFormed, Io
  <2>2. events # << >> /\ draining
    BY DEF Drain, WellFormed, QueueWellFormed
  <2>3. \A t \in Ticket : t \in Nat /\ t # 0
    BY DEF Ticket
  <2> QED
    BY <2>1, <2>2, <2>3 DEF TypeOK
<1>2. e \in Event
  BY <1>1, HeadTailProperties
<1>3. o.app \in AppState /\ o.fx \in Effects
  <2>1. Transition(app, e) \in Outcome
    BY <1>1, <1>2, TransitionType
  <2> QED
    BY <2>1 DEF Outcome
<1>4. Carried(o) /\ events' = Tail(events) /\ worker' = worker /\ left' = left
  BY DEF Drain
<1>5. draining' \/ events' = << >>
  BY <1>4 DEF Drain
<1>6. /\ \A k : Waits(k)' => Waits(k)
      /\ Waits(e.kind) /\ ConnectsAlone'
      /\ e.kind = "ConnectRequested" => ~Waits("ConnectRequested")'
      /\ events' = << >> => \A k : ~Waits(k)'
  BY <1>1, <1>4, AfterTail DEF LinkInv
<1>7. /\ app' = o.app
      /\ o.fx.link = "keep" => /\ io'.backend = io.backend /\ io'.epoch = io.epoch
                               /\ dial' = dial /\ open' = open
      /\ o.fx.link = "connect" =>
           /\ io'.backend = io.backend /\ io'.epoch = io.epoch + 1
           /\ dial' = [dial EXCEPT ![io.epoch + 1] = "dialing"] /\ open' = open
      /\ o.fx.link = "disconnect" =>
           /\ io'.backend = 0 /\ io'.epoch = io.epoch + 1
           /\ dial' = dial /\ open' = open \ {io.backend}
  <2>1. LET q == Linked(o.fx, Submitted(o.fx, Buffer(o.fx, io))) IN
        /\ o.fx.link = "keep" => q.backend = io.backend /\ q.epoch = io.epoch
        /\ o.fx.link = "connect" => q.backend = io.backend /\ q.epoch = io.epoch + 1
        /\ o.fx.link = "disconnect" => q.backend = 0 /\ q.epoch = io.epoch + 1
    BY <1>1, <1>3, EffectsLink
  <2> HIDE DEF o
  <2> QED
    BY <1>4, <2>1 DEF Carried
<1>8. NoDrops' /\ NothingIsLost'
  BY <1>4, <1>6 DEF LinkInv, NoDrops, NothingIsLost
<1>9. CASE e.kind \notin ConnectionEvents
  <2>1. o.app.phase = app.phase /\ o.fx.link = "keep"
    BY <1>1, <1>2, <1>9, OtherEventsKeepTheLink
  <2> HIDE DEF o, e
  <2>2. BackendIsOpen' /\ NoStrayTransport' /\ LaterTicketsUnused'
    BY <1>7, <2>1
       DEF LinkInv, BackendIsOpen, NoStrayTransport, LaterTicketsUnused
  <2>3. CurrentAttempt' /\ OfflineIsUnlinked'
    BY <1>6, <1>7, <2>1 DEF LinkInv, CurrentAttempt, OfflineIsUnlinked, IsCurrent
  <2>4. ConnectIsGranted' /\ OfflineIsQuiet'
    BY <1>5, <1>6, <1>7, <2>1 DEF LinkInv, ConnectIsGranted, OfflineIsQuiet
  <2> QED
    BY <1>6, <1>8, <2>2, <2>3, <2>4 DEF LinkInv
<1>10. CASE e.kind = "ConnectRequested"
  <2>1. /\ app.phase = "OFFLINE" /\ io.backend = 0
        /\ ~Waits("Connected") /\ ~Waits("ConnectionFailed")
    BY <1>6, <1>10 DEF LinkInv, ConnectIsGranted, OfflineIsUnlinked
  <2>2. o.app.phase = "CONNECTING" /\ o.fx.link = "connect"
    BY <1>1, <1>2, <1>10, <2>1, ConnectionEventsLink
  <2>3. /\ ~Waits("Connected")' /\ ~Waits("ConnectionFailed")'
        /\ ~Waits("ConnectRequested")'
    BY <1>6, <1>10, <2>1
  <2> HIDE DEF o, e
  <2> DEFINE new == io.epoch + 1
  <2>4. /\ app'.phase = "CONNECTING" /\ io'.backend = 0 /\ io'.epoch = new
        /\ open' = open /\ dial' = [dial EXCEPT ![new] = "dialing"]
    BY <1>7, <2>1, <2>2
  <2>5. /\ new \in Nat /\ new > io.epoch
        /\ \A t \in Ticket : t > new => t > io.epoch /\ t # new
    BY <1>1
  <2>6. new \in Ticket => dial[new] = "unused"
    BY <2>5 DEF LinkInv, LaterTicketsUnused
  <2> HIDE DEF new
  <2>7. \A t \in Ticket : t # new => dial'[t] = dial[t]
    BY <1>1, <2>4
  <2>8. BackendIsOpen' /\ OfflineIsUnlinked'
    BY <2>4 DEF BackendIsOpen, OfflineIsUnlinked
  <2>9. NoStrayTransport'
    <3> SUFFICES ASSUME NEW t \in open' PROVE io'.backend = t \/ dial'[t] = "probing"
      BY DEF NoStrayTransport
    <3>1. t \in Ticket /\ dial[t] = "probing"
      BY <1>1, <2>1, <2>4 DEF LinkInv, NoStrayTransport
    <3>2. t # new
      BY <2>6, <3>1
    <3> QED
      BY <2>7, <3>1, <3>2
  <2>10. LaterTicketsUnused'
    BY <2>4, <2>5, <2>7 DEF LinkInv, LaterTicketsUnused
  <2>11. CurrentAttempt'
    BY <1>1, <2>3, <2>4 DEF CurrentAttempt, IsCurrent
  <2>12. ConnectIsGranted' /\ OfflineIsQuiet'
    BY <2>3, <2>4 DEF ConnectIsGranted, OfflineIsQuiet
  <2> QED
    BY <1>6, <1>8, <2>8, <2>9, <2>10, <2>11, <2>12 DEF LinkInv
<1>11. CASE e.kind \in {"Connected", "ConnectionFailed"}
  <2>1. /\ o.fx.link = "keep"
        /\ e.kind = "Connected" => o.app.phase = "ONLINE"
        /\ e.kind = "ConnectionFailed" => o.app.phase = "OFFLINE"
    BY <1>1, <1>2, <1>11, ConnectionEventsLink
  <2>2. /\ e.kind = "Connected" => Waits("Connected")
        /\ e.kind = "ConnectionFailed" => Waits("ConnectionFailed")
    BY <1>6
  <2> HIDE DEF o, e
  <2>3. /\ UNCHANGED <<dial, open>> /\ io'.backend = io.backend
        /\ io'.epoch = io.epoch
        /\ e.kind = "Connected" => app'.phase = "ONLINE"
        /\ e.kind = "ConnectionFailed" => app'.phase = "OFFLINE"
    BY <1>7, <2>1
  <2>4. BackendIsOpen' /\ NoStrayTransport' /\ LaterTicketsUnused'
    BY <2>3 DEF LinkInv, BackendIsOpen, NoStrayTransport, LaterTicketsUnused
  <2>5. CurrentAttempt'
    BY <1>11, <2>2, <2>3 DEF LinkInv, CurrentAttempt, IsCurrent
  <2>6. OfflineIsUnlinked'
    BY <1>6, <1>11, <2>2, <2>3 DEF LinkInv, OfflineIsUnlinked
  <2>7. ConnectIsGranted'
    BY <1>6, <1>11, <2>2 DEF LinkInv, ConnectIsGranted
  <2>8. OfflineIsQuiet'
    BY <1>5, <1>6 DEF OfflineIsQuiet
  <2> QED
    BY <1>6, <1>8, <2>4, <2>5, <2>6, <2>7, <2>8 DEF LinkInv
<1>12. CASE e.kind = "DisconnectRequested"
  <2>1. o.app.phase = "OFFLINE" /\ o.fx.link = "disconnect"
    BY <1>1, <1>2, <1>12, ConnectionEventsLink
  <2> HIDE DEF o, e
  <2> DEFINE new == io.epoch + 1
  <2>2. /\ app'.phase = "OFFLINE" /\ io'.backend = 0 /\ io'.epoch = new
        /\ dial' = dial /\ open' = open \ {io.backend}
    BY <1>7, <2>1
  <2>3. /\ \A t \in Ticket : t > new => t > io.epoch
        /\ \A t \in Ticket : t = new => t > io.epoch
    BY <1>1
  <2> HIDE DEF new
  <2>4. BackendIsOpen' /\ NoStrayTransport' /\ OfflineIsUnlinked'
    BY <2>2 DEF LinkInv, BackendIsOpen, NoStrayTransport, OfflineIsUnlinked
  <2>5. LaterTicketsUnused'
    BY <2>2, <2>3 DEF LinkInv, LaterTicketsUnused
  <2>6. CurrentAttempt'
    BY <2>2, <2>3 DEF LinkInv, LaterTicketsUnused, CurrentAttempt, IsCurrent
  <2>7. ConnectIsGranted' /\ OfflineIsQuiet'
    BY <1>5, <1>6, <2>2 DEF LinkInv, ConnectIsGranted, OfflineIsQuiet
  <2> QED
    BY <1>6, <1>8, <2>4, <2>5, <2>6, <2>7 DEF LinkInv
<1>13. e.kind # "ConnectionLost"
  BY <1>6 DEF LinkInv, NothingIsLost
<1> QED
  BY <1>9, <1>10, <1>11, <1>12, <1>13 DEF ConnectionEvents

-----------------------------------------------------------------------------
(* Attempts                                                                *)

(* An attempt's transport is published under its own ticket, over no other *)
(* one, or not at all.                                                     *)
LEMMA OpensLink ==
    ASSUME WellFormed, LinkInv, NEW t \in Ticket, ConnectOpens(t)
    PROVE  LinkInv'
<1>1. /\ io \in Io /\ io.epoch \in Nat /\ dial \in [Ticket -> Dial]
      /\ open \subseteq Ticket /\ \A u \in Ticket : u \in Nat /\ u # 0
  BY DEF WellFormed, TypeOK, Io, Ticket
<1>2. /\ dial[t] = "dialing" /\ events' = events /\ app' = app
      /\ draining' = draining /\ worker' = worker /\ left' = left
  BY DEF ConnectOpens
<1>3. /\ \A k : Waits(k)' <=> Waits(k)
      /\ ConnectsAlone' /\ NoDrops' /\ NothingIsLost'
      /\ ConnectIsGranted' /\ OfflineIsQuiet'
  BY <1>2 DEF LinkInv, Waits, ConnectsAlone, NoDrops, NothingIsLost,
              ConnectIsGranted, OfflineIsQuiet
<1>4. CASE IsCurrent(t)
  <2>1. /\ io' = [io EXCEPT !.backend = t] /\ open' = open \cup {t}
        /\ dial' = [dial EXCEPT ![t] = "probing"]
    BY <1>4 DEF ConnectOpens, AdoptBackend
  <2>2. io'.backend = t /\ io'.epoch = io.epoch /\ t = io.epoch
    BY <1>1, <1>4, <2>1 DEF Io, IsCurrent
  <2>3. /\ app.phase = "CONNECTING" /\ io.backend = 0 /\ ~Waits("Connected")
        /\ ~Waits("ConnectionFailed") /\ ~Waits("ConnectRequested")
    BY <1>2, <1>4 DEF LinkInv, CurrentAttempt
  <2>4. BackendIsOpen' /\ OfflineIsUnlinked'
    BY <1>2, <1>3, <2>1, <2>2, <2>3 DEF BackendIsOpen, OfflineIsUnlinked
  <2>5. NoStrayTransport'
    BY <1>1, <2>1, <2>2, <2>3 DEF LinkInv, NoStrayTransport
  <2>6. LaterTicketsUnused'
    BY <1>1, <2>1, <2>2 DEF LinkInv, LaterTicketsUnused
  <2>7. CurrentAttempt'
    BY <1>1, <1>2, <1>3, <2>1, <2>2, <2>3 DEF CurrentAttempt, IsCurrent
  <2> QED
    BY <1>3, <2>4, <2>5, <2>6, <2>7 DEF LinkInv
<1>5. CASE ~IsCurrent(t)
  <2>1. UNCHANGED <<io, open>> /\ dial' = [dial EXCEPT ![t] = "over"]
    BY <1>5 DEF ConnectOpens, AdoptBackend
  <2>2. BackendIsOpen' /\ OfflineIsUnlinked'
    BY <1>2, <1>3, <2>1 DEF LinkInv, BackendIsOpen, OfflineIsUnlinked
  <2>3. NoStrayTransport'
    BY <1>1, <1>2, <2>1 DEF LinkInv, NoStrayTransport
  <2>4. LaterTicketsUnused'
    BY <1>1, <1>2, <2>1 DEF LinkInv, LaterTicketsUnused
  <2>5. CurrentAttempt'
    BY <1>1, <1>2, <1>3, <1>5, <2>1 DEF LinkInv, CurrentAttempt, IsCurrent
  <2> QED
    BY <1>3, <2>2, <2>3, <2>4, <2>5 DEF LinkInv
<1> QED
  BY <1>4, <1>5

(* An attempt that is over, for whatever reason, sends at most the report  *)
(* that the add-on waits for.                                              *)
LEMMA EndsLink ==
    ASSUME WellFormed, LinkInv, NEW t \in Ticket,
           ConnectFails(t) \/ ConnectReports(t)
    PROVE  LinkInv'
<1>1. /\ TypeOK /\ io \in Io /\ io.epoch \in Nat /\ dial \in [Ticket -> Dial]
      /\ open \subseteq Ticket /\ \A u \in Ticket : u \in Nat /\ u # 0
  BY DEF WellFormed, TypeOK, Io, Ticket
<1>2. /\ dial[t] \in {"dialing", "probing"}
      /\ dial' = [dial EXCEPT ![t] = "over"]
      /\ UNCHANGED <<app, draining, io, worker>>
  BY DEF ConnectFails, ConnectReports
<1>3. left'["drop"] = 0
  <2>1. left["drop"] = 0
    BY DEF LinkInv, NoDrops
  <2> QED
    BY <1>1, <2>1, OtherTokens DEF ConnectFails, ConnectReports, Fault
<1>4. IsCurrent(t) =>
        /\ app.phase = "CONNECTING"
        /\ io.backend = IF dial[t] = "dialing" THEN 0 ELSE t
        /\ ~Waits("Connected") /\ ~Waits("ConnectionFailed")
        /\ ~Waits("ConnectRequested")
  BY <1>2 DEF LinkInv, CurrentAttempt
<1>5. \/ events' = events
      \/ /\ IsCurrent(t) /\ dial[t] = "dialing"
         /\ events' = Append(events, Plain("ConnectionFailed"))
      \/ /\ IsCurrent(t) /\ events' = Append(events, Plain("Connected"))
  BY DEF ConnectFails, ConnectReports, FailureIsWanted, Send
<1>6. /\ \A k \in {"ConnectRequested", "ConnectionLost"} : Waits(k)' <=> Waits(k)
      /\ ConnectsAlone'
      /\ Waits("Connected")' => Waits("Connected") \/ IsCurrent(t)
      /\ Waits("ConnectionFailed")' =>
           Waits("ConnectionFailed") \/ (IsCurrent(t) /\ dial[t] = "dialing")
  <2>1. CASE events' = events
    BY <2>1 DEF Waits, ConnectsAlone, LinkInv
  <2>2. ASSUME NEW k \in {"ConnectionFailed", "Connected"},
               events' = Append(events, Plain(k))
        PROVE  /\ \A j : Waits(j)' <=> Waits(j) \/ k = j
               /\ ConnectsAlone'
    <3>1. Plain(k) \in Event /\ Plain(k).kind = k
      BY EventTypes, EventKinds DEF EventKind
    <3> QED
      BY <1>1, <2>2, <3>1, AfterAppend DEF LinkInv
  <2> QED
    BY <1>5, <2>1, <2>2
<1>7. NoDrops' /\ NothingIsLost'
  BY <1>2, <1>3, <1>6 DEF LinkInv, NoDrops, NothingIsLost
<1>8. ConnectIsGranted' /\ OfflineIsQuiet'
  BY <1>2, <1>4, <1>6 DEF LinkInv, ConnectIsGranted, OfflineIsQuiet
<1>9. OfflineIsUnlinked'
  BY <1>2, <1>4, <1>6 DEF LinkInv, OfflineIsUnlinked
<1>10. /\ open' \subseteq open
       /\ open' = open \/ (open' = open \ {t} /\ io.backend # t)
       /\ t \in open' => io.backend = t
  <2>1. CASE ConnectFails(t)
    BY <2>1 DEF ConnectFails, LinkInv, NoStrayTransport
  <2>2. CASE ConnectReports(t) /\ IsCurrent(t)
    BY <1>4, <2>2 DEF ConnectReports
  <2>3. CASE ConnectReports(t) /\ ~IsCurrent(t)
    BY <2>3 DEF ConnectReports
  <2> QED
    BY <2>1, <2>2, <2>3
<1>11. BackendIsOpen' /\ NoStrayTransport'
  BY <1>1, <1>2, <1>10 DEF LinkInv, BackendIsOpen, NoStrayTransport
<1>12. LaterTicketsUnused'
  BY <1>1, <1>2 DEF LinkInv, LaterTicketsUnused
<1>13. CurrentAttempt'
  <2> SUFFICES ASSUME NEW u \in Ticket, u = io.epoch,
                      dial'[u] \in {"dialing", "probing"}
               PROVE  /\ app.phase = "CONNECTING"
                      /\ io.backend = IF dial'[u] = "dialing" THEN 0 ELSE u
                      /\ ~Waits("Connected")' /\ ~Waits("ConnectionFailed")'
                      /\ ~Waits("ConnectRequested")'
    BY <1>2 DEF CurrentAttempt, IsCurrent
  <2>1. u # t /\ dial'[u] = dial[u]
    BY <1>1, <1>2
  <2>2. ~IsCurrent(t)
    BY <2>1 DEF IsCurrent
  <2> QED
    BY <1>6, <2>1, <2>2 DEF LinkInv, CurrentAttempt, IsCurrent
<1> QED
  BY <1>6, <1>7, <1>8, <1>9, <1>11, <1>12, <1>13 DEF LinkInv

-----------------------------------------------------------------------------
(* The theorems                                                            *)

(* A session without drops begins with its connections in order.           *)
LEMMA InitLink == Init /\ NoDrops => LinkInv
<1> SUFFICES ASSUME Init, NoDrops PROVE LinkInv
  OBVIOUS
<1>1. /\ events = << >> /\ draining = FALSE /\ worker = IdleWorker
  BY DEF Init
<1>2. PICK online \in BOOLEAN :
        /\ online <=> app.phase = "ONLINE"
        /\ dial = [t \in Ticket |-> IF online /\ t = 1 THEN "over" ELSE "unused"]
        /\ open = IF online THEN {1} ELSE {}
        /\ io.backend = IF online THEN 1 ELSE 0
        /\ io.epoch = IF online THEN 1 ELSE 0
  <2>1. PICK x \in Sessions :
          LET online == x.app.phase = "ONLINE" IN
          /\ app = x.app
          /\ dial = [t \in Ticket |-> IF online /\ t = 1 THEN "over" ELSE "unused"]
          /\ open = IF online THEN {1} ELSE {}
          /\ io = [interrupt |-> FALSE, gen |-> 0, fetched |-> {},
                   frames |-> << >>, total |-> 0, applied |-> 0,
                   cmds |-> << >>, poll |-> FALSE,
                   backend |-> IF online THEN 1 ELSE 0,
                   epoch |-> IF online THEN 1 ELSE 0]
    BY DEF Init
  <2> DEFINE online == x.app.phase = "ONLINE"
  <2>2. online \in BOOLEAN
    OBVIOUS
  <2>3. /\ online <=> app.phase = "ONLINE"
        /\ dial = [t \in Ticket |-> IF online /\ t = 1 THEN "over" ELSE "unused"]
        /\ open = IF online THEN {1} ELSE {}
        /\ io.backend = IF online THEN 1 ELSE 0
        /\ io.epoch = IF online THEN 1 ELSE 0
    BY <2>1
  <2> HIDE DEF online
  <2> QED
    BY <2>2, <2>3
<1>3. \A k : ~Waits(k)
  <2>1. << >> \in Seq(Event) /\ Len(<< >>) = 0
    BY EmptySeq
  <2> QED
    BY <1>1, <2>1 DEF Waits
<1>4. ConnectsAlone
  BY <1>3 DEF ConnectsAlone, Waits
<1>5. BackendIsOpen /\ NoStrayTransport
  BY <1>2 DEF BackendIsOpen, NoStrayTransport
<1>6. LaterTicketsUnused /\ CurrentAttempt
  BY <1>2 DEF LaterTicketsUnused, CurrentAttempt, Ticket
<1>7. OfflineIsUnlinked /\ ConnectIsGranted /\ OfflineIsQuiet
  BY <1>2, <1>3 DEF OfflineIsUnlinked, ConnectIsGranted, OfflineIsQuiet
<1>8. NothingIsLost
  <2>1. IdleWorker.event = Plain("PollTick")
    BY DEF IdleWorker
  <2> QED
    BY <1>1, <1>3, <2>1, EventKinds DEF NothingIsLost, ConnectionEvents
<1> QED
  BY <1>4, <1>5, <1>6, <1>7, <1>8 DEF LinkInv

(* Every step keeps the connections in order.                              *)
LEMMA StepLink == WellFormed /\ LinkInv /\ [Next]_vars => LinkInv'
<1> SUFFICES ASSUME WellFormed, LinkInv, [Next]_vars PROVE LinkInv'
  OBVIOUS
<1>1. CASE User
  BY <1>1, QuietMainThread, JustAskLink DEF User
<1>2. CASE MainThread
  BY <1>2, QuietMainThread, DrainLink DEF MainThread
<1>3. CASE IoWorker
  BY <1>3, WorkerLink
<1>4. CASE \E t \in Ticket : Attempt(t)
  BY <1>4, OpensLink, EndsLink DEF Attempt
<1>5. CASE SolverRun \/ Environment
  BY <1>5, OutsideLink
<1>6. CASE UNCHANGED vars
  BY <1>6
     DEF vars, LinkInv, NoDrops, BackendIsOpen, NoStrayTransport,
         LaterTicketsUnused, CurrentAttempt, OfflineIsUnlinked,
         ConnectIsGranted, ConnectsAlone, OfflineIsQuiet, NothingIsLost,
         IsCurrent, Waits
<1> QED
  BY <1>1, <1>2, <1>3, <1>4, <1>5, <1>6 DEF Next

(* No transport is left open behind the add-on's back, however many        *)
(* attempts and disconnects race one another.                              *)
THEOREM NoTransportIsStray == Spec /\ NoDrops => []NoStrayTransport
<1>1. WellFormed /\ LinkInv /\ [Next]_vars => (WellFormed /\ LinkInv)'
  BY StepWellFormed, StepLink
<1>2. Init /\ NoDrops => WellFormed /\ LinkInv
  BY InitWellFormed, InitLink
<1>3. LinkInv => NoStrayTransport
  BY DEF LinkInv
<1> QED
  BY <1>1, <1>2, <1>3, PTL DEF Spec

(* The attempt that may still report is the one the add-on waits for.      *)
THEOREM TheAttemptIsAwaited == Spec /\ NoDrops => []AttemptIsAwaited
<1>1. WellFormed /\ LinkInv /\ [Next]_vars => (WellFormed /\ LinkInv)'
  BY StepWellFormed, StepLink
<1>2. Init /\ NoDrops => WellFormed /\ LinkInv
  BY InitWellFormed, InitLink
<1>3. LinkInv => AttemptIsAwaited
  BY DEF LinkInv, CurrentAttempt, AttemptIsAwaited, Underway
<1> QED
  BY <1>1, <1>2, <1>3, PTL DEF Spec
=============================================================================
