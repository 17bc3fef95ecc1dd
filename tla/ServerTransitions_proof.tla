----------------------- MODULE ServerTransitions_proof ----------------------
(***************************************************************************)
(* The transition function is total over ServerState: whatever event meets *)
(* whatever state, the next state is a state again.  One lemma per event,  *)
(* for the type invariants of the modules that dispatch it.                *)
(***************************************************************************)
EXTENDS ServerTransitions, TLAPS

(* Each transition keeps a state a state.                                  *)
LEMMA DefaultStateType == DefaultState \in ServerState
BY TransitionsAssumption DEF DefaultState, ServerState, Upload, Frame, ErrorKind

(* Both branches of ProjectSelected keep a state a state.                  *)
LEMMA ProjectSelectedType ==
    ASSUME NEW s \in ServerState, NEW d \in DiskView
    PROVE  ProjectSelected(s, d) \in ServerState
<1>1. DataOf(d.has_data, d.has_param) \in {"Empty", "Uploaded"}
  BY DEF DataOf
<1>2. RefreshProject(s, d) \in ServerState
  <2> DEFINE data == DataOf(d.has_data, d.has_param)
             total == IF s.total_frames > 0 THEN s.total_frames ELSE d.total_frames
             resumable == IF s.build = "Built" THEN d.is_resumable ELSE s.resumable
  <2>1. data \in {"Empty", "Uploaded"} /\ total \in Frame /\ resumable \in BOOLEAN
    BY <1>1 DEF ServerState, DiskView
  <2>2. RefreshProject(s, d) =
          [s EXCEPT !.root = d.name, !.data = data, !.upload_id = d.upload_id,
                    !.data_hash = d.data_hash, !.param_hash = d.param_hash,
                    !.total_frames = total, !.resumable = resumable]
    BY DEF RefreshProject
  <2> HIDE DEF data, total, resumable
  <2> QED
    BY ZenonT(40), <2>1, <2>2 DEF ServerState, DiskView
<1>3. SwitchProject(s, d) \in ServerState
  <2> DEFINE data == DataOf(d.has_data, d.has_param)
             crash == IF d.has_app THEN d.crash ELSE ""
             build == IF d.has_app THEN "Built" ELSE "None"
             solver == IF crash # "" THEN "Failed" ELSE "Idle"
             exemptions == IF d.has_app THEN d.exemptions ELSE 0
  <2>1. 0 \in Upload
    BY TransitionsAssumption DEF Upload
  <2>2. /\ data \in {"Empty", "Uploaded"}
        /\ crash \in {""} \cup CrashKind /\ crash \in ErrorKind
        /\ build \in {"None", "Built"} /\ solver \in {"Idle", "Failed"}
        /\ exemptions \in Upload
    BY <1>1, <2>1 DEF DiskView, ErrorKind
  <2> DEFINE phases ==
               [DefaultState EXCEPT
                  !.name = d.name, !.root = d.name, !.data = data,
                  !.build = build, !.solver = solver,
                  !.resumable = d.is_resumable, !.error = crash]
             facts ==
               [phases EXCEPT
                  !.crash_kind = crash, !.total_frames = d.total_frames,
                  !.upload_id = d.upload_id, !.data_hash = d.data_hash,
                  !.param_hash = d.param_hash, !.violations = s.violations,
                  !.exemptions = exemptions]
  <2>3. SwitchProject(s, d) = facts
    BY DEF SwitchProject
  <2> HIDE DEF data, crash, build, solver, exemptions
  <2>4. phases \in ServerState
    BY ZenonT(40), <2>2, DefaultStateType DEF ServerState, DiskView
  <2> HIDE DEF phases
  <2>5. facts \in ServerState
    BY <2>2, <2>4 DEF ServerState, DiskView
  <2> QED
    BY <2>3, <2>5
<1> QED
  BY <1>2, <1>3 DEF ProjectSelected

(* The context alone: a project or none.                                   *)
LEMMA SetProjectContextType ==
    ASSUME NEW s \in ServerState, NEW p \in Project \cup {NoProject}
    PROVE  SetProjectContext(s, p) \in ServerState
BY DEF SetProjectContext, ServerState

(* An upload carries upload numbers.                                       *)
LEMMA UploadLandedType ==
    ASSUME NEW s \in ServerState, NEW u \in Upload, NEW data \in Upload,
           NEW param \in Upload, NEW has_data \in BOOLEAN, NEW has_param \in BOOLEAN
    PROVE  UploadLanded(s, u, data, param, has_data, has_param) \in ServerState
<1> DEFINE phase == DataOf(has_data, has_param)
           dh == IF data # 0 THEN data ELSE s.data_hash
           ph == IF param # 0 THEN param ELSE s.param_hash
           landed == [s EXCEPT !.data = phase, !.upload_id = u, !.data_hash = dh,
                               !.param_hash = ph, !.resumable = FALSE]
           cleared == [landed EXCEPT !.build = "None", !.error = "",
                                     !.crash_kind = "", !.violations = 0]
<1>1. phase \in {"Empty", "Uploaded"} /\ dh \in Upload /\ ph \in Upload
  BY DEF DataOf, ServerState
<1>2. UploadLanded(s, u, data, param, has_data, has_param)
        = IF s.build = "Building" THEN landed ELSE cleared
  BY DEF UploadLanded
<1> HIDE DEF phase, dh, ph
<1>3. landed \in ServerState
  BY <1>1 DEF ServerState
<1>4. 0 \in Upload
  BY TransitionsAssumption DEF Upload
<1> HIDE DEF landed
<1>5. cleared \in ServerState
  BY <1>3, <1>4 DEF ServerState, ErrorKind
<1> QED
  BY <1>2, <1>3, <1>5

(* The events of a build.                                                  *)
LEMMA BuildEventsType ==
    ASSUME NEW s \in ServerState, NEW u \in Upload, NEW f \in Frame
    PROVE  /\ BuildRequested(s) \in ServerState
           /\ BuildMetadata(s, f) \in ServerState
           /\ BuildCompleted(s, u) \in ServerState
           /\ BuildFailed(s, u) \in ServerState
           /\ BuildCancelledEvent(s) \in ServerState
           /\ GpuCheckFailed(s) \in ServerState
<1>1. 0 \in Upload /\ 0 \in Frame
  BY TransitionsAssumption DEF Upload, Frame
<1> QED
  BY ZenonT(40), <1>1 DEF BuildRequested, BuildMetadata, BuildCompleted, BuildFailed,
              BuildCancelledEvent, GpuCheckFailed, ServerState, ErrorKind

(* The requests that start and stop a solver.                              *)
LEMMA SolverRequestsType ==
    ASSUME NEW s \in ServerState
    PROVE  /\ StartRequested(s) \in ServerState
           /\ ResumeRequested(s) \in ServerState
           /\ TerminateRequested(s) \in ServerState
           /\ SaveAndQuitRequested(s) \in ServerState
<1>1. 0 \in Frame
  BY TransitionsAssumption DEF Frame
<1> QED
  BY ZenonT(40), <1>1 DEF StartRequested, ResumeRequested, TerminateRequested,
              SaveAndQuitRequested, ServerState, ErrorKind

(* What the monitor reports.                                               *)
LEMMA MonitorEventsType ==
    ASSUME NEW s \in ServerState, NEW f \in Frame, NEW b \in BOOLEAN,
           NEW kind \in CrashKind, NEW u \in Upload
    PROVE  /\ SolverFrameUpdated(s, f) \in ServerState
           /\ SolverInitialized(s) \in ServerState
           /\ SolverFinished(s, b) \in ServerState
           /\ SolverCrashed(s, kind, u) \in ServerState
           /\ SolverSaving(s) \in ServerState
           /\ ExternalSolverAdopted(s, b) \in ServerState
<1>1. /\ SolverFrameUpdated(s, f) \in ServerState
      /\ SolverInitialized(s) \in ServerState
      /\ SolverFinished(s, b) \in ServerState
      /\ SolverSaving(s) \in ServerState
  BY ZenonT(40) DEF SolverFrameUpdated, SolverInitialized, SolverFinished, SolverSaving, ServerState
<1>2. SolverCrashed(s, kind, u) \in ServerState
  BY DEF SolverCrashed, ServerState, ErrorKind
<1>3. ExternalSolverAdopted(s, b) \in ServerState
  <2> DEFINE data == IF b THEN "Uploaded" ELSE s.data
             build == IF b /\ s.build = "None" THEN "Built" ELSE s.build
  <2>1. /\ data \in {"Empty", "Uploaded"}
        /\ build \in {"None", "Building", "Built", "Failed"}
    BY DEF ServerState
  <2>2. ExternalSolverAdopted(s, b) =
          [s EXCEPT !.solver = "Running", !.data = data, !.build = build]
    BY DEF ExternalSolverAdopted
  <2> HIDE DEF data, build
  <2> QED
    BY ZenonT(40), <2>1, <2>2 DEF ServerState
<1> QED
  BY <1>1, <1>2, <1>3

(* A deletion keeps the name; an error keeps all but itself.               *)
LEMMA DeleteAndErrorType ==
    ASSUME NEW s \in ServerState
    PROVE  DeleteRequested(s) \in ServerState /\ ErrorOccurred(s) \in ServerState
<1>1. DefaultState \in ServerState
  BY DefaultStateType
<1>2. DeleteRequested(s) \in ServerState
  BY <1>1 DEF DeleteRequested, ServerState
<1>3. ErrorOccurred(s) \in ServerState
  BY DEF ErrorOccurred, ServerState, ErrorKind
<1> QED
  BY <1>2, <1>3

(* Only an accepted build request makes a state BUILDING: every other      *)
(* event leaves BUILDING alone or ends it.                                 *)
LEMMA OnlyRequestsBuild ==
    ASSUME NEW s \in ServerState, s.build # "Building"
    PROVE  /\ \A d \in DiskView : ProjectSelected(s, d).build # "Building"
           /\ \A p : SetProjectContext(s, p).build # "Building"
           /\ \A u, data, param, has_data, has_param :
                  UploadLanded(s, u, data, param, has_data, has_param).build
                      # "Building"
           /\ \A f : BuildMetadata(s, f).build # "Building"
           /\ DeleteRequested(s).build # "Building"
<1>1. ASSUME NEW d \in DiskView
      PROVE  ProjectSelected(s, d).build # "Building"
  BY ZenonT(40) DEF ProjectSelected, RefreshProject, SwitchProject, DefaultState, ServerState
<1>2. ASSUME NEW p
      PROVE  SetProjectContext(s, p).build # "Building"
  BY DEF SetProjectContext, ServerState
<1>3. ASSUME NEW u, NEW data, NEW param, NEW has_data, NEW has_param
      PROVE  UploadLanded(s, u, data, param, has_data, has_param).build
                 # "Building"
  BY DEF UploadLanded, ServerState
<1>4. ASSUME NEW f
      PROVE  BuildMetadata(s, f).build # "Building"
  BY DEF BuildMetadata, ServerState
<1>5. DeleteRequested(s).build # "Building"
  BY DEF DeleteRequested, DefaultState
<1> QED
  BY <1>1, <1>2, <1>3, <1>4, <1>5

(* A build's verdict ends BUILDING, whichever it is.                       *)
LEMMA VerdictsEndBuilding ==
    ASSUME NEW s \in ServerState
    PROVE  /\ \A u : BuildCompleted(s, u).build # "Building"
           /\ \A u : BuildFailed(s, u).build # "Building"
           /\ BuildCancelledEvent(s).build # "Building"
           /\ GpuCheckFailed(s).build # "Building"
BY DEF BuildCompleted, BuildFailed, BuildCancelledEvent, GpuCheckFailed, ServerState
=============================================================================
