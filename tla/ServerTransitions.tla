------------------------- MODULE ServerTransitions -------------------------
(***************************************************************************)
(* The server's state machine: crates/ppf-cts-core/src/transitions/mod.rs  *)
(* over the record of state.rs.  The source is one pure function           *)
(*     transition(state, event) -> (state, effects)                        *)
(* and this module is its next-state half: one operator per event, from    *)
(* the state and the event's fields to the next state.  A guarded event    *)
(* has a companion predicate (CanBuild, CanStart, ...): an event whose     *)
(* guard fails leaves the state alone and emits nothing.  Which effects an *)
(* accepted event emits is modelled where they run, in ServerBuild and     *)
(* SolverMonitor.                                                          *)
(*                                                                         *)
(* Data is abstracted to what the properties tell apart.  An upload is its *)
(* number (0 for none), and stands for upload_id and for the two hashes.   *)
(* Violations and exemptions are the upload whose geometry they describe.  *)
(* An error is its origin; the report of a crash is the crash's kind.      *)
(* build_progress, build_info and log lines are left out.                  *)
(***************************************************************************)
EXTENDS Naturals

CONSTANTS
    Project,      \* project names; a name determines its root directory
    NoProject,    \* the empty name and the empty root
    MaxUploads,   \* bound on the uploads that ever land
    MaxFrame      \* the last frame of a scene

ASSUME TransitionsAssumption ==
    /\ NoProject \notin Project
    /\ MaxUploads \in Nat
    /\ MaxFrame \in Nat

Upload == 0 .. MaxUploads
Frame == 0 .. MaxFrame

\* Crash causes, by who can name them: the solver (Panic and the other kinds
\* it stamps itself), a launcher that died before any record, an abrupt death.
CrashKind == {"panic", "launch_failed", "abrupt"}
ErrorKind == {"", "build", "gpu", "request"} \cup CrashKind

ServerState ==
    [name : Project \cup {NoProject}, root : Project \cup {NoProject},
     data : {"Empty", "Uploaded"},
     build : {"None", "Building", "Built", "Failed"},
     solver : {"Idle", "Running", "Saving", "Failed"},
     upload_id : Upload, data_hash : Upload, param_hash : Upload,
     resumable : BOOLEAN, frame : Frame, initialized : BOOLEAN,
     error : ErrorKind, crash_kind : {""} \cup CrashKind,
     total_frames : Frame, violations : Upload, exemptions : Upload]

DefaultState ==
    [name |-> NoProject, root |-> NoProject, data |-> "Empty",
     build |-> "None", solver |-> "Idle",
     upload_id |-> 0, data_hash |-> 0, param_hash |-> 0,
     resumable |-> FALSE, frame |-> 0, initialized |-> FALSE,
     error |-> "", crash_kind |-> "",
     total_frames |-> 0, violations |-> 0, exemptions |-> 0]

\* What a request reads off the disk before it selects its project.
DiskView ==
    [name : Project, has_data : BOOLEAN, has_param : BOOLEAN,
     has_app : BOOLEAN, is_resumable : BOOLEAN,
     crash : {""} \cup CrashKind, upload_id : Upload,
     data_hash : Upload, param_hash : Upload, total_frames : Frame,
     exemptions : Upload]

DataOf(has_data, has_param) ==
    IF has_data /\ has_param THEN "Uploaded" ELSE "Empty"

-----------------------------------------------------------------------------
(* Project context                                                         *)

\* The project already selected: refresh what the disk knows, keep the phases.
RefreshProject(s, d) ==
    [s EXCEPT !.root = d.name,
              !.data = DataOf(d.has_data, d.has_param),
              !.upload_id = d.upload_id,
              !.data_hash = d.data_hash,
              !.param_hash = d.param_hash,
              !.total_frames = IF @ > 0 THEN @ ELSE d.total_frames,
              !.resumable = IF s.build = "Built" THEN d.is_resumable ELSE @]

\* Another project: every phase is rebuilt from the disk, a crash included,
\* and only the violations survive.
SwitchProject(s, d) ==
    LET crash == IF d.has_app THEN d.crash ELSE ""
    IN [DefaultState EXCEPT
          !.name = d.name, !.root = d.name,
          !.data = DataOf(d.has_data, d.has_param),
          !.build = IF d.has_app THEN "Built" ELSE "None",
          !.solver = IF crash # "" THEN "Failed" ELSE "Idle",
          !.resumable = d.is_resumable,
          !.error = crash, !.crash_kind = crash,
          !.total_frames = d.total_frames,
          !.upload_id = d.upload_id,
          !.data_hash = d.data_hash, !.param_hash = d.param_hash,
          !.violations = s.violations,
          !.exemptions = IF d.has_app THEN d.exemptions ELSE 0]

ProjectSelected(s, d) ==
    IF d.name = s.name THEN RefreshProject(s, d) ELSE SwitchProject(s, d)

\* engine.rs set_project_context: the context without a transition.
SetProjectContext(s, p) == [s EXCEPT !.name = p, !.root = p]

-----------------------------------------------------------------------------
(* Uploads and builds                                                      *)

\* Mutant: an upload leaves the build it replaces standing.
UploadKeepsBuild(s, u, data_hash, param_hash, has_data, has_param) ==
    [s EXCEPT !.data = DataOf(has_data, has_param), !.upload_id = u,
              !.data_hash = IF data_hash # 0 THEN data_hash ELSE @,
              !.param_hash = IF param_hash # 0 THEN param_hash ELSE @,
              !.resumable = FALSE]

\* An upload carries a data hash, a param hash or both (0: not carried).  It
\* invalidates the build it replaces and that build's verdict, unless a build
\* is in flight.
UploadLanded(s, u, data_hash, param_hash, has_data, has_param) ==
    LET landed ==
          [s EXCEPT !.data = DataOf(has_data, has_param),
                    !.upload_id = u,
                    !.data_hash = IF data_hash # 0 THEN data_hash ELSE @,
                    !.param_hash = IF param_hash # 0 THEN param_hash ELSE @,
                    !.resumable = FALSE]
    IN IF s.build = "Building" THEN landed
       ELSE [landed EXCEPT !.build = "None", !.error = "",
                           !.crash_kind = "", !.violations = 0]

\* Mutant: a second build is accepted while one is in flight.
CanBuildAnyTime(s) == s.data = "Uploaded"

CanBuild(s) == s.data = "Uploaded" /\ s.build # "Building"

BuildRequested(s) ==
    [s EXCEPT !.build = "Building", !.total_frames = 0, !.error = "",
              !.crash_kind = "", !.violations = 0, !.exemptions = 0]

CanCancelBuild(s) == s.build = "Building"

\* Mutant: the number of frames taken for the last frame.
MetadataOffByOne(s, total) == [s EXCEPT !.total_frames = total + 1]

BuildMetadata(s, total) == [s EXCEPT !.total_frames = total]

BuildCompleted(s, exemptions) ==
    [s EXCEPT !.build = "Built", !.resumable = FALSE, !.solver = "Idle",
              !.violations = 0, !.exemptions = exemptions]

BuildFailed(s, violations) ==
    [s EXCEPT !.build = "Failed", !.error = "build",
              !.violations = violations, !.exemptions = 0]

\* Mutant: a cancelled build clears its errors and stays BUILDING.
CancelLeavesBuilding(s) == [s EXCEPT !.error = "", !.crash_kind = ""]

BuildCancelledEvent(s) ==
    [s EXCEPT !.build = "None", !.error = "", !.crash_kind = ""]

\* Mutant: the failed check is an error message and no more.
GpuErrorOnly(s) == [s EXCEPT !.error = "gpu", !.crash_kind = ""]

GpuCheckFailed(s) ==
    [s EXCEPT !.build = "Failed", !.error = "gpu", !.crash_kind = ""]

-----------------------------------------------------------------------------
(* Solver requests                                                         *)

CanStart(s) == s.build = "Built" /\ s.solver \in {"Idle", "Failed"}

\* Mutant: a start clears the message of the crash before and not its tag.
StartKeepsTag(s) ==
    [s EXCEPT !.solver = "Running", !.frame = 0, !.initialized = FALSE,
              !.error = ""]

StartRequested(s) ==
    [s EXCEPT !.solver = "Running", !.frame = 0, !.initialized = FALSE,
              !.error = "", !.crash_kind = ""]

CanResume(s) == CanStart(s) /\ s.resumable

ResumeRequested(s) ==
    [s EXCEPT !.solver = "Running", !.initialized = FALSE,
              !.error = "", !.crash_kind = ""]

TerminateRequested(s) == [s EXCEPT !.solver = "Idle", !.initialized = FALSE]

SaveAndQuitRequested(s) == [s EXCEPT !.solver = "Saving"]

-----------------------------------------------------------------------------
(* Monitor reports                                                         *)

SolverFrameUpdated(s, frame) == [s EXCEPT !.frame = frame]

SolverInitialized(s) == [s EXCEPT !.initialized = TRUE]

SolverFinished(s, resumable) ==
    [s EXCEPT !.solver = "Idle", !.initialized = FALSE,
              !.resumable = resumable]

SolverCrashed(s, kind, violations) ==
    [s EXCEPT !.solver = "Failed", !.initialized = FALSE, !.error = kind,
              !.crash_kind = kind, !.violations = violations]

SolverSaving(s) == [s EXCEPT !.solver = "Saving"]

CanAdopt(s) == s.solver = "Idle" /\ s.build # "Building"

ExternalSolverAdopted(s, has_data_on_disk) ==
    [s EXCEPT !.solver = "Running",
              !.data = IF has_data_on_disk THEN "Uploaded" ELSE @,
              !.build = IF has_data_on_disk /\ @ = "None" THEN "Built" ELSE @]

-----------------------------------------------------------------------------
(* Deletion and errors                                                     *)

CanDelete(s) == s.root # NoProject

DeleteRequested(s) == [DefaultState EXCEPT !.name = s.name]

ErrorOccurred(s) == [s EXCEPT !.error = "request", !.crash_kind = ""]

-----------------------------------------------------------------------------
(* What the rest of the server asks of a state                             *)

\* The status every response carries; the branch order is significant.
StatusString(s) ==
    CASE s.build = "Building" -> "BUILDING"
      [] s.build # "Building" /\ s.solver = "Running" -> "BUSY"
      [] s.build # "Building" /\ s.solver = "Saving" -> "SAVE_AND_QUIT"
      [] OTHER ->
           IF s.data = "Empty" THEN "NO_DATA"
           ELSE IF s.build \in {"None", "Failed"} THEN "NO_BUILD"
           ELSE IF s.solver = "Failed" \/ s.error # "" THEN "FAILED"
           ELSE IF s.resumable THEN "RESUMABLE" ELSE "READY"

\* Mutant: only a solver counts as work.
SolverInProgress(s) == s.solver \in {"Running", "Saving"}

\* engine.rs work_in_progress: what an idle stop must never end.
WorkInProgress(s) ==
    s.solver \in {"Running", "Saving"} \/ s.build = "Building"
=============================================================================
