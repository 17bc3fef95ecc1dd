--------------------------- MODULE MCAddonClient ---------------------------
(***************************************************************************)
(* Sessions of AddonClient: where a run starts and what may be asked and   *)
(* go wrong in it.                                                         *)
(***************************************************************************)
EXTENDS AddonClient

Tokens(bag) == [t \in Request \cup Fault |->
                  IF t \in DOMAIN bag THEN bag[t] ELSE 0]

Fresh == [up |-> TRUE, old |-> FALSE, minted |-> 0, runs |-> 0,
          out |-> NoOutput, app |-> FALSE, saved |-> 0, boot |-> "no",
          from |-> 0, at |-> 0, cancel |-> FALSE]
Selected == [Server!DefaultState EXCEPT !.name = TheProject,
                                        !.root = TheProject]
Uploaded == [Selected EXCEPT !.data = "Uploaded", !.upload_id = 1,
                             !.data_hash = 1, !.param_hash = 1]
Built == [Uploaded EXCEPT !.build = "Built"]
\* One run went through, and left its output.
HasRun == [Fresh EXCEPT !.minted = 1, !.app = TRUE, !.runs = 1,
                        !.out = [n \in 1 .. MaxFrame |-> 1], !.at = MaxFrame]

At(solver, frame) ==
    [Offline EXCEPT !.phase = "ONLINE", !.server = "RUNNING",
                    !.solver = solver, !.frame = frame,
                    !.server_upload_id = 1]
Session(app0, srv0, host0, bag) ==
    [app |-> app0, srv |-> srv0, host |-> host0, applied |-> NoOutput,
     left |-> Tokens(bag)]

Connecting ==
    Session(Offline, Selected, Fresh,
            [connect |-> 2, disconnect |-> 2, no_host |-> 1, bad_root |-> 1,
             drop |-> 1])
\* An older server on the host, of which the add-on knows nothing yet.
OldServer(bag) ==
    Session([At("NO_BUILD", 0) EXCEPT !.server = "UNKNOWN"], Uploaded,
            [Fresh EXCEPT !.minted = 1, !.old = TRUE], bag)
ServerLife == OldServer([start_server |-> 2, server_dies |-> 1])
Stopping == OldServer([start_server |-> 1, stop_server |-> 1, disconnect |-> 1])
Deleting ==
    Session(At("NO_BUILD", 0), Uploaded, [Fresh EXCEPT !.minted = 1],
            [delete |-> 1, select_fails |-> 1, stop_server |-> 1])
Pipeline ==
    Session([At("NO_DATA", 0) EXCEPT !.server_upload_id = 0], Selected, Fresh,
            [transfer |-> 1, abort |-> 1, build_fails |-> 1,
             upload_fails |-> 1, drop |-> 1])
DebugBuild ==
    Session(At("NO_BUILD", 0), Uploaded, [Fresh EXCEPT !.minted = 1],
            [upload |-> 1, build |-> 1, abort |-> 1])
\* Fetch All over the output of a run that is over.
Fetching(bag) ==
    Session(At("READY", MaxFrame),
            [Built EXCEPT !.frame = MaxFrame], HasRun, bag)
FetchingTwice == Fetching([fetch |-> 2, abort |-> 1])
FetchStalling == Fetching([fetch |-> 2, stall |-> 1])
Running ==
    Session(At("READY", 0), Built, [Fresh EXCEPT !.minted = 1, !.app = TRUE],
            [run |-> 1, fetch |-> 1])
\* A run that left a checkpoint at a frame.
Resumable(saved, bag) ==
    [Session(At("RESUMABLE", MaxFrame),
             [Built EXCEPT !.frame = MaxFrame, !.resumable = TRUE],
             [HasRun EXCEPT !.saved = saved], bag)
       EXCEPT !.applied = HasRun.out]
Resuming == Resumable(1, [resume |-> 1])
Terminating == Resumable(MaxFrame, [resume |-> 1, terminate |-> 1])
Crashing == Resumable(MaxFrame, [resume |-> 1, solver_crashes |-> 1])
Reconnecting ==
    Session([At("NO_DATA", 0) EXCEPT !.server_upload_id = 0], Selected, Fresh,
            [transfer |-> 1, disconnect |-> 1, connect |-> 1, drop |-> 1])
Rerun ==
    Session(At("READY", MaxFrame), [Built EXCEPT !.frame = MaxFrame], HasRun,
            [run |-> 1])

AddonSessions == {Connecting, ServerLife, Stopping, Deleting, Pipeline,
                  DebugBuild, FetchingTwice, FetchStalling, Running, Resuming,
                  Terminating, Crashing, Reconnecting}
RerunSessions == {Rerun}
=============================================================================
