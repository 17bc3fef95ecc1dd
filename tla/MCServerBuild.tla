--------------------------- MODULE MCServerBuild ---------------------------
(***************************************************************************)
(* Instances of ServerBuild.  What each connection may ask decides which   *)
(* races a run is about.  Project B plays the add-on's connect probe.      *)
(***************************************************************************)
EXTENDS ServerBuild

CONSTANTS c1, c2, A, B

Clients == {c1, c2}

\* c1 owns the project, uploading and building; c2 watches and cancels.
OwnerAndWatcher ==
    [c \in Clients |-> IF c = c1 THEN {"upload", "build"} \X {A}
                       ELSE {"ping", "cancel_build"} \X {A}]

\* c1 also deletes its project, while c2 moves the selection.
OwnerAndProbe ==
    [c \in Clients |-> IF c = c1 THEN {"upload", "build", "delete"} \X {A}
                       ELSE {<<"ping", B>>}]

\* As OwnerAndProbe, without deletes.
BuilderAndProbe ==
    [c \in Clients |-> IF c = c1 THEN {"upload", "build"} \X {A}
                       ELSE {<<"ping", A>>, <<"ping", B>>}]
=============================================================================
