-------------------------- MODULE MCSolverMonitor --------------------------
(***************************************************************************)
(* Instances of SolverMonitor.                                             *)
(***************************************************************************)
EXTENDS SolverMonitor

CONSTANTS c1, A

AllRequests == [c \in {c1} |-> Request]

\* Runs one after the other, each ended by itself.
StartOnly == [c \in {c1} |-> {"start"}]

\* Runs that overlap: the one before is killed and the next one started.
StartAndTerminate == [c \in {c1} |-> {"start", "terminate"}]
=============================================================================
