----------------------------- MODULE LaunchExits ----------------------------
(***************************************************************************)
(* What exit_watch (executor/solver.rs) promises the monitor, whatever the *)
(* launches, their waiters and the monitor do to its one slot: a status it *)
(* shows is that of the launch it is armed for, and that launch is over.   *)
(***************************************************************************)
EXTENDS Naturals

CONSTANT Launches

VARIABLES
    armed,  \* the launch the slot belongs to, or 0
    shown,  \* the launch whose exit status it shows, or 0
    over    \* the launches that have ended, or will never have a process

vars == <<armed, shown, over>>

Init == armed = 0 /\ shown = 0 /\ over = {}

Arm(r) ==
    /\ r \notin over
    /\ armed' = r /\ shown' = 0
    /\ UNCHANGED over

\* Only the launch that owns the slot may leave its status there.
End(r) ==
    /\ r \notin over
    /\ over' = over \cup {r}
    /\ \/ armed' = armed /\ shown' = shown
       \/ armed = r /\ armed' = r /\ shown' = r
       \/ armed' = 0 /\ shown' = 0

Disarm ==
    /\ armed' = 0 /\ shown' = 0
    /\ UNCHANGED over

Next == Disarm \/ \E r \in Launches : Arm(r) \/ End(r)

Spec == Init /\ [][Next]_vars

\* A status that is shown is the status of the launch the slot is armed for.
ShownIsOver == shown # 0 => shown = armed /\ shown \in over
=============================================================================
