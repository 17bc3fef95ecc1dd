SPECIFICATION Spec
CHECK_DEADLOCK FALSE
CONSTANTS
    c1 = c1
    NoProject = NoProject
    A = A
    Project = {A}
    Conn = {c1}
    Serves <- StartAndTerminate
    MaxUploads = 0
    MaxFrame = 0
    MaxRuns = 2
    AfterStart = TRUE
    StopsIn = {"Running", "Saving"}
INVARIANTS
    SlotIsHonest
    CrashTagIsCurrent
PROPERTIES
    ImplementsLaunchExits
