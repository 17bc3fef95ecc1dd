SPECIFICATION FairSpec
CHECK_DEADLOCK FALSE
CONSTANTS
    c1 = c1
    NoProject = NoProject
    A = A
    Project = {A}
    Conn = {c1}
    Serves <- AllRequests
    MaxUploads = 0
    MaxFrame = 1
    MaxRuns = 1
    AfterStart = TRUE
    StopsIn = {"Idle", "Running", "Saving", "Failed"}
INVARIANTS
    TypeOK
    NoFalseCrash
    
PROPERTIES
    OutcomeIsFinal
    GetsVerdict
