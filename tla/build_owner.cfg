SPECIFICATION FairSpec
CHECK_DEADLOCK FALSE
CONSTANTS
    c1 = c1
    c2 = c2
    NoProject = NoProject
    Project = {A}
    A = A
    B = B
    Conn = {c1, c2}
    Serves <- OwnerAndWatcher
    MaxUploads = 2
    MaxFrame = 1
    MaxBuilds = 2
    MaxRestarts = 0
INVARIANTS
    TypeOK
    OneWorkerPerRoot
    BuiltMatchesPayload
    ExemptionsDescribeBuild
PROPERTIES
    IdleStopSparesBuilds
    BuildEnds
