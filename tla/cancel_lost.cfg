SPECIFICATION Spec
CHECK_DEADLOCK FALSE
CONSTANTS
    c1 = c1
    c2 = c2
    NoProject = NoProject
    A = A
    B = B
    Project = {A}
    Conn = {c1, c2}
    Serves <- OwnerAndWatcher
    MaxUploads = 1
    MaxFrame = 0
    MaxBuilds = 2
    MaxRestarts = 0
INVARIANTS
    CancelObserved
