SPECIFICATION Spec
CHECK_DEADLOCK FALSE
CONSTANTS
    c1 = c1
    c2 = c2
    NoProject = NoProject
    A = A
    B = B
    Project = {A}
    Conn = {c1, c2}
    Serves <- OwnerAndWatcher
    MaxUploads = 2
    MaxFrame = 0
    MaxBuilds = 1
    MaxRestarts = 1
INVARIANTS
    BuiltMatchesPayload
