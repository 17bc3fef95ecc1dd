SPECIFICATION FairSpec
CHECK_DEADLOCK FALSE
CONSTANTS
    MaxUploads = 2
    MaxFrame = 2
    MaxRuns = 2
    MaxQueue = 2
    MaxTickets = 5
    TheProject = P
    Sessions <- AddonSessions
INVARIANTS
    TypeOK
    NoStrayTransport
    AttemptIsAwaited
    AppliedWithinTotal
PROPERTIES
    StartNotEndedByStalePoll
    BuildNotEndedByStalePoll
    FetchShowsOutput
    OperationEnds
    LastFrameArrives
