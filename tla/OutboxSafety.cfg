CONSTANTS
    n1 = n1  n2 = n2  n3 = n3  j1 = j1  j2 = j2  j3 = j3
    None = None
    Notifiers = {n1, n2}
    NumChannels = 1
    JobIds = {j1, j2}
    ReceivedAt = 0
    ExpiresAt = 2
    MaxAttempts = 2
    LeaseSeconds = 1
    RetryDelays = {1}
    Retention = 2
    PruneLimit = 1
    MaxStoredJobs = 2
    ClockMayStepBack = TRUE
    MaxClock = 4
SPECIFICATION Spec
SYMMETRY Symmetry
INVARIANTS
    TypeOK
    OneWorkerPerJob
    AcceptedOncePerJob
    RecordsAreTrue
    AcceptedOncePerApproval
PROPERTIES
    ImplementsAtMostOnce
