CONSTANTS
    t1 = t1  t2 = t2  s1 = s1  s2 = s2  w1 = w1  w2 = w2  d1 = d1  e1 = e1
    r1 = r1  c1 = c1  f1 = f1  f2 = f2  g1 = g1  c0 = c0
    Absent = Absent
    Torn = Torn
    None = None
    Threads = {t1, t2}
    Sessions = {s1}
    Reads = {r1}
    Mutations = {e1, d1}
    Edits = {e1}
    Deletes = {d1}
    Commands = {}
    Conforming = {e1, d1, r1}
    Preauthorized = {r1}
    Files = {f1}
    SessionOf <- MCSessionOf
    CallOf <- MCCallOfShared
    FileOf <- MCFileOf
    Contents <- MCContents
    ExternalContents = {c0, Absent}
    ClockMayStepBack = TRUE
    Result <- MCResult
    ApprovedAt = 0
    SessionExpiresAt = 2
    ApprovalLifetime = 1
    MaxExecutionDuration = 1
    MaxClock = 1
    MaxRequests = 3
    MaxCrashes = 1
    MaxExternal = 1
SPECIFICATION Spec
SYMMETRY Symmetry
INVARIANTS
    TypeOK
    OneEffectPerCall
    AttemptsArePaidFor
    RevocationIsBarrier
    RevocationClosesHistory
    SuccessIsDurable
    SucceededWasStarted
CHECK_DEADLOCK FALSE
