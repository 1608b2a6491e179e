CONSTANTS
    t1 = t1  t2 = t2  s1 = s1  s2 = s2  w1 = w1  w2 = w2  d1 = d1  e1 = e1
    r1 = r1  c1 = c1  f1 = f1  f2 = f2  g1 = g1  c0 = c0
    Absent = Absent
    Torn = Torn
    None = None
    Threads = {t1, t2}
    Sessions = {s1}
    Reads = {r1}
    Mutations = {w1}
    Edits = {}
    Deletes = {}
    Commands = {c1}
    Conforming = {r1, w1, c1}
    Preauthorized = {r1}
    Files = {f1, g1}
    SessionOf <- MCSessionOf
    CallOf <- MCCallOfRead
    FileOf <- MCFileOf
    Contents <- MCContents
    ExternalContents = {c0}
    ClockMayStepBack = FALSE
    Result <- MCResult
    ApprovedAt = 0
    SessionExpiresAt = 2
    ApprovalLifetime = 1
    MaxExecutionDuration = 1
    MaxClock = 1
    MaxRequests = 3
    MaxCrashes = 0
    MaxExternal = 0
SPECIFICATION FairSpec
PROPERTIES
    RequestsAreAnswered
    ImplementsOneTimeAuthority
CHECK_DEADLOCK FALSE
