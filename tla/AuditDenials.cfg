CONSTANTS
    s1 = s1  s2 = s2
    None = None
    Sessions = {s1, s2}
    Proposals = {3}
    SessionOf <- MCSessionOf
    CallOf <- MCCallOf
    Verdict <- MCVerdict
    Observing = {3}
    Preauthorized = {}
    Deletes = {}
    ApprovedAt = 0
    ExpiresAt = 2
    ApprovalLifetime = 1
    MaxExecutionDuration = 1
    Capabilities = 1
    PageLimit = 2
    MaxEvents = 5
    MaxRevision = 9
    MaxClock = 1
    MaxDenials = 1
SPECIFICATION Spec
INVARIANT
    DenialsAreReadable
CHECK_DEADLOCK FALSE
