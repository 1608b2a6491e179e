CONSTANTS
    i1 = i1  i2 = i2  t1 = t1  t2 = t2  a1 = a1  a2 = a2
    u1 = u1  u2 = u2  v1 = v1  v2 = v2
    None = None
    Signed <- MCSigned
    Enrollments <- MCEnrollments
    Callbacks <- MCCallbacks
    MaxLifetime = 2
    SlackSkew = 1
    MaxClock = 2
    MaxRegistrations = 2
SPECIFICATION Spec
INVARIANTS
    TypeOK
    OneDecisionPerRegistration
    RevocationHolds
    EvidenceIsBound
PROPERTIES
    ImplementsSingleUse
CHECK_DEADLOCK FALSE
