CONSTANTS
    r1 = r1  q1 = q1  q2 = q2  u1 = u1  u2 = u2
    None = None
    Authorizations = {1, 2}
    Resources = {r1}
    ResourceOf <- MCResourceOf
    Acquisitions = {q1, q2}
    Requests = {u1, u2}
    Contested = {1}
    Lease = 1
    DispatchWindow = 2
    Lifetime = 1
    Propagation = 1
    Skew = 1
    MaxClock = 3
SPECIFICATION Spec
SYMMETRY Symmetry
CONSTRAINT OneBrokered
INVARIANTS
    TypeOK
    NoCredentialAfterRelease
    ArtifactsBelongToLatest
    NoSendMeansNoSend
    ReservationMatchesClaims
PROPERTIES
    ImplementsExclusive
CHECK_DEADLOCK FALSE
