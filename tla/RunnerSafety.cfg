CONSTANTS
    c1 = c1
    c2 = c2
    r1 = r1
    r2 = r2
    obs = obs
    dep1 = dep1
    dep2 = dep2
    app = app
    None = None
    Calls <- MCCalls
    Runners <- MCRunners
    RunnerOf <- MCRunnerOf
    Dispatches <- MCDispatches
    Approvals <- MCApprovals
    ApprovalOf <- MCApprovalOf
    Deploys <- MCDeploys
    Created <- MCCreated
    Expiry <- MCExpiry
    Capacity = 2
    MaxTime = 2
SPECIFICATION Spec
INVARIANTS
    TypeOK
    AcceptedOnce
    ReservationsAreOwned
    PendingIsOwned
PROPERTY
    UnknownIsBlocked
