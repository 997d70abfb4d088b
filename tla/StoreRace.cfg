\* Two instances, one with a frozen clock, race on two approvals of two requests.
SPECIFICATION Spec
CONSTANTS
    Approvals = {a1, a2}
    Fingerprints = {f1, f2}
    f1 = f1
    f2 = f2
    p1 = p1
    p2 = p2
    agent = agent
    Policies = {p1, p2}
    None = None
    Stores = {live, hook}
    Frozen = {hook}
    Principals = {agent}
    PrincipalOf <- OnePrincipal
    TTL = 2
    MaxPending = 2
    MaxTime = 2
SYMMETRY RaceSymmetry
ACTION_CONSTRAINT RaceBound
INVARIANTS
    TypeOK
    SingleUse
    UsedOnlyAsApproved
    AssertionsMatchRows
PROPERTIES
    RowsMoveForward
    ImplementsLifecycle
