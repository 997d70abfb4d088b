\* Two instances save and decide requests of one agent at its quota.
SPECIFICATION SaveSpec
CONSTANTS
    Approvals = {a1, a2, a3, a4}
    Fingerprints = {f1, f2}
    f1 = f1
    f2 = f2
    p1 = p1
    p2 = p2
    agent = agent
    Policies = {p1}
    None = None
    Stores = {live, hook}
    Frozen = {hook}
    Principals = {agent}
    PrincipalOf <- OnePrincipal
    TTL = 1
    MaxPending = 2
    MaxTime = 2
SYMMETRY SaveSymmetry
INVARIANTS
    QuotaOvershootBounded
    DuplicatesBounded
