\* One gate of each kind, with what can race on it.
SPECIFICATION Spec
CONSTANTS
    f1 = f1
    f2 = f2
    p1 = p1
    p2 = p2
    g1 = g1
    t1 = t1
    t2 = t2
    h1 = h1
    a1 = a1
    a2 = a2
    None = None
    Approvals = {a1, a2}
    Fingerprints = {f1, f2}
    Policies = {p1, p2}
    Gates = {g1}
    Threads = {t1, t2}
    Hooks = {h1}
    Verdict <- SecondDenies
    GateOf <- OneGate
ACTION_CONSTRAINT OneFront
INVARIANTS TypeOK ExecutedAtMostOnce
PROPERTIES ConsumedUnderCurrentPolicy InvalidatedForAReason
