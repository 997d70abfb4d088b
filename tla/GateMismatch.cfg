\* A credential presented with another request.
SPECIFICATION SdkSpec
CONSTANTS
    f1 = f1
    f2 = f2
    p1 = p1
    p2 = p2
    g1 = g1
    t1 = t1
    t2 = t2
    h1 = h1
    a1 = a1
    a2 = a2
    None = None
    Approvals = {a1}
    Fingerprints = {f1, f2}
    Policies = {p1, p2}
    Gates = {g1}
    Threads = {t1}
    Hooks = {}
    Verdict <- FirstOnly
    GateOf <- OneGate
PROPERTIES InvalidatedForItsOwnRequest
