\* No rollback is reported unless there was one.
SPECIFICATION Spec
CONSTANTS
    Approvals = {a1, a2}
    Stores = {s1, s2}
    None = None
INVARIANT NoFalseAlarm
