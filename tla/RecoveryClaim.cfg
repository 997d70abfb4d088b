\* The claim that a rollback of the database file is noticed, for a refusal.
SPECIFICATION Spec
CONSTANTS
    Approvals = {a1, a2}
    Stores = {s1, s2}
    None = None
PROPERTY RefusalRollbackDetected
