\* Two instances, crashes, a backup and its restore.
SPECIFICATION Spec
CONSTANTS
    Approvals = {a1, a2}
    Stores = {s1, s2}
    None = None
INVARIANTS
    TypeOK
    NoFalseAlarm
    SingleUseAcrossRestores
    ForgottenUseIsNoticed
PROPERTIES
    PassedCheckLeavesMirrorEqual
