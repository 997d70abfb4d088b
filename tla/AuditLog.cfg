\* Two writers, crashes, two backups of two lines, one oversized entry, one below
\* the minimum level, a follower, and one torn write or deletion of the log.
SPECIFICATION FairSpec
CONSTANTS
    w1 = w1
    w2 = w2
    e1 = e1
    e2 = e2
    e3 = e3
    e4 = e4
    e5 = e5
    e6 = e6
    None = None
    Writers = {w1, w2}
    Events = {e1, e2, e3, e4, e5, e6}
    Large = {e2}
    MaxLines = 2
    Backups = 2
    Limit = 1
    MaxFaults = 2
    KindOf <- SomeKinds
    MinLevel = 20
ACTION_CONSTRAINT InOrder
INVARIANTS ChainsVerify RetainedIsSuffix ValidMeansComplete
PROPERTY FollowerSeesAll
CHECK_DEADLOCK FALSE
