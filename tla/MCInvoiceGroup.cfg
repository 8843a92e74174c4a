\* Two parts and a modified invoice, one handler, one failure, one attempt per
\* event and webhooks that may never come.
CONSTANTS
    Parts = {i1, i2}
    Modified = {m1}
    Handlers = {p1}
    None = None
    MaxAttempts = 1
    MaxRetries = 0
    MaxFaults = 1
SPECIFICATION FairSpec
INVARIANT LockedByWholeGroup
PROPERTIES InFlightSettles CompleteGroupLocks
CHECK_DEADLOCK FALSE
