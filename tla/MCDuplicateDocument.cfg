\* One invoice, one handler, one failure and a retry by hand.
CONSTANTS
    Parts = {i1}
    Modified = {}
    Handlers = {p1}
    None = None
    MaxAttempts = 1
    MaxRetries = 1
    MaxFaults = 1
SPECIFICATION Spec
INVARIANT OneLiveDocument
CHECK_DEADLOCK FALSE
