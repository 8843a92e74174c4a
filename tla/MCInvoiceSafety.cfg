\* One invoice, two concurrent handlers, a retry by the worker or by hand.
CONSTANTS
    Parts = {i1}
    Modified = {}
    Handlers = {p1, p2}
    None = None
    MaxAttempts = 2
    MaxRetries = 1
    MaxFaults = 1
SPECIFICATION Spec
SYMMETRY Symmetry
INVARIANT OutcomeIsTheProviders
PROPERTY SuccessIsFinal
CHECK_DEADLOCK FALSE
