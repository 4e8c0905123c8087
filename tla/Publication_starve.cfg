\* Two heads and a pass that reads one row; no row is claimed twice.
SPECIFICATION LiveSpec
CONSTANTS
    h1 = h1  h2 = h2
    Commit = {h1, h2}
    NoCommit = NoCommit
    Prior = Prior
    Gone = Gone
    MaxAttempts = 2
    SelectLimit = 1
    PendingLimit = 2
    AppState = {"active"}
    Operator = FALSE
    Probe = FALSE
    Human = FALSE
CONSTRAINT OneClaim
PROPERTIES ConfirmedIsApplied
CHECK_DEADLOCK FALSE
