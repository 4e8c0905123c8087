\* Two heads, after an earlier publication or not; people delete comments.
SPECIFICATION Spec
CONSTANTS
    h1 = h1  h2 = h2
    Commit = {h1, h2}
    NoCommit = NoCommit
    Prior = Prior
    Gone = Gone
    MaxAttempts = 2
    SelectLimit = 2
    PendingLimit = 2
    AppState = {"active"}
    Operator = FALSE
    Probe = FALSE
    Human = TRUE
SYMMETRY TwoHeads
INVARIANTS TypeOK PreparedIsUnsent
PROPERTIES PublishesOnce
CHECK_DEADLOCK FALSE
