\* One head and every disturbance: the App is paused or loses its access and
\* comes back, operators retry, people delete comments.
SPECIFICATION LiveSpec
CONSTANTS
    h1 = h1  h2 = h2
    Commit = {h1}
    NoCommit = NoCommit
    Prior = Prior
    Gone = Gone
    MaxAttempts = 3
    SelectLimit = 1
    PendingLimit = 2
    AppState = {"active", "paused", "unavailable"}
    Operator = TRUE
    Probe = TRUE
    Human = TRUE
PROPERTIES PublishesOnce Settles
CHECK_DEADLOCK FALSE
