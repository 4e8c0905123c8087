\* Two rounds report one new finding, and the older is applied in between.
SPECIFICATION Spec
CONSTANTS
    f = f
    Finding = {f}
    MaxPub = 2
    MaxAttempts = 2
    MaxFaults = 1
INVARIANTS PublishedIsApplied
CHECK_DEADLOCK FALSE
