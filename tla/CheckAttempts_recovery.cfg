\* One attempt with faults, an operator's retry or a change of the App, and two
\* attempts that follow each other: every request, lease and recovery.
SPECIFICATION LiveSpec
CONSTANTS
    MaxGen = 2
    MaxAttempts = 2
    Gate = {"success", "failure"}
    Budgets <- MCBudgets
INVARIANTS TypeOK OneRunPerAttempt DoneIsShown GreenIsEarned
PROPERTIES ConclusionsStand EveryAttemptEnds
CHECK_DEADLOCK FALSE
