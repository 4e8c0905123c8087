\* One attempt, an App that is active throughout, and one request to GitHub
\* without an answer.
SPECIFICATION LiveSpec
CONSTANTS
    MaxGen = 1
    MaxAttempts = 2
    Gate = {"success", "failure"}
    Budgets <- OneLoss
PROPERTIES EveryAttemptReturns
CHECK_DEADLOCK FALSE
