\* One call, the default policy and the scheduler's fairness; CHECK_DEADLOCK
\* FALSE: a call returns and that is the end of it.
CONSTANTS
  Calls = {c1}
  MaxRetries = 3
  RetryIfSet = FALSE
  ClientTimeout = TRUE
SPECIFICATION FairSpec
INVARIANTS TypeOK BodyReplayed NoResponseLeaked AtMostOneLateAttempt
           OkMeansApplied EarlyFailureExplained
PROPERTIES ImplementsAtLeastOnce LoopRunsDown EveryCallReturns
CHECK_DEADLOCK FALSE
