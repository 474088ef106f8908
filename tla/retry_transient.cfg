\* error.go:24 and client.go:16 against shouldRetry.
CONSTANTS
  Calls = {c1}
  MaxRetries = 1
  RetryIfSet = FALSE
  ClientTimeout = TRUE
SPECIFICATION Spec
PROPERTY RetriesOnlyTransient
CHECK_DEADLOCK FALSE
