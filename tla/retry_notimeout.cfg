\* One operation on a client with an http.Client without a Timeout and with a
\* RetryIf that may answer anything.
CONSTANTS
  Calls = {c1}
  MaxRetries = 2
  RetryIfSet = TRUE
  ClientTimeout = FALSE
  Keys = {k1}
  HashKeys = {h1}
  Fields = {f1}
  Blank = blank
  Values <- OnlyPlain
  Kinds = {"set", "get", "hset", "hgetall", "get_status"}
  Emptied = TRUE
  Missing = missing
SPECIFICATION OverHttpSpec
INVARIANT AtMostOneLateAttempt
PROPERTIES EndedContextReturns ImplementsCStore
CHECK_DEADLOCK FALSE
