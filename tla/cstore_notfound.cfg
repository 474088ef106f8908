\* types.go:27 against decodeItem: one Get of a key that was never set.
CONSTANTS
  Calls = {c1, c2}
  MaxRetries = 1
  Keys = {k1}
  HashKeys = {}
  Fields = {}
  Blank = blank
  Values <- OnlyPlain
  Kinds = {"set", "get"}
  Emptied = FALSE
  Missing = missing
SPECIFICATION CStoreSpec
INVARIANT MissingKeyReported
CHECK_DEADLOCK FALSE
