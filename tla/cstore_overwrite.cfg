\* README.md:5 against at-least-once writes: two writes suffice.
CONSTANTS
  Calls = {c1, c2}
  MaxRetries = 1
  Keys = {k1}
  HashKeys = {}
  Fields = {}
  Blank = blank
  Values <- PlainAndOpaque
  Kinds = {"set"}
  Emptied = FALSE
  Missing = missing
SPECIFICATION CStoreSpec
INVARIANT AckedWritesStay
CHECK_DEADLOCK FALSE
