\* Three concurrent calls on one key, each repeated once at most.
CONSTANTS
  Calls = {c1, c2, c3}
  MaxRetries = 1
  Keys = {k1}
  HashKeys = {}
  Fields = {}
  Blank = blank
  Values <- PlainAndOpaque
  Kinds = {"set", "get", "get_status"}
  Emptied = FALSE
  Missing = missing
SPECIFICATION CStoreSpec
SYMMETRY CallSymmetry
INVARIANTS ReadsFollowAcks LossNeedsRepetition
CHECK_DEADLOCK FALSE
