\* Two calls of every kind, repeated once at most, a blank name for each part,
\* and replies that lose their body.
CONSTANTS
  Calls = {c1, c2}
  MaxRetries = 1
  Keys = {k1, blank}
  HashKeys = {h1, blank}
  Fields = {f1, f2, blank}
  Blank = blank
  Values <- PlainAndNull
  Kinds = {"set", "get", "get_status", "hset", "hget", "hgetall"}
  Emptied = TRUE
  Missing = missing
SPECIFICATION CStoreSpec
SYMMETRY CallSymmetry
INVARIANTS CStoreTypeOK AckMeansAccepted NoBlankNameStored ReadsFollowAcks
PROPERTY ImplementsSharedStore
CHECK_DEADLOCK FALSE
