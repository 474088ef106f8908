\* Three calls, repeated once at most, on files that are stored again.
CONSTANTS
  Calls = {c1, c2, c3}
  MaxRetries = 1
  Contents = {x}
  Empty = empty
  Nonces = {n1}
  NoNonce = noNonce
  Kinds = {"add_yaml", "delete_files", "get_yaml"}
  Emptied = TRUE
SPECIFICATION R1FSSpec
SYMMETRY CallSymmetry
INVARIANTS LossNeedsDelete DeletedStaysGone FalseAlarmNeedsRepetition
PROPERTIES ReadsFollowUploads MissingFileReported
CHECK_DEADLOCK FALSE
