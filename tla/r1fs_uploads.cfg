\* Two calls, repeated once at most: uploads, readers, nonces, calculations, reads
\* and deletes.  The operations on pickle are those on JSON with another format.
CONSTANTS
  Calls = {c1, c2}
  MaxRetries = 1
  Contents = {x}
  Empty = empty
  Nonces = {n1}
  NoNonce = noNonce
  Kinds = {"add_file", "add_file_base64", "add_json", "add_yaml",
           "calculate_json_cid", "get_file",
           "get_file_base64", "get_yaml", "delete_file", "delete_files"}
  Emptied = TRUE
SPECIFICATION R1FSSpec
SYMMETRY CallSymmetry
INVARIANTS R1FSTypeOK AckedUploadIsWhole OrphansNeedRepetition
PROPERTIES ReadsFollowUploads MissingFileReported ImplementsFileStore
CHECK_DEADLOCK FALSE
