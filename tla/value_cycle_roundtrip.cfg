\* client_test.go:106 against ExtractResult.
CONSTANT MaxQuotes = 12
SPECIFICATION Spec
PROPERTY RoundTrip
CHECK_DEADLOCK FALSE
