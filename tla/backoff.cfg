\* Every policy over integers of five bits, beyond the width of the shift.
CONSTANTS
  Width = 5
  Durations <- AllDurations
  Jitters <- SomeJitters
  LastAttempt = 7
SPECIFICATION Spec
INVARIANTS NeverBusy JitterBounded DoublesUntilCapped
PROPERTY NeverShrinks
CHECK_DEADLOCK FALSE
