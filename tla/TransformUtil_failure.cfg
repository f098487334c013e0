\* A process that fails before the last one.
CONSTANTS
  MaxLength = 2
  MaxSize = 2
  Capacity = 1
  MaxComplaints = 1
SPECIFICATION Spec
CHECK_DEADLOCK FALSE
INVARIANTS
  FailureReported
