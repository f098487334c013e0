\* Files that fit into the pipes and files that do not.  A chain that only
\* streams may stop for good with a file that does not fit, which Returns
\* is about.
CONSTANTS
  MaxLength = 2
  MaxSize = 6
  Capacity = 1
  MaxComplaints = 2
SPECIFICATION Spec
CHECK_DEADLOCK FALSE
INVARIANTS
  WholeOutput
PROPERTIES
  Returns
