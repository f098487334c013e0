\* Each of the four pipelines on each of six files, in partitions of two blocks
\* if any; reading and writing may fail.  The queues are often full.  The system
\* may stop short, which HangsOnlyAfterFaultDetection is about.
CONSTANTS
  a = a
  b = b
  c = c
  Percentage = 60
  MaxTokens = 9
  Terms <- ThreeTerms
  TermOrder <- ThreePlaces
  Files <- AllFiles
  threshold <- Ceiling
  MinLines = 3
  MaxLines = 0
  MinTokens = 2
  MaxTokensAllowed = 20
  Workers = {w1, w2}
  InputCapacity = 2
  OutputCapacity = 1
  GroupSize = 2
  PartitionSize = 2
  Faults = {"read", "write"}
SPECIFICATION SpecDetection
CHECK_DEADLOCK FALSE
INVARIANTS
  IndexIsPartition
  HangsOnlyAfterFaultDetection
PROPERTIES
  ImplementsReport
  Terminates
