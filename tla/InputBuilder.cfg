\* Files of which some are not taken, some have no blocks and some kill the
\* worker; reading and writing may fail.  The queues are often full.  The
\* system may stop short, which HangsOnlyAfterFault is about.
CONSTANTS
  Listings <- SomeListings
  FromRoot = TRUE
  Languages = {"java", "c"}
  MinLines = 3
  MaxLines = 20
  MinTokens = 5
  MaxTokens = 100
  Workers = {w1, w2}
  FileCapacity = 2
  BlockCapacity = 2
  GroupSize = 2
  Faults = {"read", "write"}
SPECIFICATION Spec
CHECK_DEADLOCK FALSE
INVARIANTS
  TypeOK
  InSourceOrder
  Complete
  LossBounded
  HangsOnlyAfterFault
PROPERTIES
  Terminates
