\* Files whose blocks can be read and files with blocks that kill builders;
\* reading and writing may fail.  The queues are often full.  The system may
\* stop short, which HangsOnlyAfterFault is about.
CONSTANTS
  a = a
  b = b
  c = c
  Percentage = 60
  MaxTokens = 9
  Terms <- ThreeTerms
  TermOrder <- ThreePlaces
  Files <- AllFiles
  threshold <- Ceiling
  MinLines = 3
  MaxLines = 0
  MinTokens = 2
  MaxTokensAllowed = 20
  Workers = {w1, w2}
  InputCapacity = 2
  OutputCapacity = 1
  GroupSize = 2
  Faults = {"read", "write"}
SPECIFICATION Spec
CHECK_DEADLOCK FALSE
INVARIANTS
  TypeOK
  AllCounted
  IndexedBeforeDetection
  ReportedOnce
  AllClones
  HangsOnlyAfterFault
PROPERTIES
  SortedOnStableGTF
  Terminates
