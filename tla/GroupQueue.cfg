\* An array-backed queue that is usually full: Q_input_gtf, Q_detection_output,
\* file_queue and block_queue of the pipelines.
CONSTANTS
  e1 = e1
  e2 = e2
  Emitters <- TwoEmitters
  NumElements <- TwoNumbers
  Receivers = {r1, r2}
  Capacity = 2
  MaxGroupSize = 2
  MaxInterrupts = 2
SPECIFICATION Spec
INVARIANTS
  TypeOK
  NothingLost
  NothingTwice
  InOrder
  PoisonLast
  PoisonPerReceiver
PROPERTIES
  ImplementsChannel
  Closes
