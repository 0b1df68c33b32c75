SPECIFICATION MCSpec
CONSTANTS
  Outputs = {main}
  Clients = {c1, c2}
  Adders = {c2}
  Callbacks = {b1}
  Configured = {main}
  ChanCap = 1
  MaxPrompts = 1
  NoOutput = NoOutput
INVARIANTS
  TypeOK
  NoneForgotten
PROPERTIES
  AnswerReachesWaiter
CHECK_DEADLOCK FALSE
