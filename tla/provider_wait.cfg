SPECIFICATION FairSpec
CONSTANTS
  Outputs = {main}
  Clients = {c1}
  Adders = {}
  Callbacks = {b1}
  Configured = {main}
  ChanCap = 1
  MaxPrompts = 1
  NoOutput = NoOutput
PROPERTIES
  EveryCallReturns
CHECK_DEADLOCK FALSE
