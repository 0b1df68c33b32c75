SPECIFICATION MCSpec
CONSTANTS
  d0 = d0
  d1 = d1
  d2 = d2
  Clients = {c1, c2}
  Docs <- MCDocs
  Updates <- MCUpdates
  Reject = Reject
  Noop = Noop
  Empty = d0
  Torn = Torn
  Nobody = Nobody
  p1 = p1
  p2 = p2
  Callers = {p1, p2}
  Programmes <- MCProgrammes
  MaxTimers = 1
  Requests = {r1, r2}
  Main = Main
  Loops = {k, l}
  MaxStarts = 3
  Messages = {m, n, o}
  Handlers = {g, h}
  ChannelCap = 1
  a1 = a1
  j1 = j1
INVARIANTS
  TypesOK
  OneProgramme
  OneLoop
PROPERTIES
  Atomic
  CallsReturn
  HandedOut
CHECK_DEADLOCK FALSE
