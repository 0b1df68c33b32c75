SPECIFICATION FairSpec
CONSTANTS
  normal = normal
  important = important
  critical = critical
  urgent = urgent
  NoTask = NoTask
  NoKey = NoKey
  Tasks = {normal, important, critical, urgent}
  Prio <- MCPrio
  Mode <- TimedMode
  Durations = {FALSE}
  Keys = {k1, k2, k3}
  Runs = {r1, r2}
  MaxQueue = 1
INVARIANTS
  TypeOK
  QueueBacked
  SlotBacked
  MarkersBacked
  OneTargetUntilRestore
PROPERTIES
  PreemptsUpwards
  InterruptEnds
  QueueDrains
