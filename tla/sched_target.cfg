SPECIFICATION Spec
CONSTANTS
  normal = normal
  important = important
  critical = critical
  urgent = urgent
  NoTask = NoTask
  NoKey = NoKey
  Tasks = {normal, important, critical, urgent}
  Prio <- MCPrio
  Mode <- TimedMode
  Durations = {TRUE, FALSE}
  Keys = {k1, k2, k3, k4}
  Runs = {r1, r2, r3}
  MaxQueue = 2
SYMMETRY Symmetry
INVARIANTS
  OneTarget
