SPECIFICATION Spec
CONSTANTS
  a = a
  NoThread = NoThread
  NoProc = NoProc
  NoSource = NoSource
  Callers = {c1}
  Timers = {t1}
  Procs = {p1, p2}
  Sources = {a}
  Playlists <- OneFile
  Configs <- AllConfigs
  MaxPos = 1
SYMMETRY Symmetry
INVARIANTS
  TypeOK
  SingleProcess
  PausedHeld
  SignalledNeverAdvances
PROPERTIES
  StopReturnsStopped
