SPECIFICATION Spec
CONSTANTS
  Ids = {t1}
  Defs = {d1, d2}
  Effects = {f1, f2}
  Engines = {e1, e2}
  Callers = {c1, c2}
  Faults = {"disk", "kill", "timer"}
  NoDef = NoDef
  NoEffect = NoEffect
  NoEngine = NoEngine
SYMMETRY Symmetry
INVARIANTS
  TypeOK
  LaunchesCurrent
  OrphansExplained
  AcknowledgedIsStored
