SPECIFICATION Spec
CONSTANTS
  Ids = {t1}
  Defs = {d1}
  Effects = {f1}
  Engines = {e1, e2}
  Callers = {c1}
  Faults = {}
  NoDef = NoDef
  NoEffect = NoEffect
  NoEngine = NoEngine
PROPERTIES
  StopHalts
