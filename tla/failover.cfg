SPECIFICATION FairSpec
CONSTANTS
  primary = primary
  backup = backup
  NoOutput = NoOutput
  NoSpec = NoSpec
  NoRuntime = NoRuntime
  Ids = {f1}
  Outputs = {primary, backup}
  Specs <- AllSpecs
  MaxAge = 2
INVARIANTS
  TypeOK
PROPERTIES
  SwitchJustified
  FailsOver
  FailsBackRemembered
