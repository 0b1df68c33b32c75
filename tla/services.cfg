SPECIFICATION MCSpec
CONSTANTS
  m2 = m2
  q2 = q2
  q3 = q3
  MediaIds = {m1, m2}
  Paths = {"a", "b"}
  PlaylistIds = {q1, q2, q3}
  TaskIds = {"t"}
  CacheIds = {"k"}
  SceneIds = {s1, s2}
  Editors = {c1}
  MaxDepth = 2
  MaxCopies = 1
  Contents = {"x", "y"}
  ConfigTemplateIds = {"t1", "t2"}
  ConfigNames = {"n"}
  Admins = {c1, c2}
  MaxSnapshots = 1
  MaxCreates = 2
  NodeIds = {n1, n2}
  NodeNames = {"x", "y"}
  InstanceIds = {i1}
  MaxCommands = 2
  UserIds = {"u", "v"}
  Usernames = {"x", "y"}
  Passwords = {"p"}
  Clients = {c1, c2}
  MaxSessions = 2
  MaxLogins = 3
  GroupIds = {g1, g2}
  PolicyIds = {"p", "q"}
  RegNames = {"x", "y"}
  Outputs = {o1, o2}
  MaxRefs = 2
  Media = {1, 2}
  NoMedia = 0
  MaxEvents = 3
  Limits = {0, 1, 2}
  TagsOf <- MCTagsOf
  Duration <- MCDuration
  Tags = {"news"}
  SceneKinds = {"logo"}
  TemplateIds = {"t"}
  TemplateNames = {"x"}
  RuleIds = {"r"}
  SuggestionIds = {"s"}
  DeployedIds = {"p", "q"}
  PlannedIds = {"k"}
  Deployers = {c1}
  Key = Key
  Resources = {"x", "y", "z"}
  Configured <- MCConfigured
  MaxHanded = 1
  IncidentKinds = {"engine", "output"}
  AlarmIds = {a1, a2, a3}
  SubIds = {"s1", "s2"}
  SubNames = {"n1", "n2"}
  Jobs = {j1, j2}
  MaxRetries = 2
  MaxHistory = 1
  MaxIncidents = 2
  MaxFailures = 1
  Tasks = {"k"}
  Timings <- MCTimings
  Calendar <- MCCalendar
  MaxEdits = 2
  None = None
  MaxSaved = 1
INVARIANTS
  TypesOK
  ReferencesResolve
  ResultsRight
  CursorFollows
PROPERTIES
  LogsKept
  RecordsKept
  SessionsHold
  IncidentsTold
  FiresWhenDue
CHECK_DEADLOCK FALSE
