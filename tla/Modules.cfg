SPECIFICATION MCSpec
CONSTANTS
  Builtins = {"clock"}
  Plugins = {"w"}
  Chrome = {"switcher"}
  Keys = {"a", "b", "s", "w"}
  Cfgs = {"e", "x"}
  EMPTY = "e"
  Configs <- MCConfigs
  Adopts = {"clock"}
  MaxMtime = 2
  MaxBuilds = 2
  NONE = NONE
  TORN = TORN
  Clients = {"c"}
  TrayModules = {"m", "n"}
  MaxWorkers = 2
  MaxMoves = 4
  NOBODY = NOBODY
  Root = Root
  Other = Other
  Dead = Dead
  Items = {"a", "b"}
  WithMenu = {"a", "b"}
  MenuOnly = {"b"}
  MaxRequests = 4
  NOITEM = NOITEM
INVARIANT
  InstancesSound
  NoneLeftBehind
PROPERTIES
  Idempotent
  MenuCurrent
  TraySound
  WorkspacesFollow
  SourcesFollow
  ReadingsFollow
CHECK_DEADLOCK FALSE
