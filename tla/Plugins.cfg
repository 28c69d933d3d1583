SPECIFICATION MCSpec
CONSTANTS
  Ids = {"a", "b"}
  Versions = {1, 2}
  Index <- MCIndex
  NONE = NONE
  TORN = TORN
  Loaders = {"l1", "l2"}
  Path <- OneFile
  Contents = {"v1", "v2"}
  MaxArts = 1
  MaxFiles = 4
  OLD = OLD
  NIL = NIL
INVARIANTS
  ArtifactsSound
  RecordBehind
PROPERTIES
  OnePublisher
CHECK_DEADLOCK FALSE
