SPECIFICATION MCSpec
CONSTANTS
  NULL = NULL
  Names = {"DP"}
  Globals <- ReplugGlobals
  NameOf <- ReplugNameOf
  Configs <- WantedConfigs
  Serials = {0, 1}
  HasChip = FALSE
  Failures = "warm"
INVARIANTS
  OneSurfaceEach
  CursorFollows
  BarsAgree
PROPERTIES
  SurfacesSettle
CHECK_DEADLOCK FALSE
