SPECIFICATION ConsentSpec
CONSTANTS
  Absent = Absent
  NONE = NONE
  log1 = log1
  log2 = log2
  Ids = {"a", "b"}
  Managed = {"a"}
  Versions = {1, 2}
  Caps = {"net", "exec"}
  Dangerous = {"exec"}
  Declares <- Wants
  Overlap = TRUE
  TORN = TORN
  Lengths <- Spring
  MaxSteps = 4
  Leaves <- MCLeaves
  Palettes <- MCPalettes
  Minute = 4
  Hour = 8
  Day = 24
  MAX_IDLE = 3
  Zones <- MCZones
  End = 90
  MaxJumps = 1
  Meters = {"native", "codex", "guest"}
  Sessions = {log1, log2}
  MaxPid = 2
  Spare = 0
  MaxLines = 3
  MaxIds = 2
  MaxOut = 2
  NOSESSION = NOSESSION
INVARIANTS
  SavedStays
