SPECIFICATION FairSpec
CONSTANTS
  Presets = {"dark"}
  MaxSaves = 1
  MaxPicks = 1
  MaxQueue = 1
  GONE = GONE
  EMPTY = EMPTY
  BROKEN = BROKEN
  DEFAULT = DEFAULT
  ERR = ERR
  NONE = NONE
PROPERTIES
  PresetStays
CHECK_DEADLOCK FALSE
