SPECIFICATION OnceSpec
CONSTANTS
  Versions = {1, 6}
  Grants <- MCGrants
  Urls <- MCUrls
  Bytes = {1, 2, 3, 4}
  Bodies <- MCBodies
  Sizes = {1, 2}
  Inputs = {0, 4}
  PIPE = 1
  MAX_HTTP_STREAMS = 2
  MaxCalls = 4
  ABSENT = ABSENT
  NONE = NONE
  Areas = {"a"}
  Cap = 1
  MaxEvents = 3
  Poll = 2
  Delays = {2}
  Wall = 1
  MaxPicks = 1
  Interfaces = {"e", "w"}
  GAP = 2
  MaxBytes = 2
  Word = 1024
  MaxTime = 5
  NIL = NIL
  NULL = NULL
  Kinds = {"cpu"}
  Silent = {}
  Drives <- MCDrives
  Token <- MCToken
  Tasks = {"t1", "t2"}
  Periods = {1, 2}
PROPERTIES
  FeedArrives
CHECK_DEADLOCK FALSE
