SPECIFICATION MCSpec
CONSTANTS
  NULL = NULL
  Procs = {q1, q2, q3, q4}
  Envs <- MCAliases
  Sessions = {"s0"}
  SessionOf <- MCAliasSessionOf
  Listeners = {q1, q2, q3, q4}
  Displays = {"s1", "s2", "s3"}
  NOFILE = NULL
  MaxFrames = 3
  MaxStreams = 2
  GONE = GONE
  EMPTY = EMPTY
  BROKEN = BROKEN
  DEFAULT = DEFAULT
  ERR = ERR
  NONE = NONE
INVARIANTS
  OneBar
  FramesSound
PROPERTIES
  ImplementsSingleton
  BarComesBack
  NoHijack
  StreamsServe
CHECK_DEADLOCK FALSE
