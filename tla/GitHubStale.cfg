SPECIFICATION Spec
CONSTANTS
  Threads = {"a", "b"}
  Reviews = {"a"}
  Muted = {}
  MaxChanges = 3
  MaxFaults = 1
  NONE = NONE
PROPERTIES
  NotModifiedIsShown
CHECK_DEADLOCK FALSE
