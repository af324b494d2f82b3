SPECIFICATION Spec
CONSTANTS
  a = a
  b = b
  m = m
  Keys = {a, b}
  Mods = {}
  ReportRoom = 1
  KC_NO = KC_NO
  QUEUE_SIZE = 1
  Redundant = TRUE
  Prompt = TRUE
  MaxStalls = 1
  MaxSuspends = 1
  MaxResets = 1
INVARIANTS QueueLock AccessibleOnlyActive
CHECK_DEADLOCK FALSE
