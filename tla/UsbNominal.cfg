SPECIFICATION FairSpec
CONSTANTS
  a = a
  b = b
  m = m
  Keys = {a, b}
  Mods = {m}
  ReportRoom = 2
  KC_NO = KC_NO
  QUEUE_SIZE = 2
  Redundant = FALSE
  Prompt = TRUE
  MaxStalls = 0
  MaxSuspends = 0
  MaxResets = 0
INVARIANTS CounterFits NeverStranded HostAgreesAtRest
PROPERTIES ImplementsChannel Converges Unblocks
