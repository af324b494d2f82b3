SPECIFICATION FairSpec
CONSTANTS
  PIPE = 2
  READ = 1
  LEN = 3
  PACKET = 2
  MaxOpens = 2
  MaxChunks = 3
  MaxPings = 3
  MaxEvents = 2
INVARIANTS SleepsOnlyIdle NoOrphanSession RunsWhole
PROPERTIES PendingRuns
