SPECIFICATION FairSpec
CONSTANTS
  KeepCharging = TRUE
  MaxResumes = 2
  MaxChanges = 1
  Requests = {"switchover", "manual", "automatic"}
INVARIANTS SetUpForState AgreesUnlessRaced NeverAsserts
PROPERTIES CableBreakSwitches ExtraFollows OverloadIsCut
