CONSTANTS
  HeadKept = 3
  KeepRecent = 1
  LongWeight = 4
  Target = 12
  MaxSteps = 2
  MaxMessages = 12
  EmergencyMax = 6
  Threshold = 15
  BreakerLimit = 2
  Cases = {"case1"}
  Runbooks = {"nginx_restart"}
  MaxCalls = 2
  MaxIncoming = 1
  MaxTurns = 2
  MaxOthers = 1
SPECIFICATION Spec
INVARIANTS
  PairsStayTogether
