CONSTANTS
  Requests = {1}
  Operators = {"alice", "bob"}
  Args <- MCArgs
  Fingerprint <- MCFingerprint
  Incidents = {1}
  Ttl = 1
  OperatorFails = TRUE
SPECIFICATION MCFairSpec
INVARIANTS
  IInv
  ConsentBound
  SuccessIsReal
  RunsOnceUnlessCutOff
PROPERTIES
  SettledIsFinal
  DecisionStandsUnlessMet
  EveryRequestSettles
