CONSTANTS
  Kinds = {1}
  Sustain <- MCSustain
  Requests = {1}
  Operators = {"alice"}
  Fingerprint <- MCFingerprint
  Ttl = 1
  OperatorFails = FALSE
  MaxIncidents = 1
  MaxJobs = 1
  Runbooks = {"nginx_restart"}
  Gated = {"nginx_restart"}
  MaxRetries = 2
  MaxOrphans = 0
  Faults = {"llm"}
SPECIFICATION Spec
INVARIANTS
  NoneLeftInvestigating
