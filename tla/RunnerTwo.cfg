CONSTANTS
  Kinds = {1}
  Sustain <- AtOnce
  Requests = {1, 2}
  Operators = {"alice"}
  Fingerprint <- MCFingerprint
  Ttl = 0
  OperatorFails = FALSE
  MaxIncidents = 2
  MaxJobs = 1
  Runbooks = {"nginx_restart"}
  Gated = {"nginx_restart"}
  MaxRetries = 2
  MaxOrphans = 1
  Faults = {"crash", "llm"}
SPECIFICATION Spec
INVARIANTS
  OneOpenPerKind
  TicketMatchesJob
  RecoveryCloses
