CONSTANTS
  Kinds = {1}
  Sustain <- AtOnce
  Requests = {1}
  Operators = {"alice", "bob"}
  Fingerprint <- MCFingerprint
  Ttl = 0
  OperatorFails = FALSE
  MaxIncidents = 1
  MaxJobs = 2
  Runbooks = {"nginx_restart", "docker_restart"}
  Gated = {"docker_restart"}
  MaxRetries = 2
  MaxOrphans = 0
  Faults = {"crash", "llm", "db"}
SPECIFICATION FairSpec
INVARIANTS
  AwaitingCanProceed
  OneJobPerIncident
  CasesAgree
  VerifiedCasesAreReal
PROPERTIES
  ResolvedIsProven
  EveryIncidentRests
  AwaitingSurvivesFaults
