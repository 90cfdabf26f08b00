CONSTANTS
  v1 = v1
  v2 = v2
  Vacancies = {v1, v2}
  UrlKey <- MCUrlKey
  Surfaces = {"normalized_jobs", "dedup_jobs"}
  MaxCalls = 4
  MaxLost = 0
  MaxReopens = 1
  Keys = {"k1", "k2"}
  Callers = {}
  Uses <- MCUses
  MaxClaimCalls = 5
  MaxClaimCrashes = 0
  SecretIds = {"i1", "i2"}
  ObjectKeys = {"o1"}
  FileRequests = {}
  MaxFileOps = 4
  MaxFileCrashes = 0
SPECIFICATION MCSpec
INVARIANTS
  DecisionsStored
CHECK_DEADLOCK FALSE
