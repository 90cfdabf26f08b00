CONSTANTS
  v1 = v1
  v2 = v2
  Vacancies = {v1, v2}
  UrlKey <- MCUrlKey
  Surfaces <- Tables
  MaxCalls = 3
  MaxLost = 1
  MaxReopens = 1
  Keys = {"k1", "k2"}
  Callers = {"c1"}
  Uses <- MCUses
  MaxClaimCalls = 5
  MaxClaimCrashes = 2
  SecretIds = {"i1", "i2"}
  ObjectKeys = {"o1"}
  FileRequests = {"q1"}
  MaxFileOps = 4
  MaxFileCrashes = 2
SPECIFICATION MCSpec
INVARIANTS
  
  ChainedNeverRefused
  ClaimsTypeOK
  WorkOnce
  FilesTypeOK
  SecretsKept
  
CHECK_DEADLOCK FALSE
