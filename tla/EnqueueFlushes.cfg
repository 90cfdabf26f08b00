CONSTANTS
  api = api
  h1 = h1
  h2 = h2
  w1 = w1
  w2 = w2
  db = db
  t1 = t1
  None = None
  Api = api
  Db = db
  Handler = {h1}
  Consumers = {w1, w2}
  Task = {t1}
  MaxAttempts = 2
  MaxStalls = 1
  MaxPending = 2
  MaxOps = 2
  MaxRestarts = 1
SPECIFICATION Spec
SYMMETRY Symmetry
INVARIANTS
  TypeOK
  EnqueuedRunStored
  ExecutionBound
CHECK_DEADLOCK FALSE
