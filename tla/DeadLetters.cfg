CONSTANTS
  api = api
  h1 = h1
  h2 = h2
  w1 = w1
  w2 = w2
  db = db
  t1 = t1
  None = None
  Api = api
  Db = db
  Handler = {h1, h2}
  Consumers = {w1}
  Task = {t1}
  MaxAttempts = 1
  MaxStalls = 0
  MaxPending = 3
  MaxOps = 3
  MaxRestarts = 1
SPECIFICATION Spec
SYMMETRY Symmetry
INVARIANTS
  OutcomesHappened
  RetryBeforeClose
PROPERTIES
  ClosedOnce
CHECK_DEADLOCK FALSE
