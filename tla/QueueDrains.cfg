CONSTANTS
  api = api
  bot = bot
  w1 = w1
  w2 = w2
  cli = cli
  db = db
  a1 = a1
  a2 = a2
  r1 = r1
  r2 = r2
  None = None
  Api = api
  Db = db
  Bots = {}
  Consumers = {w1}
  Clis = {}
  App = {a1, a2}
  Req = {r1, r2}
  ReqApp <- OneForEach
  Content = {"v1"}
  Orphan = {a2}
  Modes = {"review_first"}
  InitialMode = "full_auto_apply"
  IrreversibleActionsEnabled = TRUE
  Outcomes = {"submitted", "blocked", "failed"}
  MaxAttempts = 2
  MaxStalls = 1
  MaxPending = 2
  MaxOps = 3
  MaxRestarts = 1
SPECIFICATION FairSpec
PROPERTIES
  JobsSettle
CHECK_DEADLOCK FALSE
