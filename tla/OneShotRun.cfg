CONSTANTS
  api = api
  bot = bot
  w1 = w1
  w2 = w2
  cli = cli
  db = db
  a1 = a1
  a2 = a2
  r1 = r1
  r2 = r2
  None = None
  Api = api
  Db = db
  Bots = {bot}
  Consumers = {w1}
  Clis = {cli}
  App = {a1}
  Req = {r1}
  ReqApp <- JustOne
  Content = {"v1", "v2"}
  Orphan = {}
  Modes = {}
  InitialMode = "full_auto_apply"
  IrreversibleActionsEnabled = TRUE
  Outcomes = {"failed"}
  MaxAttempts = 2
  MaxStalls = 1
  MaxPending = 2
  MaxOps = 4
  MaxRestarts = 1
SPECIFICATION Spec
INVARIANTS
  QueuedJobsApproved
  SubmitBackedByApproval

  
CHECK_DEADLOCK FALSE
