CONSTANTS
  api = api
  bot = bot
  w1 = w1
  w2 = w2
  cli = cli
  db = db
  a1 = a1
  a2 = a2
  r1 = r1
  r2 = r2
  None = None
  Api = api
  Db = db
  Bots = {}
  Consumers = {w1, w2}
  Clis = {}
  App = {a1}
  Req = {r1}
  ReqApp <- JustOne
  Content = {"v1"}
  Orphan = {}
  Modes = {"paused"}
  InitialMode = "full_auto_apply"
  IrreversibleActionsEnabled = TRUE
  Outcomes = {"submitted"}
  MaxAttempts = 2
  MaxStalls = 1
  MaxPending = 2
  MaxOps = 3
  MaxRestarts = 2
SPECIFICATION Spec
SYMMETRY Symmetry
PROPERTIES
  SubmitOnce
CHECK_DEADLOCK FALSE
