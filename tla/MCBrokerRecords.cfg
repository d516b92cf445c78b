SPECIFICATION RecordsSpec
CONSTANTS
  agent = agent
  human = human
  observe = observe
  restart = restart
  change = change
  Nobody = Nobody
  Procs = {p1, p2}
  Supervised = {p1}
  Requests = {r1, r2}
  Actors = {agent, human}
  Approvers = {human}
  Runbooks = {restart, change}
  ClassOf <- MCClassOf
  Granted <- MCGranted
  DecisionIds = {e1, e2}
  ApprovalTTL = 1
  MaxAttempts = 1
  Window = 1
  MaxTime = 1
  MaxRefusals = 0
  MissionIds = {m1, m2}
  Actions = {x1}
  Callers = {a1}
  CallIds = {c1, c2}
  Texts = {"t1", "t2"}
  MaxIterations = 2
  MaxApiCalls = 1
  Retain = 1
  MaxEvents = 3
  MaxBackups = 2
  MaxCreating = 2
  Null = Null
SYMMETRY RecordsSymmetry

INVARIANTS
  ClassCNeedsHuman
  OneDecision
  BudgetHolds
  ContextHolds
  TrailHolds

CHECK_DEADLOCK FALSE
