SPECIFICATION Spec
CONSTANTS
  agent = agent
  human = human
  observe = observe
  restart = restart
  change = change
  Nobody = Nobody
  Procs = {p1, p2}
  Supervised = {p1}
  Requests = {r1}
  Actors = {agent, human}
  Approvers = {human}
  Runbooks = {observe}
  ClassOf <- MCClassOf
  Granted <- MCGranted
  DecisionIds = {e1}
  ApprovalTTL = 1
  MaxAttempts = 1
  Window = 1
  MaxTime = 2
  MaxRefusals = 0
PROPERTIES
  RecoveryFailsOnlyInterrupted
