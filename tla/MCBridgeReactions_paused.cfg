SPECIFICATION MCSpec
CONSTANTS
  People = {u1, u2}
  Approvers = {u1}
  Actions = {a1}
  NoOutcome = NoOutcome
  MaxQueues = 2
  MaxEvents = 3
  MaxMisses = 1
  Orders <- SomeOrders
  MaxTurns = 1
  MaxFaults = 1
  Fingerprints = {f1, f2}
  Approvals = {}
  Reports = {}
  Nothing = Nothing
  Late <- AnyKey
  MaxEpisode = 1
  MaxFailures = 2
PROPERTY
  PausedMissionsAreAnswered
CHECK_DEADLOCK FALSE
