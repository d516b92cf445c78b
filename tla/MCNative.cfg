CONSTANTS
  Messages = {1, 2}
  Asks <- MCAsks
  PendingLimit = 1
  Acting = {1}
  MaxFaults = 1
  MaxSwitches = 1
  Steps <- MCSteps
  After <- MCAfter
  MaxUpgrades = 1
  MaxInterruptions = 2
SPECIFICATION MCSpec

INVARIANTS
  JobsHold
  StepsHold

PROPERTIES
  HandoffReaches

CHECK_DEADLOCK FALSE
