CONSTANTS
  Threads = {t1, t2}
  Maintainer = mt
  Actors <- MCActors
  Drafts <- MCDrafts
  Seeds <- MCSeeds
  MaxCalls = 2
  MaxFaults = 1
  Clients = {c1, c2}
  NoClient = none
  Records = {1, 2}
  Budget = 2
  MaxDay = 1
  MaxRequests = 2
  MaxDeaths = 1
  Private <- MCPrivate
  Unusable <- MCUnusable
  PageSize = 2
  MaxPages = 2
  Texts = {1, 2, 3}
  MaxRecords = 4
  MaxChanges = 2
  MaxLosses = 1
  Items = {m1}
  Retain = 1
  MaxBackups = 2
  MaxMishaps = 2
  RaftKeep = 1
  MaxRaft = 4
  MaxRaftFaults = 2
SPECIFICATION Spec

INVARIANTS
  StoreHolds
  PaidCallsHold
  SyncHolds
  BackupsHold

PROPERTIES
  MemorySettles

CHECK_DEADLOCK FALSE
