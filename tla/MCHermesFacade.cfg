SPECIFICATION Spec
CONSTANTS
  c1 = c1
  c2 = c2
  dear = dear
  cheap = cheap
  acct = acct
  NoAccount = NoAccount
  NoUsage = NoUsage
  Chats = {c1, c2}
  Providers = {dear, cheap}
  Calls <- MCCalls
  Routes <- MCCalls
  Missions <- MCMissions
  AccountOf <- MCAccountOf
  PoolOrder <- MCPool
  PriceOf <- MCPriceOf
  ProviderBudget <- MCProviderBudget
  AccountBudget <- MCAccountBudget
  Bodies <- MCBodies
  Reports <- MCReports
  Overhead = 1
  MaxInput = 3
  MaxOutput = 1
  MaxEvents = 1
  MaxWorkers = 2
  PriceUnit = 2
  DaysPerMonth = 2
  MaxDay = 1
  MaxFaults = 1

INVARIANTS
  SpendCapsHold
  ChatsHold

PROPERTIES
  ChatsEnd

CHECK_DEADLOCK FALSE
