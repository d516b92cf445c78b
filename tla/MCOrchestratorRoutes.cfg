SPECIFICATION MCSpec
CONSTANTS
  r1 = r1
  r2 = r2
  m1 = m1
  local = local
  expert = expert
  coder = coder
  premium = premium
  acctA = acctA
  acctB = acctB
  famF = famF
  famG = famG
  pr1 = pr1
  pr2 = pr2
  ask = ask
  fix = fix
  NULL = NULL
  Nobody = Nobody
  NoAccount = NoAccount
  Routes = {r1, r2}
  Missions = {m1}
  Providers = {local, expert, coder, premium}
  Local = {local}
  Calls <- MCCalls
  AccountOf <- MCAccountOf
  FamilyOf <- MCFamilyOf
  RoleOf <- MCRoleOf
  Profile <- MCProfile
  PriceOf <- MCPriceOf
  ProviderBudget <- MCProviderBudget
  AccountBudget <- MCAccountBudget
  Requests <- MCRequests
  Reports <- MCReports
  PriceUnit = 2
  DaysPerMonth = 2
  MaxDay = 1
  MaxOutput = 1
  MaxIterations = 2
  MaxProviderCalls = 2
  MaxFaults = 1
  MediumConfidence = 60
  HighConfidence = 80
  SimpleComplexity = 30
  ComplexComplexity = 70
  MaxContextTokens = 100
  Runs = {r1, r2}
  Ranked = {expert, premium}
  TaskMissions = {m1}
  Projects = {pr1, pr2}
  TaskTypes = {ask, fix}
  Accounts = {acctA, acctB}
  AccountConfigs <- MCAccountConfigs
  Unbound = NULL
  NoModel = Nobody
  MaxRows = 1
  MaxGroups = 1
  MaxCalls = 2
  MaxDeaths = 1
SYMMETRY RouteSymmetry

INVARIANTS
  CallCapsHold
  RoutesHold
  NeverStuck
  OutcomesHold

PROPERTIES
  RoutesEnd

CHECK_DEADLOCK FALSE
