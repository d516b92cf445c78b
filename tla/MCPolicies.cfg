SPECIFICATION Spec
CONSTANTS
  Candidates <- TwoModels
  Scenarios = {"s1", "s2"}
  WarmupRuns = 1
  MeasuredRuns = 1
  StableSamples = 2
  CooldownPolls = 3
  MaxCampaigns = 2
  MaxDamages = 1
  Configurations <- SmallConfigurations
  Catalogues <- SmallCatalogues
  Registries <- SmallRegistries
  Reviewed = {"acc1", "acc2"}
  RoutableProfiles = {"fast"}
  MaxEdits = 2
  MediumConfidence = 60
  HighConfidence = 80
  SimpleComplexity = 30
  ComplexComplexity = 70
  MaxContextTokens = 100
  Absolute = {"/x", "/sudo", "/sh", "/h"}
  Shells = {"/sh"}
  SafeValues = {"on"}
  Callers = {"t1", "t2"}
  Order <- SmallOrder
  Parsers = {"deepseek", "stepfun"}
  FinanceRegistries <- SmallFinanceRegistries
  Replies = {"error", "plain", "limit", "minus zero", "uncaught"}
  Capacity = 1
  MaxRefreshes = 2
  MaxFaults = 1

INVARIANTS
  PromotionHolds
  AdmissionHolds
  PoliciesHold

PROPERTIES
  PoliciesEnd
