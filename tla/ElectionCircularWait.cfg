SPECIFICATION Spec
CONSTANTS
  m1 = m1
  m2 = m2
  uc = uc
  mc = mc
  ut = ut
  dr = dr
  Requests = {r1, r2, r3}
  Asks <- OneAsk
  Configured <- NestedModels
  SpecOf <- SharedSpecs
  AliasConfigs <- SharedAliases
  OutputBuffer = 1
  GroupsOf <- NestedGroupsOf
  Semaphores = {uc, mc}
  Buckets = {}
  Quotas = {}
  LimitOf <- NestedLimits
  Actuals = {0}
  Guesses = {1}
  DayTicks = 1
PROPERTY EveryoneAnswered
