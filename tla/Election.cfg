SPECIFICATION Spec
CONSTANTS
  m1 = m1
  m2 = m2
  uc = uc
  mc = mc
  ut = ut
  dr = dr
  Requests = {r1, r2}
  Asks <- SharedAsks
  Configured <- SharedModels
  SpecOf <- SharedSpecs
  AliasConfigs <- SharedAliases
  OutputBuffer = 1
  GroupsOf <- SharedGroupsOf
  Semaphores = {uc}
  Buckets = {ut}
  Quotas = {dr}
  LimitOf <- SharedLimits
  Actuals = {0, 2}
  Guesses = {1}
  DayTicks = 1
INVARIANTS
  TypeOK
  SlotsConserved
  RunningHoldsItsSlots
  NothingLeftBehind
  ReserveNeverRefused
  RefusedOnlyIfHopeless
  RouteHonoured
PROPERTY EveryoneAnswered
