SPECIFICATION Spec
CONSTANTS
  Requests = {r1, r2, r3}
  Burst = 2
  Costs = {1, 2, 3}
  Actuals = {1, 3}
INVARIANTS
  TypeOK
  PaidBeforeRun
  ProbeMatchesReserve
PROPERTIES
  ImplementsIdeal
  WaitEnds
