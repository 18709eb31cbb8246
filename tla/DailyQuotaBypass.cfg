SPECIFICATION Spec
CONSTANTS
  Requests = {r1, r2, r3}
  Limit = 2
  Costs = {1, 2, 3}
  Actuals = {0, 1, 3}
  DayTicks = 2
INVARIANT RunningIsCharged
