SPECIFICATION StreamSpec
CONSTANTS
  Dialects = {"google"}
  Quirks = {"bare_stop"}
  Reasons = {"stop", "calls", "length"}
  MaxFragments = 3
  MaxContents = 3
CHECK_DEADLOCK FALSE
INVARIANT EveryTurnEnds
