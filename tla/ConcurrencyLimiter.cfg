SPECIFICATION Spec
CONSTANTS
  Requests = {r1, r2, r3, r4}
  Limit = 2
  DefaultDelay = 3
  WaitTimes = {1}
INVARIANTS
  TypeOK
  SlotsConserved
  RunningHoldsSlot
  EstimateFromEvidence
PROPERTY WaitersServed
