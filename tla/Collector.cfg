SPECIFICATION Spec
CONSTANTS
  Absent = Absent
  Requests = {n1, n2}
  Reviews = {r1}
  RequestStates <- SomeRequestStates
  ReviewStates <- SomeReviewStates
  MaxMoves = 3
  MaxDisturbances = 2
INVARIANT GaugesShowOneRound
PROPERTY GaugesCatchUp
CHECK_DEADLOCK FALSE
