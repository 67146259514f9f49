\* Three requests of any kind; the service may be at rest when all are answered.
CONSTANTS
  r1 = r1
  r2 = r2
  r3 = r3
  Request = {r1, r2, r3}
  Kind = {"wallet", "reset", "create", "delete"}
  Type = {"OneShotBuy", "Countersell"}
SPECIFICATION Spec
INVARIANTS
  Consistent
  AnswersTrue
PROPERTIES
  RemovalEffective
  EveryRequestAnswered
\* All requests are answered.
CHECK_DEADLOCK FALSE
