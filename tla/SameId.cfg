SPECIFICATION EvaluationsSpec
CONSTANTS
  Callers = {c1, c2}
  EvaluationLimit = 2
  MaxDecisions = 2
  MaxSettlements = 1
INVARIANT DecisionIdsAreUnique
CHECK_DEADLOCK FALSE
