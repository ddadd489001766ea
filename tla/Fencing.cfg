SPECIFICATION FencingSpec
CONSTANTS
  P1 = P1
  P2 = P2
  Policies = {P1, P2}
  Paths = {1, 2}
  Semantics <- FencingSemantics
  Bindings <- FencingBindings
  Events <- AllEvents
  Operations <- PolicyEvent
  Values = {400, 1400}
  Qualities = {4}
  IndexCap = 3
  PendingLimit = 1
  HistoryLimit = 0
  ChurnLimit = 1
  PenaltyLimit = 0
  RevocationLimit = 1
  CandidateLimit = 2
  TicketBound = 1
  MaxNow = 2
  MaxEpoch = 2
  MaxGeneration = 2
  MaxEvidence = 4
  MaxWatermark = 1
  MaxAdaptation = 4
  Callers = {c1, c2}
  EvaluationLimit = 1
  MaxDecisions = 2
  MaxSettlements = 2
  Candidates = {1, 2}
  Targets <- MCTargets
  Facts <- MCFacts
  MaxTicks = 1
  MaxEpochs = 2
SYMMETRY Symmetric
INVARIANTS TypeOK SnapshotIsPresent IndexMatchesScan PendingBounded SlotsAreCounted OvershootIsBounded CurrentIsEligible
PROPERTIES TerminalIsFinal CommitsTheDecision InvalidationIsTargeted
CHECK_DEADLOCK FALSE
