SPECIFICATION RestartSpec
CONSTANTS
  P1 = P1
  P2 = P2
  Policies = {P1}
  Paths = {1, 2}
  Semantics <- AllTimingSemantics
  Bindings <- OnlyUp
  Events = {"DECLARE_CANDIDATE"}
  Operations = {"REVALIDATE", "SUSPEND", "RESUME"}
  Values = {200, 900}
  Qualities = {4}
  IndexCap = 3
  PendingLimit = 2
  HistoryLimit = 0
  ChurnLimit = 1
  PenaltyLimit = 2
  RevocationLimit = 0
  CandidateLimit = 2
  TicketBound = 1
  MaxNow = 1
  MaxEpoch = 1
  MaxGeneration = 1
  MaxEvidence = 6
  MaxWatermark = 1
  MaxAdaptation = 4
  ConservativeRecovery = TRUE
  DecisionLimit = 0
  Clocks = {0, 3}
  MaxRecoveries = 1
PROPERTY ReturnsRevalidated
CHECK_DEADLOCK FALSE
