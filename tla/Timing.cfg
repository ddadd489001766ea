SPECIFICATION TimingSpec
CONSTANTS
  P1 = P1
  P2 = P2
  Policies = {P1}
  Paths = {1, 2}
  Semantics <- AllTimingSemantics
  Bindings <- OnlyUp
  Events = {"MARK_UNAVAILABLE", "DECLARE_CANDIDATE"}
  Operations = {"REVALIDATE"}
  Values = {200, 900}
  Qualities = {4}
  IndexCap = 3
  PendingLimit = 2
  HistoryLimit = 3
  ChurnLimit = 2
  PenaltyLimit = 2
  RevocationLimit = 0
  CandidateLimit = 2
  TicketBound = 1
  MaxNow = 4
  MaxEpoch = 1
  MaxGeneration = 1
  MaxEvidence = 6
  MaxWatermark = 1
  MaxAdaptation = 5
  ConservativeRecovery = TRUE
  DecisionLimit = 3
  Clocks = {0, 2}
  MaxRecoveries = 1
INVARIANTS AnchorIsDisplaced RestartKeepsGuards
PROPERTIES HoldDownRespected CooldownRespected ChurnBounded GuardsSurviveRestart
CONSTRAINT TimingBounds
ACTION_CONSTRAINT OnlyMovesAreRecorded
CHECK_DEADLOCK FALSE
