SPECIFICATION BaseSpec
CONSTANTS
  P1 = P1
  P2 = P2
  Policies = {P1}
  Paths = {1, 2}
  Semantics <- OnlyBase
  Bindings <- OnlyUp
  Events = {}
  Operations = {"REVALIDATE"}
  Values = {1400}
  Qualities = {4}
  IndexCap = 3
  PendingLimit = 2
  HistoryLimit = 4
  ChurnLimit = 1
  PenaltyLimit = 0
  RevocationLimit = 0
  CandidateLimit = 2
  TicketBound = 2
  MaxNow = 0
  MaxEpoch = 1
  MaxGeneration = 1
  MaxEvidence = 4
  MaxWatermark = 1
  MaxAdaptation = 5
PROPERTIES OneAdvancePerState
CHECK_DEADLOCK FALSE
