SPECIFICATION Spec
CONSTANTS
  r1 = r1
  Sessions = {s1, s2}
  Encodings <- DurableStates
  DiskMayFail = TRUE
  Publishers = {p1, p2}
  Boots = {b1, b2}
  Routes = {r1}
  Scopes <- AnyRoute
  Payloads <- Batches
  MaxPublishers = 2
  MaxAttempts = 2
  MaxGeneration = 2
  MaxAccepted = 9
  Configurations <- NoStoreAtAll
  MaxFrames = 2
INVARIANT RegistrationHasSession
CHECK_DEADLOCK FALSE
