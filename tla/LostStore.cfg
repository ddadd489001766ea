SPECIFICATION Spec
CONSTANTS
  r1 = r1
  Sessions = {s1, s2}
  Encodings <- DurableStates
  DiskMayFail = FALSE
  Publishers = {p1}
  Boots = {b1, b2}
  Routes = {r1}
  Scopes <- AnyRoute
  Payloads <- Batches
  MaxPublishers = 1
  MaxAttempts = 2
  MaxGeneration = 2
  MaxAccepted = 9
  Configurations <- SharedStore
  MaxFrames = 2
PROPERTY StoreIsReplacedWhole
CHECK_DEADLOCK FALSE
