SPECIFICATION Spec
CONSTANTS
  r1 = r1
  r2 = r2
  n1 = n1
  x1 = x1
  Routes = {r1, r2}
  Publishers = {p1, p2}
  Boots = {b1, b2, b3}
  Sessions = {s1, s2}
  Attempts = {a1, a2, a3}
  Payloads <- ThreeKinds
  Scopes <- FirstRoute
  MaxPublishers = 2
  MaxAttempts = 2
  MaxGeneration = 3
  MaxAccepted = 4
INVARIANTS
  TypeOK
  RegistrationIsCurrent
  FencedOnce
  RetryWindow
  TableMatchesOrder
PROPERTY ImplementsIncarnation
CONSTRAINT Bounds
SYMMETRY Symmetric
