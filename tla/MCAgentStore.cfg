CONSTANTS
  a1 = a1
  a2 = a2
  c1 = c1
  None = None
  Agents = {a1, a2}
  Cards = {c1}
  Threads = {t1, t2}
  Updates <- MCUpdates
  Seed <- MCSeed
  MaxCrashes = 2
SPECIFICATION Spec
SYMMETRY ThreadSymmetry
INVARIANTS
  StoreTypeOK
  TrustIsDecided
  IdleFileIsCurrent
PROPERTIES
  AcknowledgedSurvives
CHECK_DEADLOCK FALSE
