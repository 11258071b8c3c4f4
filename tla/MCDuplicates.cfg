CONSTANTS
  a1 = a1
  a2 = a2
  c1 = c1
  None = None
  Agents = {a1, a2}
  Cards = {c1}
  Threads = {t1, t2}
  Updates <- MCUpdates
  Seed <- NoSeed
  MaxCrashes = 0
SPECIFICATION Spec
PROPERTIES
  RegistrationNeverReplaces
CHECK_DEADLOCK FALSE
