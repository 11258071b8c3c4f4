SPECIFICATION Spec
CONSTANTS
  first = first
  second = second
  admin = admin
  user = user
  c1 = c1
  c2 = c2
  c3 = c3
  adm = adm
  usr = usr
  none = none
  None = none
  Clients = {adm, usr}
  Calls = {c1, c2, c3}
  MaxAgents = 1
  MaxInFlight = 2
  Tokens <- MCTokens
  TokenCtx <- MCTokenCtx
  Normal <- MCNormal
  FirstToken <- MCFirstToken
  ClientOf <- MCClientOf
  Bodies <- MCBodies
  Changes <- MCChanges
  Jobs <- MCJobs
INVARIANTS
  MembershipIsAdminSet
  OneDeletionEach
  VerdictsHaveReasons
  InternalErrorsAreRaces
PROPERTIES
  DeletedStaysDeleted
  TokenSettles
