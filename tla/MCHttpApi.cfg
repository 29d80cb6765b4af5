\* Two requests at once, one of them for any route, and a key of either organization.
SPECIFICATION Spec
CONSTANTS
  r1 = r1
  r2 = r2
  u1 = u1
  u2 = u2
  o1 = o1
  o2 = o2
  Requests = {r1, r2}
  Users = {u1, u2}
  Orgs = {o1, o2}
  Keys = {k1}
  Offered <- MCOffered
  Ranks <- MCRanks
  None = None
INVARIANTS
  TypeOK
  HandledRequestsWereEntitled
  AnswersTellWhatHappened
PROPERTIES
  RevocationIsFinal
  KeysAreRevokedFromInside
CHECK_DEADLOCK FALSE
