\* Two users with an organization each, one of them a member of both, and one key.
SPECIFICATION Spec
CONSTANTS
  a = a
  b = b
  oa = oa
  ob = ob
  Users = {a, b}
  Keys = {k1}
  Orgs = {oa, ob}
  MembersOf <- MCMembersOf
  HomeOf <- MCHomeOf
  WithCode = {a}
  Known = {a}
  MaxAway = 2
  None = None
INVARIANTS
  TypeOK
  SecretShownToItsMaker
  ForeignAccountHasAnExcuse
  ListShowsOwnChanges
PROPERTIES
  SessionOutlivesOtherSignOuts
CHECK_DEADLOCK FALSE
