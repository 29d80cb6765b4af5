\* One deal that is touched at every age its entry can have.
SPECIFICATION Spec
CONSTANTS
  Ids = {d1}
  Parties = {p1, p2}
  Self = contract
  Tokens = {usdc}
  Amounts = {1}
  InitialBalance = 1
  TtlThreshold = 2
  TtlExtendTo = 4
  MinPersistentTtl = 1
  NoTerms = NoTerms
  Nobody = Nobody
INVARIANT TouchedHasFullLife
SYMMETRY PartySymmetry
