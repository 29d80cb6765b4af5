\* One deal among three wallets, with its row and two requests that may overlap.
SPECIFICATION SystemSpec
CONSTANTS
  Ids = {d1}
  Parties = {p1, p2, p3}
  Self = contract
  Tokens = {usdc}
  Amounts = {1}
  InitialBalance = 1
  TtlThreshold = 2
  TtlExtendTo = 4
  MinPersistentTtl = 1
  NoTerms = NoTerms
  Nobody = Nobody
  Milestones = {m1}
  Requests = {r1, r2}
  Shapes <- OnChainDeals
INVARIANTS
  SettledByTheRightSignature
  TouchedIsReachable
  RowsTellWhereTheMoneyIs
  ShownDisputeIsFrozen
  RulingsAreTheArbiters
SYMMETRY PartyAndRequestSymmetry
