\* Two deals that share one pool, two wallets that may hold any of the roles, and
\* balances that fund one large deal or two small ones.
SPECIFICATION Spec
CONSTANTS
  Ids = {d1, d2}
  Parties = {p1, p2}
  Self = contract
  Tokens = {usdc}
  Amounts = {0, 1, 2}
  InitialBalance = 2
  TtlThreshold = 1
  TtlExtendTo = 2
  MinPersistentTtl = 1
  NoTerms = NoTerms
  Nobody = Nobody
INVARIANTS
  TypeOK
  PoolCoversEveryDeal
PROPERTIES
  TermsNeverChange
  ImplementsLifecycle
  ImplementsVault
SYMMETRY DealAndPartySymmetry
