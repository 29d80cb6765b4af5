\* One order of every kind and a second one in another asset, two rows for them or for one
\* and its retry, and three transactions of every depositor's account.
SPECIFICATION Spec
CONSTANTS
  o1 = o1
  o2 = o2
  ann = ann
  bob = bob
  cid = cid
  Orders = {o1, o2}
  Asks <- MCAsks
  MaxId = 2
  Grain = 4
  Precision = 40
  MaxStroops = 20
  MaxSequence = 3
  Wallets = {ann, bob, cid}
  Stranger = stranger
  Native = native
  Usdc = usdc
  None = None
INVARIANTS
  TypeOK
  DealMatchesItsRow
  MilestonesCoverAmount
  DuplicatesAreBuiltKnowingly
CHECK_DEADLOCK FALSE
