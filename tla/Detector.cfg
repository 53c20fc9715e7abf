SPECIFICATION MCSpec
CONSTANTS
  api = api
  shop = shop
  item = item
  old = old
  Key = {api, shop, old}
  Group = {api, shop, item, old}
  Claim <- MCClaim
  Kind <- MCKind
  NoGroup = NoGroup
  NoRule = NoRule
  Interval = 2
  Window = 4
  MaxLag = 2
  MaxTracked = 2
  Required = 2
  MaxRules = 2
  TTL = 4
  MinReload = 3
  Threshold = 1
  MinShare = 50
  Horizon = 8
  RecordId = {m1, m2}
  Delay = 1
SYMMETRY Symmetry
CHECK_DEADLOCK FALSE
INVARIANTS SlidingLifetime WithinCapacity ApplyIsPrompt ActionFitsGroup WindowExact
PROPERTIES OnlyExpiryDrops ActivationTakesAStreak RulesHaveEvidence
