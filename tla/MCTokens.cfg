SPECIFICATION MCSpec
CONSTANTS
  NumAddresses = 2
  U64 = 4
  Initial = {1}
  Amounts = {1, 2}
  Batches <- MCBatches
  Permits <- MCPermits
  Drops <- MCDrops
  Snapshots <- MCSnapshots
  Hooks = {"guard", "audit"}
  MAX_HOOKS = 2
  NoAdmin = 0
  MaxLedger = 1
  MaxDrops = 1
  MaxMinted = 4
  MaxHeld = 3
  SorobanAmounts <- MCSorobanAmounts
  Supplies = {1, 2}
INVARIANTS
  Books
  NothingLost
  AllowancesHold
  OnceOnly
  LedgerBooks
PROPERTIES
  PausableStops
ACTION_CONSTRAINT Focus
