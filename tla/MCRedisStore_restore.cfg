SPECIFICATION Spec
CONSTANTS
  usd = usd
  alice = alice
  bob = bob
  Clients = {c1, c2}
  Owners = {alice, bob}
  Currencies = {usd}
  FeeCollector = alice
  MAX_TX_LIST = 2
  ModelIds = "str"
  RefusesLocks = FALSE
  Genesis <- MCGenesis
  Txs <- MCTxs
  Adds = {}
  MaxId = 3
  MaxSnapshots = 1
INVARIANT
  SupplyConserved
