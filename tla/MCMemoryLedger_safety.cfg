SPECIFICATION Spec
CONSTANTS
  usd = usd
  eur = eur
  alice = alice
  bob = bob
  fees = fees
  Threads = {t1, t2}
  Owners = {alice, bob, fees}
  Currencies = {usd, eur}
  FeeCollector = fees
  MAX_TX_LIST = 2
  MAX_HISTORY_SIZE = 2
  ModelIds = "uuid"
  RefusesLocks = TRUE
  Genesis <- MCGenesis
  Txs <- MCTxs
SYMMETRY Symmetry
INVARIANTS
  TypeOK
  OwnerIndexExact
  SupplyConserved
  OneWinner
PROPERTY
  ImplementsUtxoLedger
