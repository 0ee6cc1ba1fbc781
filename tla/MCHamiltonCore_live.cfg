SPECIFICATION FairSpec
CONSTANTS
  w1 = w1
  w2 = w2
  free = free
  bridge = bridge
  wallet = wallet
  k1 = k1
  k2 = k2
  k3 = k3
  m1 = m1
  m2 = m2
  o1 = o1
  o2 = o2
  x1 = x1
  x2 = x2
  b1 = b1
  b2 = b2
  USD = USD
  EUR = EUR
  alice = alice
  bob = bob
  Workers = {w1, w2}
  NoWorker = free
  MintIds = {m1}
  BurnIds = {b1}
  Clients = {bridge, wallet}
  Role <- MCRole
  Keys = {k1, k2, k3}
  TokenIds = {m1, m2, o1, o2}
  TxIds = {m1, m2, o1, o2, x1, x2, b1, b2}
  Currencies = {USD, EUR}
  Owners = {alice, bob}
  Subunits = 2
  MAX_UTXO_LIST = 2
  Requests <- MCLiveRequests
PROPERTIES
  LockReleased
  Answered
