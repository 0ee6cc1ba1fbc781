SPECIFICATION FairSpec
CONSTANTS
  usd = usd
  eur = eur
  s1 = s1
  s2 = s2
  s3 = s3
  s4 = s4
  r1 = r1
  r2 = r2
  r3 = r3
  Threads = {t1, t2}
  NoThread = free
  Currencies = {usd, eur}
  Sends <- MCSends
  RATE_LIMIT = 1
  MaxWindow = 2
INVARIANTS
  TypeOK
  PoolsMatchRecords
  OncePerReference
  SignatureOnce
  RateHolds
PROPERTY
  LockReleased
