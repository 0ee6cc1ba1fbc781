SPECIFICATION FairSpec
CONSTANTS
  p1 = p1
  p2 = p2
  Workers = {w1, w2}
  NoWorker = free
  Payments = {p1, p2}
  Events = {e1, e2}
  Amounts = {0, 5}
  Subunits = 2
  Callbacks <- MCCallbacks
INVARIANTS
  TypeOK
  OneWriter
  EventsTellStory
  AcceptedIsDurable
PROPERTIES
  FinalIsFinal
  LocksReleased
