SPECIFICATION Spec
CONSTANTS
  Sockets = {k1, k2}
  Readers = {k1}
  Sessions = {s1}
  Bots = {b1, b2}
  NoBot = NoBot
  NoSession = NoSession
  HubCapacity = 1
  ReplayLimit = 2
  Offers <- MCOffers
  Published <- MCMixed
  MaxEvents = 1
  MaxRetries = 1
  MaxSeq = 3
CHECK_DEADLOCK FALSE
INVARIANTS ConnectionOrder OnlyGranted WriteAhead
PROPERTIES SessionMonotone
