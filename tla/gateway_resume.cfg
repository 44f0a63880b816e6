SPECIFICATION FairApartSpec
CONSTANTS
  Sockets = {k1, k2}
  Readers = {k1}
  Sessions = {s1}
  Bots = {b1}
  NoBot = NoBot
  NoSession = NoSession
  HubCapacity = 1
  ReplayLimit = 2
  Offers <- MCOffers
  Published <- MCPublished
  MaxEvents = 3
  MaxRetries = 0
  MaxSeq = 4
CHECK_DEADLOCK FALSE
PROPERTIES NumbersNeverReused StreamIsWhole LogSpec HandlersFinish QueueDrains
